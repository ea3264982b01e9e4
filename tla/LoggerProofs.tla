---------------------------- MODULE LoggerProofs ----------------------------
(***************************************************************************)
(* Proofs about the logger: its mutex keeps the lines of a file whole and  *)
(* in order, and no line is lost unless a write fails, for every number of *)
(* threads, lines, writes and starts, wherever the process is killed.  The *)
(* GUI writes to no log, so the same holds with the monitor reading along; *)
(* its statistics count each trade once, and a trade that its table shows  *)
(* goes only when newer ones push it out, if no write fails.               *)
(***************************************************************************)
EXTENDS LogMonitor, OrdersProofs

-----------------------------------------------------------------------------
(***************************************************************************)
(* The mutex.                                                              *)
(***************************************************************************)
LEMMA IdleType == Idle \in Call /\ Idle.id = 0 /\ Idle.at = 0
BY DEF Idle, Call, Newline

LEMMA LoggerInvInit == LoggerInit => LoggerInv
<1> SUFFICES ASSUME LoggerInit PROVE LoggerInv
  OBVIOUS
<1>1. files \in [Logs -> Seq(Piece)] /\ lines \in Seq(Line)
  BY EmptySeq DEF LoggerInit
<1>2. /\ call \in [Threads -> Call]
      /\ \A t \in Threads : call[t].id = 0
  BY IdleType DEF LoggerInit
<1>3. \A t \in Threads : Writing(t) <=> mutex = t
  BY <1>2, LoggerConstants DEF LoggerInit, Writing
<1> QED BY <1>1, <1>2, <1>3 DEF LoggerInit, LoggerInv

\* The thread that writes holds the mutex, and its line is the last one.
LEMMA Writer ==
  ASSUME LoggerInv, NEW t \in Threads, Writing(t)
  PROVE  /\ mutex = t /\ running /\ call[t].id = Len(lines) /\ Len(lines) \in Nat \ {0}
         /\ call[t].id \in DOMAIN lines
         /\ lines[call[t].id] \in Line /\ lines[call[t].id].log \in Logs
         /\ call[t].at \in 0 .. Newline
         /\ \A u \in Threads : u # t => ~Writing(u)
<1>1. mutex = t /\ mutex # NoThread
  BY LoggerConstants DEF LoggerInv
<1>2. running /\ call[t].id = Len(lines) /\ call[t] \in Call
  BY <1>1 DEF LoggerInv
<1>3. lines \in Seq(Line) /\ Len(lines) \in Nat \ {0}
  BY <1>2, LenProperties DEF LoggerInv, Writing
<1>4. DOMAIN lines = 1 .. Len(lines) /\ call[t].id \in 1 .. Len(lines)
  BY <1>2, <1>3, LenProperties
<1>5. lines[call[t].id] \in Line
  BY <1>3, <1>4, ElementOfSeq
<1> QED BY <1>1, <1>2, <1>3, <1>4, <1>5 DEF LoggerInv, Line, Call

\* Nobody who does not write has a line in progress.
LEMMA NotWriting ==
  ASSUME LoggerInv, NEW t \in Threads, ~Writing(t)
  PROVE  call[t].id = 0
BY DEF LoggerInv, Writing, Call

\* The places where pieces begin and end are numbers; only the end of a piece
\* is the end of a line.
LEMMA PieceTyped ==
  ASSUME NEW p \in Piece
  PROVE  /\ p.id \in Nat /\ p.from \in Nat /\ p.from < Whole
         /\ p.to \in Nat \ {0} /\ p.to <= Whole
<1>1. p.id \in Nat /\ p.from \in 0 .. Newline /\ p.to \in Stamp .. Whole
  BY DEF Piece
<1> DEFINE a == p.from
           b == p.to
<1> HIDE DEF a, b
<1>2. a \in 0 .. Newline /\ b \in Stamp .. Whole
  BY <1>1 DEF a, b
<1>3. a \in Nat /\ a < Whole /\ b \in Nat \ {0} /\ b <= Whole
  BY <1>2 DEF Stamp, Newline, Whole
<1> QED BY <1>1, <1>3 DEF a, b

LEMMA LoggerTypesWrite ==
  ASSUME LoggerInv, NEW t \in Threads, NEW to \in Stamp .. Whole, Writing(t), Wrote(t, to)
  PROVE  files' \in [Logs -> Seq(Piece)]
<1> DEFINE piece == [id |-> call[t].id, from |-> call[t].at, to |-> to]
<1>1. piece \in Piece
  BY Writer DEF Piece
<1> HIDE DEF piece
<1>2. files' = [files EXCEPT ![lines[call[t].id].log] = Append(@, piece)]
  BY DEF Wrote, piece
<1> QED BY <1>1, <1>2, Writer DEF LoggerInv

\* Where a write may stop short: never with the line, and not behind its end.
LEMMA CutPlaces ==
  ASSUME NEW log \in Logs, NEW to \in Cuts(log)
  PROVE  to \in Stamp .. Whole /\ to \in 0 .. Newline /\ to # 0 /\ to # Whole
BY DEF Cuts, Stamp, Ending, Newline, Whole, Logs

LEMMA LoggerInvStep ==
  ASSUME LoggerInv, [LoggerNext]_loggerVars
  PROVE  LoggerInv'
<1> USE LoggerConstants
<1>1. ASSUME NEW opened \in SUBSET Logs, OpenLogs(opened) PROVE LoggerInv'
  <2>1. files' \in [Logs -> Seq(Piece)]
    BY <1>1, EmptySeq DEF OpenLogs, LoggerInv
  <2>2. mutex = NoThread
    BY <1>1 DEF OpenLogs, LoggerInv
  <2> QED BY <1>1, <2>1, <2>2 DEF OpenLogs, LoggerInv, Writing
<1>2. ASSUME NEW t \in Threads, NEW log \in Logs, NEW level \in LogLevels, NEW qty \in Nat,
             BeginLog(t, log, level, qty)
      PROVE  LoggerInv'
  <2> DEFINE line == [log |-> log, level |-> level, qty |-> qty, run |-> runs]
  <2>1. lines' = Append(lines, line) /\ line \in Line
    BY <1>2 DEF BeginLog, LoggerInv, Line
  <2> HIDE DEF line
  <2>2. lines' \in Seq(Line) /\ Len(lines') = Len(lines) + 1 /\ Len(lines) \in Nat
    BY <2>1 DEF LoggerInv
  <2>3. /\ call' = [call EXCEPT ![t].id = Len(lines) + 1]
        /\ mutex = NoThread /\ mutex' = t /\ running
        /\ UNCHANGED <<files, exists, running, runs>>
    BY <1>2 DEF BeginLog, Lock
  <2>4. call' \in [Threads -> Call]
    <3> DEFINE n == Len(lines) + 1
    <3>1. n \in Nat /\ call \in [Threads -> Call]
      BY <2>2 DEF LoggerInv
    <3>2. call' = [call EXCEPT ![t].id = n]
      BY <2>3
    <3> HIDE DEF n
    <3> QED BY <3>1, <3>2 DEF Call
  <2>5. \A u \in Threads : call'[u].id > 0 <=> u = t
    <3>1. \A u \in Threads : call[u].id = 0 /\ call[u] \in Call
      BY <2>3, NotWriting DEF LoggerInv
    <3> QED BY <2>2, <2>3, <3>1 DEF LoggerInv, Call
  <2>6. call'[t].id = Len(lines')
    BY <2>2, <2>3 DEF LoggerInv, Call
  <2> QED BY <2>2, <2>3, <2>4, <2>5, <2>6 DEF LoggerInv, Writing
<1>3. ASSUME NEW t \in Threads, Writing(t), EndLog(t), UNCHANGED <<exists, running, runs, lines>>,
             files' \in [Logs -> Seq(Piece)]
      PROVE  LoggerInv'
  <2>1. /\ call' = [call EXCEPT ![t] = Idle] /\ mutex' = NoThread
        /\ call' \in [Threads -> Call]
    BY <1>3, IdleType DEF EndLog, LoggerInv
  <2>2. \A u \in Threads : ~Writing(u)'
    BY <1>3, <2>1, Writer, NotWriting DEF Writing, Idle, LoggerInv
  <2> QED BY <1>3, <2>1, <2>2 DEF LoggerInv
<1>4. ASSUME NEW t \in Threads, Writing(t), NEW to \in Cuts(lines[call[t].id].log),
             ShortWrite(t, to)
      PROVE  LoggerInv'
  <2>1. to \in Stamp .. Whole /\ to \in 0 .. Newline
    BY <1>4, Writer, CutPlaces
  <2>2. files' \in [Logs -> Seq(Piece)]
    BY <1>4, <2>1, LoggerTypesWrite DEF ShortWrite
  <2>3. /\ call' = [call EXCEPT ![t].at = to] /\ UNCHANGED <<exists, running, mutex, runs, lines>>
        /\ call' \in [Threads -> Call]
    BY <1>4, <2>1 DEF ShortWrite, LoggerInv, Call
  <2>4. \A u \in Threads : call'[u].id = call[u].id
    BY <2>3 DEF LoggerInv, Call
  <2> QED BY <2>2, <2>3, <2>4 DEF LoggerInv, Writing
<1>5. ASSUME NEW t \in Threads, LastWrite(t) PROVE LoggerInv'
  <2>1. Whole \in Stamp .. Whole
    BY DEF Stamp, Whole
  <2>2. files' \in [Logs -> Seq(Piece)]
    BY <1>5, <2>1, LoggerTypesWrite DEF LastWrite
  <2> QED BY <1>3, <1>5, <2>2 DEF LastWrite
<1>6. ASSUME NEW t \in Threads, FailedWrite(t) PROVE LoggerInv'
  BY <1>3, <1>6 DEF FailedWrite, LoggerInv
<1>7. CASE CloseLogs
  <2>1. mutex = NoThread
    BY <1>7 DEF CloseLogs, LoggerInv, Writing, Idle
  <2> QED BY <1>7, <2>1 DEF CloseLogs, LoggerInv, Writing
<1>8. CASE Crash
  <2>1. /\ call' \in [Threads -> Call]
        /\ \A t \in Threads : call'[t].id = 0
    BY <1>8, IdleType DEF Crash
  <2>2. \A t \in Threads : Writing(t)' <=> mutex' = t
    BY <1>8, <2>1 DEF Crash, Writing
  <2> QED BY <1>8, <2>1, <2>2 DEF Crash, LoggerInv
<1>9. CASE UNCHANGED loggerVars
  BY <1>9 DEF loggerVars, LoggerInv, Writing
<1> QED BY <1>1, <1>2, <1>4, <1>5, <1>6, <1>7, <1>8, <1>9 DEF LoggerNext, Logs, LogLevels

\* The mutex is held exactly while a line is written, by the thread whose line
\* is the last one begun, and given back on every path.
THEOREM LoggerInvariant == LoggerSpec => []LoggerInv
BY LoggerInvInit, LoggerInvStep, PTL DEF LoggerSpec

-----------------------------------------------------------------------------
(***************************************************************************)
(* The lines of a file.                                                    *)
(***************************************************************************)
\* What LinesKeptTogether says of a file, for any two of its pieces.
Together(log, f) ==
  \A i \in DOMAIN f :
    /\ LineOf(log, f[i].id) /\ f[i].from <= f[i].to
    /\ f[i].from # 0 => i > 1 /\ f[i - 1].id = f[i].id /\ f[i - 1].to = f[i].from
    /\ \A j \in 1 .. i - 1 : f[j].id < f[i].id \/ (f[j].id = f[i].id /\ f[j].to <= f[i].from)

\* The file of a line that is being written: nothing of the line yet, behind
\* older lines, or the last piece of it at the end.
Begun(t) ==
  LET f == files[lines[call[t].id].log]
  IN  IF call[t].at = 0
      THEN \A i \in DOMAIN f : f[i].id < call[t].id
      ELSE f # <<>> /\ f[Len(f)].id = call[t].id /\ f[Len(f)].to = call[t].at

TogetherInv ==
  /\ \A log \in Logs : Together(log, files[log])
  /\ \A t \in Threads : Writing(t) => Begun(t)

\* A piece more keeps the lines of a file together if it goes on where the last
\* piece there ends, or begins a line newer than all there.
LEMMA PieceMore ==
  ASSUME NEW log \in Logs, NEW f \in Seq(Piece), NEW piece \in Piece,
         Together(log, f), LineOf(log, piece.id), piece.from <= piece.to,
         IF piece.from # 0
         THEN f # <<>> /\ f[Len(f)].id = piece.id /\ f[Len(f)].to = piece.from
         ELSE \A i \in DOMAIN f : f[i].id < piece.id
  PROVE  Together(log, Append(f, piece))
<1> DEFINE g == Append(f, piece)
           n == Len(f)
<1>1. n \in Nat /\ DOMAIN f = 1 .. n /\ (f # <<>> => n > 0)
  BY LenProperties, EmptySeq
<1>2. DOMAIN g = 1 .. n + 1 /\ g[n + 1] = piece /\ \A i \in 1 .. n : g[i] = f[i]
  BY <1>1
<1>3. /\ piece.from = 0 => \A i \in 1 .. n : f[i].id < piece.id
      /\ piece.from # 0 => n > 0 /\ f[n].id = piece.id /\ f[n].to = piece.from
  BY <1>1
<1>4. \A i \in 1 .. n : f[i] \in Piece
  BY <1>1, ElementOfSeq
<1> HIDE DEF g, n
<1> SUFFICES ASSUME NEW i \in DOMAIN g
             PROVE  /\ LineOf(log, g[i].id) /\ g[i].from <= g[i].to
                    /\ g[i].from # 0 =>
                         i > 1 /\ g[i - 1].id = g[i].id /\ g[i - 1].to = g[i].from
                    /\ \A j \in 1 .. i - 1 :
                         g[j].id < g[i].id \/ (g[j].id = g[i].id /\ g[j].to <= g[i].from)
  BY DEF Together, g
<1>5. CASE i \in 1 .. n
  <2>1. g[i] = f[i] /\ \A j \in 1 .. i - 1 : g[j] = f[j]
    BY <1>1, <1>2, <1>5
  <2>2. i > 1 => g[i - 1] = f[i - 1]
    BY <1>1, <1>2, <1>5
  <2> QED BY <1>1, <1>5, <2>1, <2>2 DEF Together
<1>6. CASE i = n + 1
  <2>1. g[i] = piece /\ i - 1 = n /\ (n > 0 => g[n] = f[n] /\ i > 1)
    BY <1>1, <1>2, <1>6
  <2>2. ASSUME NEW j \in 1 .. n
        PROVE  f[j].id < piece.id \/ (f[j].id = piece.id /\ f[j].to <= piece.from)
    <3>1. CASE piece.from = 0
      BY <1>3, <3>1
    <3>2. CASE piece.from # 0 /\ j = n
      BY <1>3, <1>4, <3>2 DEF Piece, Stamp, Whole
    <3>3. CASE piece.from # 0 /\ j # n
      <4>1. n \in DOMAIN f /\ j \in 1 .. n - 1
        BY <1>1, <3>3
      <4>2. /\ f[n].from <= f[n].to
            /\ f[j].id < f[n].id \/ (f[j].id = f[n].id /\ f[j].to <= f[n].from)
        BY <4>1 DEF Together
      <4>3. f[j].to \in Nat /\ f[n].from \in Nat /\ f[n].to \in Nat
        <5>1. f[j] \in Piece /\ f[n] \in Piece
          BY <1>1, <1>4, <4>1
        <5> QED BY <5>1, PieceTyped
      <4>4. n > 0 /\ f[n].id = piece.id /\ f[n].to = piece.from
        BY <1>3, <3>3
      <4> QED BY <4>2, <4>3, <4>4
    <3> QED BY <3>1, <3>2, <3>3
  <2>3. \A j \in 1 .. i - 1 : g[j] = f[j]
    BY <1>1, <1>2, <2>1
  <2> QED BY <1>3, <2>1, <2>2, <2>3
<1> QED BY <1>1, <1>2, <1>5, <1>6

LEMMA LineOfTyped ==
  ASSUME LoggerInv
  PROVE  /\ lines \in Seq(Line) /\ Len(lines) \in Nat /\ DOMAIN lines = 1 .. Len(lines)
         /\ files \in [Logs -> Seq(Piece)]
         /\ \A log \in Logs : DOMAIN files[log] = 1 .. Len(files[log]) /\ Len(files[log]) \in Nat
BY LenProperties DEF LoggerInv

LEMMA TogetherBegin ==
  ASSUME LoggerInv, TogetherInv, NEW t \in Threads, NEW log \in Logs,
         NEW level \in LogLevels, NEW qty \in Nat, BeginLog(t, log, level, qty)
  PROVE  TogetherInv'
<1> DEFINE line == [log |-> log, level |-> level, qty |-> qty, run |-> runs]
           n    == Len(lines)
<1>1. lines' = Append(lines, line) /\ line.log = log
  BY DEF BeginLog
<1> HIDE DEF line
<1>2. n \in Nat /\ DOMAIN lines = 1 .. n /\ lines \in Seq(Line)
  BY LineOfTyped
<1>3. /\ DOMAIN lines' = 1 .. n + 1 /\ lines'[n + 1] = line
      /\ \A id \in 1 .. n : lines'[id] = lines[id]
  BY <1>1, <1>2
<1>4. /\ mutex = NoThread /\ call[t] = Idle /\ UNCHANGED files
      /\ call' = [call EXCEPT ![t].id = n + 1]
  BY DEF BeginLog, Lock
<1> HIDE DEF n
<1>5. ASSUME NEW l \in Logs, NEW id, LineOf(l, id) PROVE LineOf(l, id)' /\ id \in 1 .. n
  BY <1>2, <1>3, <1>5 DEF LineOf
<1>6. \A l \in Logs : Together(l, files[l])'
  BY <1>4, <1>5 DEF TogetherInv, Together
<1>7. ASSUME NEW u \in Threads, Writing(u)' PROVE Begun(u)'
  <2>1. u = t
    BY <1>4, <1>7, LoggerConstants DEF LoggerInv, Writing
  <2>2. call'[t].id = n + 1 /\ call'[t].at = 0
    BY <1>4 DEF LoggerInv, Idle, Call
  <2>3. lines'[call'[t].id].log = log
    BY <1>1, <1>3, <2>2
  <2>4. \A i \in DOMAIN files[log] : files[log][i].id < n + 1
    <3>1. \A i \in DOMAIN files[log] : LineOf(log, files[log][i].id)
      BY DEF TogetherInv, Together
    <3> QED BY <1>2, <1>5, <3>1
  <2> QED BY <1>4, <2>1, <2>2, <2>3, <2>4 DEF Begun
<1> QED BY <1>6, <1>7 DEF TogetherInv

\* A write of t's, wherever it stops.
LEMMA TogetherWrote ==
  ASSUME LoggerInv, TogetherInv, NEW t \in Threads, Writing(t),
         NEW to \in Stamp .. Whole, call[t].at <= to, Wrote(t, to), UNCHANGED lines
  PROVE  /\ \A log \in Logs : Together(log, files[log])'
         /\ LET f == files'[lines[call[t].id].log]
            IN  f # <<>> /\ f[Len(f)].id = call[t].id /\ f[Len(f)].to = to
<1> DEFINE log   == lines[call[t].id].log
           piece == [id |-> call[t].id, from |-> call[t].at, to |-> to]
<1>1. files' = [files EXCEPT ![log] = Append(@, piece)] /\ log \in Logs
  <2>1. log \in Logs
    BY Writer
  <2> QED BY <2>1 DEF Wrote
<1>2. piece \in Piece /\ LineOf(log, piece.id) /\ piece.from <= piece.to
  <2>1. /\ call[t].at \in 0 .. Newline /\ call[t].id \in Nat
        /\ call[t].id \in DOMAIN lines /\ lines[call[t].id].log = log
    BY Writer
  <2> QED BY <2>1 DEF Piece, LineOf
<1>3. IF call[t].at = 0
      THEN \A i \in DOMAIN files[log] : files[log][i].id < call[t].id
      ELSE /\ files[log] # <<>> /\ files[log][Len(files[log])].id = call[t].id
           /\ files[log][Len(files[log])].to = call[t].at
  <2>1. Begun(t)
    BY DEF TogetherInv
  <2> QED BY <2>1 DEF Begun
<1>4. piece.id = call[t].id /\ piece.from = call[t].at /\ piece.to = to
  OBVIOUS
<1> HIDE DEF log, piece
<1>5. files[log] \in Seq(Piece)
  BY <1>1, LineOfTyped
<1>6. Together(log, files[log])
  BY <1>1 DEF TogetherInv
<1>7. Together(log, Append(files[log], piece))
  BY <1>1, <1>2, <1>3, <1>4, <1>5, <1>6, PieceMore
<1>8. files'[log] = Append(files[log], piece) /\ \A l \in Logs : l # log => files'[l] = files[l]
  <2>1. files \in [Logs -> Seq(Piece)]
    BY LineOfTyped
  <2> QED BY <1>1, <2>1
<1>9. ASSUME NEW l \in Logs PROVE Together(l, files[l])'
  <2>1. Together(l, files'[l])
    <3>1. CASE l = log
      BY <1>7, <1>8, <3>1
    <3>2. CASE l # log
      BY <1>8, <3>2 DEF TogetherInv
    <3> QED BY <3>1, <3>2
  <2> QED BY <2>1 DEF Together, LineOf
<1>10. LET f == files'[log] IN f # <<>> /\ f[Len(f)] = piece
  BY <1>2, <1>5, <1>8
<1> QED BY <1>4, <1>9, <1>10 DEF log

LEMMA TogetherStep ==
  ASSUME LoggerInv, TogetherInv, [LoggerNext]_loggerVars
  PROVE  TogetherInv'
<1>1. ASSUME NEW opened \in SUBSET Logs, OpenLogs(opened) PROVE TogetherInv'
  <2>1. \A t \in Threads : ~Writing(t)'
    BY <1>1, LoggerConstants DEF OpenLogs, LoggerInv, Writing
  <2>2. ASSUME NEW log \in Logs PROVE Together(log, files[log])'
    <3>1. CASE log \in opened
      <4>1. files'[log] = <<>>
        BY <1>1, <3>1 DEF OpenLogs
      <4> QED BY <4>1 DEF Together
    <3>2. CASE log \notin opened
      <4>1. files'[log] = files[log] /\ UNCHANGED lines
        BY <1>1, <3>2 DEF OpenLogs
      <4> QED BY <4>1 DEF TogetherInv, Together, LineOf
    <3> QED BY <3>1, <3>2
  <2> QED BY <2>1, <2>2 DEF TogetherInv
<1>2. ASSUME NEW t \in Threads, Writing(t), EndLog(t),
             \A log \in Logs : Together(log, files[log])'
      PROVE  TogetherInv'
  <2>1. \A u \in Threads : ~Writing(u)'
    BY <1>2, Writer, NotWriting DEF EndLog, Writing, Idle, LoggerInv
  <2> QED BY <1>2, <2>1 DEF TogetherInv
<1>3. ASSUME UNCHANGED <<files, lines>>, NEW log \in Logs PROVE Together(log, files[log])'
  <2>1. Together(log, files[log])
    BY DEF TogetherInv
  <2> DEFINE f == files[log]
  <2>2. f' = f /\ \A id : LineOf(log, id)' = LineOf(log, id)
    BY <1>3 DEF LineOf
  <2> HIDE DEF f
  <2>3. Together(log, f)'
    <3> SUFFICES ASSUME NEW i \in DOMAIN f
                 PROVE  /\ LineOf(log, f[i].id)' /\ f[i].from <= f[i].to
                        /\ f[i].from # 0 => /\ i > 1 /\ f[i - 1].id = f[i].id
                                           /\ f[i - 1].to = f[i].from
                        /\ \A j \in 1 .. i - 1 :
                             f[j].id < f[i].id \/ (f[j].id = f[i].id /\ f[j].to <= f[i].from)
      BY <2>2 DEF Together
    <3>1. Together(log, f)
      BY <2>1 DEF f
    <3>2. LineOf(log, f[i].id)'
      <4>1. LineOf(log, f[i].id)
        BY <3>1 DEF Together
      <4> QED BY <2>2, <4>1, Zenon
    <3>3. /\ f[i].from <= f[i].to
          /\ f[i].from # 0 => i > 1 /\ f[i - 1].id = f[i].id /\ f[i - 1].to = f[i].from
      BY <3>1 DEF Together
    <3>4. ASSUME NEW j \in 1 .. i - 1
          PROVE  f[j].id < f[i].id \/ (f[j].id = f[i].id /\ f[j].to <= f[i].from)
      BY <3>1 DEF Together
    <3> QED BY <3>2, <3>3, <3>4, Zenon
  <2> QED BY <2>3 DEF f
<1>4. ASSUME NEW t \in Threads, Writing(t), NEW to \in Cuts(lines[call[t].id].log),
             ShortWrite(t, to)
      PROVE  TogetherInv'
  <2>1. to \in Stamp .. Whole /\ to # 0
    <3>1. lines[call[t].id].log \in Logs
      BY <1>4, Writer
    <3> QED BY <3>1, CutPlaces
  <2>2. /\ \A log \in Logs : Together(log, files[log])'
        /\ LET f == files'[lines[call[t].id].log]
           IN  f # <<>> /\ f[Len(f)].id = call[t].id /\ f[Len(f)].to = to
    <3>1. Wrote(t, to) /\ call[t].at <= to /\ UNCHANGED lines
      BY <1>4 DEF ShortWrite
    <3> QED BY <1>4, <2>1, <3>1, TogetherWrote
  <2>3. /\ call'[t].id = call[t].id /\ call'[t].at = to /\ UNCHANGED lines
        /\ \A u \in Threads : u # t => call'[u] = call[u]
    BY <1>4 DEF ShortWrite, LoggerInv, Call
  <2>4. \A u \in Threads : Writing(u)' => u = t
    BY <1>4, <2>3, Writer DEF Writing
  <2>5. Begun(t)'
    <3> DEFINE f == files'[lines[call[t].id].log]
    <3>1. f # <<>> /\ f[Len(f)].id = call[t].id /\ f[Len(f)].to = to
      BY <2>2
    <3>2. lines'[call'[t].id].log = lines[call[t].id].log
      BY <2>3
    <3> HIDE DEF f
    <3> QED BY <2>1, <2>3, <3>1, <3>2 DEF Begun, f
  <2> QED BY <2>2, <2>4, <2>5 DEF TogetherInv
<1>5. ASSUME NEW t \in Threads, LastWrite(t) PROVE TogetherInv'
  <2>1. \A log \in Logs : Together(log, files[log])'
    <3>1. Writing(t) /\ Wrote(t, Whole) /\ UNCHANGED lines
      BY <1>5 DEF LastWrite
    <3>2. call[t].at \in 0 .. Newline
      BY <3>1, Writer
    <3>3. Whole \in Stamp .. Whole /\ call[t].at <= Whole
      BY <3>2 DEF Stamp, Newline, Whole
    <3> QED BY <3>1, <3>3, TogetherWrote
  <2> QED BY <1>2, <1>5, <2>1 DEF LastWrite
<1>6. ASSUME NEW t \in Threads, FailedWrite(t) PROVE TogetherInv'
  BY <1>2, <1>3, <1>6 DEF FailedWrite
<1>7. CASE CloseLogs \/ Crash \/ UNCHANGED loggerVars
  <2>1. UNCHANGED <<files, lines>> /\ \A t \in Threads : Writing(t)' => call'[t] = call[t]
    BY <1>7, IdleType DEF CloseLogs, Crash, loggerVars, Writing
  <2> QED BY <1>3, <2>1 DEF TogetherInv, Begun, Writing
<1>8. ASSUME NEW t \in Threads, NEW log \in Logs, NEW level \in LogLevels, NEW qty \in Nat,
             BeginLog(t, log, level, qty)
      PROVE  TogetherInv'
  BY <1>8, TogetherBegin
<1> QED BY <1>1, <1>4, <1>5, <1>6, <1>7, <1>8, LoggerConstants DEF LoggerNext, Logs, LogLevels

LEMMA FilesTogether == LoggerSpec => []TogetherInv
<1>1. LoggerInit => TogetherInv
  BY IdleType DEF LoggerInit, TogetherInv, Together, Writing
<1>2. LoggerInv /\ TogetherInv /\ [LoggerNext]_loggerVars => TogetherInv'
  BY TogetherStep
<1> QED BY <1>1, <1>2, LoggerInvariant, PTL DEF LoggerSpec

\* A file of the logger holds lines of its own, in the order of the calls, and
\* behind a piece of a line the next piece of it, whatever is cut short, fails
\* or is killed, however often.
THEOREM LinesTogether == LoggerSpec => []LinesKeptTogether
<1>1. LoggerInv /\ TogetherInv => LinesKeptTogether
  <2> SUFFICES ASSUME LoggerInv, TogetherInv, NEW log \in Logs, NEW i \in DOMAIN files[log]
               PROVE  LET f == files[log] IN
                      /\ LineOf(log, f[i].id)
                      /\ f[i].from # 0 =>
                           i > 1 /\ f[i - 1].id = f[i].id /\ f[i - 1].to = f[i].from
                      /\ f[i].from = 0 => \A j \in 1 .. i - 1 : f[j].id < f[i].id
    BY DEF LinesKeptTogether
  <2> DEFINE f == files[log]
  <2>1. Together(log, f) /\ f \in Seq(Piece) /\ DOMAIN f = 1 .. Len(f) /\ Len(f) \in Nat
    BY LineOfTyped DEF TogetherInv
  <2> HIDE DEF f
  <2>2. i \in DOMAIN f
    BY DEF f
  <2>3. \A j \in 1 .. i - 1 : f[j] \in Piece
    <3>1. \A j \in 1 .. i - 1 : j \in DOMAIN f
      BY <2>1, <2>2
    <3> QED BY <2>1, <3>1, ElementOfSeq
  <2>4. ASSUME f[i].from = 0, NEW j \in 1 .. i - 1 PROVE f[j].id < f[i].id
    <3>1. f[j].id < f[i].id \/ (f[j].id = f[i].id /\ f[j].to <= f[i].from)
      BY <2>1, <2>2 DEF Together
    <3>2. f[j].to \in Nat \ {0}
      BY <2>3, PieceTyped
    <3> QED BY <2>4, <3>1, <3>2
  <2> QED BY <2>1, <2>2, <2>4 DEF Together, f
<1> QED BY <1>1, LoggerInvariant, FilesTogether, PTL

-----------------------------------------------------------------------------
(***************************************************************************)
(* No line is lost.                                                        *)
(***************************************************************************)
\* What should be in a log: the lines of this run whose call has returned.
Returned(log) ==
  {id \in DOMAIN lines : /\ LineOf(log, id) /\ lines[id].run = runs
                         /\ \A t \in Threads : call[t].id # id}

\* EverythingLogged, with lines of no run to come and writers of this run.
LoggedInv ==
  /\ EverythingLogged
  /\ \A id \in DOMAIN lines : lines[id].run <= runs
  /\ \A t \in Threads : Writing(t) => lines[call[t].id].run = runs

\* A sequence of one element more has the elements of the sequence and that one.
LEMMA ToSetAppend ==
  ASSUME NEW S, NEW f \in Seq(S), NEW x \in S
  PROVE  ToSet(Append(f, x)) = ToSet(f) \cup {x}
<1> DEFINE g == Append(f, x)
           n == Len(f)
<1>1. n \in Nat /\ DOMAIN f = 1 .. n
  BY LenProperties
<1>2. /\ DOMAIN g = 1 .. n + 1 /\ g[n + 1] = x
      /\ \A i \in 1 .. n : g[i] = f[i]
  OBVIOUS
<1> HIDE DEF g, n
<1>3. \A k \in DOMAIN g : (k \in DOMAIN f /\ g[k] = f[k]) \/ g[k] = x
  BY <1>1, <1>2
<1>4. /\ \A k \in DOMAIN f : k \in DOMAIN g /\ g[k] = f[k]
      /\ \E k \in DOMAIN g : g[k] = x
  BY <1>1, <1>2
<1>5. {g[k] : k \in DOMAIN g} = {f[i] : i \in DOMAIN f} \cup {x}
  BY <1>3, <1>4
<1> QED BY <1>5 DEF ToSet, g

LEMMA LoggedWrote ==
  ASSUME LoggerInv, NEW t \in Threads, Writing(t),
         NEW to \in Stamp .. Whole, Wrote(t, to), NEW log \in Logs
  PROVE  Logged(log)' = IF to # Whole \/ log # lines[call[t].id].log THEN Logged(log)
                        ELSE Logged(log) \cup {call[t].id}
<1> DEFINE l     == lines[call[t].id].log
           piece == [id |-> call[t].id, from |-> call[t].at, to |-> to]
<1>1. files' = [files EXCEPT ![l] = Append(@, piece)] /\ l \in Logs
  BY Writer DEF Wrote
<1>2. piece \in Piece /\ piece.id = call[t].id /\ piece.to = to
  BY Writer DEF Piece
<1>3. files[l] \in Seq(Piece)
  BY <1>1, LineOfTyped
<1> HIDE DEF l, piece
<1>4. files'[l] = Append(files[l], piece) /\ (log # l => files'[log] = files[log])
  BY <1>1, LineOfTyped
<1>5. ToSet(files'[l]) = ToSet(files[l]) \cup {piece}
  BY <1>2, <1>3, <1>4, ToSetAppend
<1> QED BY <1>2, <1>4, <1>5 DEF Logged, l

\* A step of t's after which it does not write any more, its line being in the
\* log.
LEMMA LoggedEnd ==
  ASSUME LoggerInv, LoggedInv, ~WritesFail, NEW t \in Threads, LastWrite(t)
  PROVE  LoggedInv'
<1> DEFINE id == call[t].id
           l  == lines[id].log
<1>1. /\ Writing(t) /\ id \in DOMAIN lines /\ l \in Logs /\ running
      /\ lines[id].run = runs /\ id > 0
      /\ \A u \in Threads : u # t => call[u].id = 0
  BY Writer, NotWriting DEF LastWrite, LoggedInv, Writing
<1>2. /\ UNCHANGED <<exists, running, runs, lines>>
      /\ call'[t].id = 0 /\ \A u \in Threads : u # t => call'[u].id = 0
  BY <1>1, IdleType DEF LastWrite, EndLog, LoggerInv
<1>3. \A log \in Logs : Logged(log)' = IF log # l THEN Logged(log) ELSE Logged(log) \cup {id}
  <2>1. Whole \in Stamp .. Whole
    BY DEF Stamp, Whole
  <2> QED BY <1>1, <2>1, LoggedWrote DEF LastWrite
<1>4. \A k \in DOMAIN lines : k > 0
  BY LineOfTyped
<1> HIDE DEF id
<1>5. ASSUME NEW log \in Logs
      PROVE  Returned(log)' = IF log # l THEN Returned(log) ELSE Returned(log) \cup {id}
  <2>1. Returned(log)' = {k \in DOMAIN lines : LineOf(log, k) /\ lines[k].run = runs}
    BY <1>2, <1>4 DEF Returned, LineOf
  <2>2. Returned(log) = {k \in DOMAIN lines : /\ LineOf(log, k) /\ lines[k].run = runs
                                              /\ k # id}
    BY <1>1, <1>4 DEF Returned, id
  <2> QED BY <1>1, <2>1, <2>2 DEF LineOf
<1>6. \A log \in Logs : Logged(log) = Returned(log)
  BY <1>1 DEF LoggedInv, EverythingLogged, Returned
<1>7. EverythingLogged'
  <2>1. \A log \in Logs : Logged(log)' = Returned(log)'
    BY <1>3, <1>5, <1>6
  <2> QED BY <2>1 DEF EverythingLogged, Returned
<1> QED BY <1>2, <1>7 DEF LoggedInv, Writing

LEMMA LoggedBegin ==
  ASSUME LoggerInv, LoggedInv, NEW t \in Threads, NEW log \in Logs,
         NEW level \in LogLevels, NEW qty \in Nat, BeginLog(t, log, level, qty)
  PROVE  LoggedInv'
<1> DEFINE line == [log |-> log, level |-> level, qty |-> qty, run |-> runs]
           n    == Len(lines)
<1>1. lines' = Append(lines, line) /\ line.run = runs
  BY DEF BeginLog
<1> HIDE DEF line
<1>2. n \in Nat /\ DOMAIN lines = 1 .. n /\ lines \in Seq(Line) /\ runs \in Nat
  BY LineOfTyped DEF LoggerInv
<1>3. /\ DOMAIN lines' = 1 .. n + 1 /\ lines'[n + 1] = line
      /\ \A id \in 1 .. n : lines'[id] = lines[id]
  BY <1>1, <1>2
<1>4. /\ mutex = NoThread /\ running /\ UNCHANGED <<files, running, runs>>
      /\ call' = [call EXCEPT ![t].id = n + 1]
  BY DEF BeginLog, Lock
<1> HIDE DEF n
<1>5. /\ \A u \in Threads : call[u].id = 0
      /\ \A u \in Threads : call'[u].id = IF u = t THEN n + 1 ELSE 0
  <2>1. \A u \in Threads : ~Writing(u)
    BY <1>4, LoggerConstants DEF LoggerInv
  <2>2. \A u \in Threads : call[u].id = 0
    BY <2>1, NotWriting
  <2> QED BY <1>4, <2>2 DEF LoggerInv
<1>6. ASSUME NEW l \in Logs PROVE Logged(l)' = Logged(l) /\ Returned(l)' = Returned(l)
  <2>1. Returned(l) = {k \in 1 .. n : lines[k].log = l /\ lines[k].run = runs}
    BY <1>2, <1>5 DEF Returned, LineOf
  <2>2. Returned(l)' = {k \in 1 .. n + 1 : /\ lines'[k].log = l /\ lines'[k].run = runs
                                           /\ k # n + 1}
    BY <1>2, <1>3, <1>4, <1>5 DEF Returned, LineOf
  <2>3. Returned(l)' = Returned(l)
    BY <1>2, <1>3, <2>1, <2>2
  <2> QED BY <1>4, <2>3 DEF Logged
<1>7. EverythingLogged'
  BY <1>4, <1>6 DEF LoggedInv, EverythingLogged, Returned
<1>8. \A id \in DOMAIN lines' : lines'[id].run <= runs
  BY <1>1, <1>2, <1>3 DEF LoggedInv
<1>9. \A u \in Threads : Writing(u)' => lines'[call'[u].id].run = runs
  <2> SUFFICES ASSUME NEW u \in Threads, call'[u].id > 0
               PROVE  lines'[call'[u].id].run = runs
    BY DEF Writing
  <2>1. call'[u].id = n + 1
    BY <1>5
  <2> QED BY <1>1, <1>3, <2>1
<1> QED BY <1>4, <1>7, <1>8, <1>9 DEF LoggedInv

LEMMA LoggedStep ==
  ASSUME ~WritesFail, LoggerInv, LoggedInv, [LoggerNext]_loggerVars
  PROVE  LoggedInv'
<1>0. runs \in Nat
  BY DEF LoggerInv
<1>1. ASSUME NEW opened \in SUBSET Logs, OpenLogs(opened) PROVE LoggedInv'
  <2>1. /\ UNCHANGED <<lines, call>> /\ runs' = runs + 1 /\ mutex = NoThread
        /\ running' = (opened = Logs)
        /\ opened = Logs => \A log \in Logs : files'[log] = <<>>
    BY <1>1 DEF OpenLogs, LoggerInv
  <2>2. \A t \in Threads : ~Writing(t) /\ ~Writing(t)'
    BY <2>1, LoggerConstants DEF LoggerInv, Writing
  <2>3. \A id \in DOMAIN lines : lines[id].run \in Nat /\ lines[id].run <= runs
    <3>1. \A id \in DOMAIN lines : lines[id] \in Line
      BY LineOfTyped, ElementOfSeq
    <3> QED BY <3>1 DEF LoggedInv, Line
  <2>4. ASSUME running', NEW log \in Logs PROVE Logged(log)' = Returned(log)'
    <3>1. Logged(log)' = {}
      <4>1. files'[log] = <<>>
        BY <2>1, <2>4
      <4>2. ToSet(files'[log]) = {}
        BY <4>1 DEF ToSet
      <4> QED BY <4>2 DEF Logged
    <3>2. Returned(log)' = {}
      BY <1>0, <2>1, <2>3 DEF Returned
    <3> QED BY <3>1, <3>2
  <2>5. EverythingLogged'
    BY <2>4 DEF EverythingLogged, Returned
  <2> QED BY <1>0, <2>1, <2>2, <2>3, <2>5 DEF LoggedInv
<1>2. ASSUME NEW t \in Threads, NEW log \in Logs, NEW level \in LogLevels, NEW qty \in Nat,
             BeginLog(t, log, level, qty)
      PROVE  LoggedInv'
  BY <1>2, LoggedBegin
<1>3. ASSUME NEW t \in Threads, Writing(t), NEW to \in Cuts(lines[call[t].id].log),
             ShortWrite(t, to)
      PROVE  LoggedInv'
  <2>1. to \in Stamp .. Whole /\ to # Whole
    BY <1>3, Writer, CutPlaces
  <2>2. /\ UNCHANGED <<running, runs, lines>> /\ \A u \in Threads : call'[u].id = call[u].id
    BY <1>3 DEF ShortWrite, LoggerInv, Call
  <2>3. \A log \in Logs : Logged(log)' = Logged(log)
    <3>1. Wrote(t, to)
      BY <1>3 DEF ShortWrite
    <3> QED BY <1>3, <2>1, <3>1, LoggedWrote
  <2>4. \A log \in Logs : Returned(log)' = Returned(log)
    BY <2>2 DEF Returned, LineOf
  <2>5. EverythingLogged'
    BY <2>2, <2>3, <2>4 DEF LoggedInv, EverythingLogged, Returned
  <2> QED BY <2>2, <2>5 DEF LoggedInv, Writing
<1>4. ASSUME NEW t \in Threads, LastWrite(t) PROVE LoggedInv'
  BY <1>4, LoggedEnd
<1>5. ASSUME NEW t \in Threads, FailedWrite(t) PROVE LoggedInv'
  BY <1>5 DEF FailedWrite
<1>6. CASE CloseLogs \/ Crash
  <2>1. UNCHANGED <<lines, runs>> /\ ~running' /\ \A t \in Threads : Writing(t)' => call'[t] = call[t]
    BY <1>6, IdleType DEF CloseLogs, Crash, Writing
  <2> QED BY <2>1 DEF LoggedInv, EverythingLogged, Writing
<1>7. CASE UNCHANGED loggerVars
  BY <1>7 DEF loggerVars, LoggedInv, EverythingLogged, Logged, LineOf, Writing
<1> QED BY <1>1, <1>2, <1>3, <1>4, <1>5, <1>6, <1>7, LoggerConstants DEF LoggerNext, Logs, LogLevels

LEMMA LoggedInvariant ==
  ASSUME ~WritesFail
  PROVE  LoggerSpec => []LoggedInv
<1>1. LoggerInit => LoggedInv
  BY IdleType DEF LoggerInit, LoggedInv, EverythingLogged, Writing
<1>2. LoggerInv /\ LoggedInv /\ [LoggerNext]_loggerVars => LoggedInv'
  BY LoggedStep
<1> QED BY <1>1, <1>2, LoggerInvariant, PTL DEF LoggerSpec

\* As long as write(2) does not fail, a call that has returned has left its
\* whole line in the file, in however many writes.
THEOREM NothingLost == LoggerSpec => []EverythingLogged
<1>1. CASE WritesFail
  <2>1. EverythingLogged
    BY <1>1 DEF EverythingLogged
  <2> QED BY <2>1, PTL
<1>2. CASE ~WritesFail
  <2>1. LoggerSpec => []LoggedInv
    BY <1>2, LoggedInvariant
  <2>2. LoggedInv => EverythingLogged
    BY DEF LoggedInv
  <2> QED BY <2>1, <2>2, PTL
<1> QED BY <1>1, <1>2

-----------------------------------------------------------------------------
\* The GUI's process writes to no log and starts no backend: whatever holds of
\* the logger holds with the monitor reading its files.
THEOREM MonitorOnlyReads == Spec => LoggerSpec
<1>1. Init => LoggerInit
  BY DEF Init
<1>2. [Next]_vars => [LoggerNext]_loggerVars
  BY DEF Next, vars, StartMonitoring, LogChanged, ReadLine, EndParse, Refresh
<1> QED BY <1>1, <1>2, PTL DEF Spec, LoggerSpec

-----------------------------------------------------------------------------
(***************************************************************************)
(* What the monitor makes of a line.                                       *)
(***************************************************************************)
LEMMA LeastOf ==
  ASSUME NEW S \in SUBSET Nat, S # {}
  PROVE  Min(S) \in S /\ \A k \in S : Min(S) <= k
BY LeastNat DEF Min

LEMMA GreatestOf ==
  ASSUME NEW n \in Nat, NEW S \in SUBSET (1 .. n), S # {}
  PROVE  Max(S) \in S /\ \A k \in S : k <= Max(S)
<1> DEFINE T == {n - i : i \in S}
<1>1. T \in SUBSET Nat /\ T # {}
  <2>1. \A i \in S : n - i \in Nat
    <3>1. \A i \in 1 .. n : n - i \in Nat
      OBVIOUS
    <3> QED BY <3>1
  <2> QED BY <2>1
<1>2. PICK m \in T : \A k \in T : m <= k
  <2> HIDE DEF T
  <2> QED BY <1>1, LeastNat
<1>3. PICK i \in S : m = n - i
  BY <1>2
<1>4. ASSUME NEW j \in S PROVE j <= i
  <2>1. m <= n - j
    BY <1>2
  <2> QED BY <1>3, <2>1
<1>5. \E x \in S : \A y \in S : x >= y
  BY <1>4
<1>6. Max(S) \in S /\ \A y \in S : Max(S) >= y
  BY <1>5, Zenon DEF Max
<1> QED BY <1>6

\* A line goes up to the first piece that ends one, or to the end of the file.
LEMMA LineEnds ==
  ASSUME NEW f \in Seq(Piece), pos \in Nat, pos < Len(f)
  PROVE  /\ LineEnd(f) \in pos + 1 .. Len(f)
         /\ \A i \in pos + 1 .. LineEnd(f) - 1 : f[i].to # Whole
         /\ f[LineEnd(f)].to # Whole => LineEnd(f) = Len(f)
<1> DEFINE ends == {i \in pos + 1 .. Len(f) : f[i].to = Whole} \cup {Len(f)}
<1>1. Len(f) \in Nat
  BY LenProperties
<1>2. ends \in SUBSET Nat /\ ends # {}
  BY <1>1
<1>3. LineEnd(f) = Min(ends)
  BY DEF LineEnd
<1> HIDE DEF ends
<1>4. LineEnd(f) \in ends /\ \A j \in ends : LineEnd(f) <= j
  BY <1>2, <1>3, LeastOf
<1> DEFINE e == LineEnd(f)
<1> HIDE DEF e
<1>5. e \in pos + 1 .. Len(f) /\ \A j \in ends : e <= j
  BY <1>1, <1>4 DEF ends, e
<1>6. ASSUME NEW i \in pos + 1 .. e - 1 PROVE f[i].to # Whole
  <2>1. i \in pos + 1 .. Len(f) /\ ~(e <= i)
    BY <1>1, <1>5
  <2> QED BY <1>5, <2>1 DEF ends
<1>7. f[e].to # Whole => e = Len(f)
  BY <1>4 DEF ends, e
<1> QED BY <1>5, <1>6, <1>7 DEF e

\* A trade with this id can be read off the pieces of a file between two places.
Readable(f, a, b, id) ==
  /\ \E i \in a + 1 .. b : f[i].id = id /\ f[i].from <= Stamp
  /\ \E i \in a + 1 .. b : f[i].id = id /\ f[i].to >= Ending

\* A line is read from a stretch of the file.
LEMMA StretchOfFile ==
  ASSUME NEW f, NEW a, NEW b, NEW line, line = {f[i] : i \in a + 1 .. b}, NEW id
  PROVE  Holds(line, id, Stamp, Ending) <=> Readable(f, a, b, id)
BY DEF Holds, Readable

\* The entry made of a line is of a trade that can be read off it, with the
\* quantity that was logged; there is none only if there is no such trade.
LEMMA TradeFound ==
  ASSUME NEW line, lines \in Seq(Line), \A id \in Ids(line) : id \in DOMAIN lines
  PROVE  \/ /\ TradeIn(line) = <<>>
            /\ \A id \in Ids(line) : ~Holds(line, id, Stamp, Ending)
         \/ \E e \in TradeEntry :
              /\ TradeIn(line) = <<e>>
              /\ e.id \in Ids(line) /\ Holds(line, e.id, Stamp, Ending)
              /\ e.qty = lines[e.id].qty
<1> DEFINE found == {id \in Ids(line) : Holds(line, id, Stamp, Ending)}
           last  == Max(found)
           fine  == Ids(line) = {last} /\ Holds(line, last, 0, Newline)
           e     == [id |-> last, qty |-> lines[last].qty, exact |-> fine]
<1>1. TradeIn(line) = IF found = {} THEN <<>> ELSE <<e>>
  BY DEF TradeIn
<1>2. CASE found = {}
  <2>1. TradeIn(line) = <<>>
    BY <1>1, <1>2
  <2> QED BY <1>2, <2>1
<1>3. CASE found # {}
  <2>1. Len(lines) \in Nat /\ DOMAIN lines = 1 .. Len(lines)
    BY LenProperties
  <2>2. last \in found
    <3>1. found \in SUBSET (1 .. Len(lines))
      BY <2>1
    <3> HIDE DEF found
    <3> QED BY <1>3, <2>1, <3>1, GreatestOf
  <2> HIDE DEF last
  <2>3. last \in Ids(line) /\ Holds(line, last, Stamp, Ending)
    BY <2>2
  <2>4. last \in DOMAIN lines /\ last \in Nat
    BY <2>1, <2>3
  <2>5. lines[last].qty \in Nat
    <3>1. \A id \in DOMAIN lines : lines[id] \in Line
      BY ElementOfSeq
    <3> QED BY <2>4, <3>1 DEF Line
  <2>6. fine \in BOOLEAN
    OBVIOUS
  <2>7. TradeIn(line) = <<e>>
    BY <1>1, <1>3
  <2> HIDE DEF fine, found
  <2>8. e \in TradeEntry /\ e.id = last /\ e.qty = lines[last].qty
    BY <2>4, <2>5, <2>6 DEF TradeEntry
  <2> HIDE DEF e
  <2> QED BY <2>3, <2>7, <2>8
<1> QED BY <1>2, <1>3

LEMMA EntryFound ==
  ASSUME NEW line, lines \in Seq(Line), \A id \in Ids(line) : id \in DOMAIN lines
  PROVE  EntryIn(line) \in Seq(SystemEntry)
<1> DEFINE closed == {id \in Ids(line) : Holds(line, id, 0, Middle)}
           first  == Min(closed)
           broken == ~Holds(line, first, 0, Ending)
           known  == LevelStr[lines[first].level]
           exact  == Ids(line) = {first} /\ Holds(line, first, 0, Whole)
           entry  == [id |-> first, level |-> IF broken THEN "garbled" ELSE known,
                      exact |-> exact]
<1>1. EntryIn(line) = IF closed = {} \/ (broken /\ closed = {first}) THEN <<>> ELSE <<entry>>
  BY DEF EntryIn
<1>2. CASE closed # {}
  <2>1. Len(lines) \in Nat /\ DOMAIN lines = 1 .. Len(lines)
    BY LenProperties
  <2>2. first \in closed
    <3>1. closed \in SUBSET Nat
      BY <2>1
    <3> HIDE DEF closed
    <3> QED BY <1>2, <3>1, LeastOf
  <2>3. first \in DOMAIN lines /\ first \in Nat
    BY <2>1, <2>2
  <2> HIDE DEF first
  <2>4. known \in Range(LevelStr)
    <3>1. \A id \in DOMAIN lines : lines[id] \in Line
      BY ElementOfSeq
    <3>2. lines[first].level \in LogLevels
      BY <2>3, <3>1 DEF Line
    <3>3. lines[first].level \in DOMAIN LevelStr
      BY <3>2 DEF LevelStr
    <3> QED BY <3>3 DEF Range
  <2>5. exact \in BOOLEAN
    OBVIOUS
  <2> DEFINE level == IF broken THEN "garbled" ELSE known
  <2>6. level \in Range(LevelStr) \cup {"garbled"}
    BY <2>4
  <2> HIDE DEF known, exact, level, closed, broken
  <2>7. entry \in SystemEntry
    <3>1. entry = [id |-> first, level |-> level, exact |-> exact]
      BY DEF level
    <3> HIDE DEF entry
    <3> QED BY <2>3, <2>5, <2>6, <3>1 DEF SystemEntry
  <2> DEFINE one == <<entry>>
  <2> HIDE DEF entry
  <2>8. one \in Seq(SystemEntry) /\ <<>> \in Seq(SystemEntry)
    BY <2>7, EmptySeq
  <2>9. EntryIn(line) = <<>> \/ EntryIn(line) = one
    BY <1>1
  <2> HIDE DEF one
  <2> QED BY <2>8, <2>9, Zenon
<1>3. CASE closed = {}
  <2>1. EntryIn(line) = <<>>
    BY <1>1, <1>3
  <2> QED BY <2>1
<1> QED BY <1>2, <1>3

-----------------------------------------------------------------------------
(***************************************************************************)
(* The monitor's state.                                                    *)
(***************************************************************************)
\* The parses a slot or the start of the monitoring has before it.
ReadsInv ==
  /\ guiAt = "starting" => toRead \in {<<"trade", "system">>, <<"system">>}
  /\ guiAt = "slot" => toRead \in {<<"trade">>, <<"system">>}
  /\ guiAt \in {"off", "idle"} => toRead = <<>>

\* The line a parse reads next, and that there is one.
NextLine(log) == {files[log][i] : i \in pos + 1 .. LineEnd(files[log])}

LEMMA LineRead ==
  ASSUME LoggerInv, TogetherInv, pos \in Nat, NEW log \in Logs, pos < Len(files[log])
  PROVE  /\ lines \in Seq(Line)
         /\ LineEnd(files[log]) \in pos + 1 .. Len(files[log])
         /\ \A id \in Ids(NextLine(log)) : id \in DOMAIN lines
<1> DEFINE f == files[log]
           e == LineEnd(f)
<1>1. f \in Seq(Piece) /\ lines \in Seq(Line) /\ DOMAIN f = 1 .. Len(f) /\ Len(f) \in Nat
  BY LineOfTyped
<1>2. \A i \in DOMAIN f : f[i].id \in DOMAIN lines
  BY DEF TogetherInv, Together, LineOf
<1>3. NextLine(log) = {f[i] : i \in pos + 1 .. e}
  BY DEF NextLine
<1>4. pos < Len(f)
  OBVIOUS
<1> HIDE DEF f
<1>5. e \in pos + 1 .. Len(f)
  BY <1>1, <1>4, LineEnds
<1> HIDE DEF e
<1>6. \A i \in pos + 1 .. e : i \in DOMAIN f
  BY <1>1, <1>5
<1>7. \A id \in Ids(NextLine(log)) : id \in DOMAIN lines
  BY <1>2, <1>3, <1>6 DEF Ids
<1> QED BY <1>1, <1>5, <1>7 DEF f, e

\* One iteration of parseTradeLogs finds no trade in the line, or one.
LEMMA TradeRead ==
  ASSUME LoggerInv, TogetherInv, pos \in Nat, trades \in Seq(TradeEntry),
         totalTrades \in Nat, totalVolume \in Nat, ReadLine, Head(toRead) = "trade"
  PROVE  LET f == files["trade"] IN
         /\ f \in Seq(Piece) /\ pos' \in pos + 1 .. Len(f) /\ pos' = LineEnd(f)
         /\ \/ /\ UNCHANGED <<trades, totalTrades, totalVolume>>
               /\ \A id : ~Readable(f, pos, pos', id)
            \/ \E e \in TradeEntry :
                 /\ Readable(f, pos, pos', e.id) /\ e.qty = lines[e.id].qty
                 /\ trades' = Append(trades, e)
                 /\ totalTrades' = totalTrades + 1 /\ totalVolume' = totalVolume + e.qty
<1> DEFINE f     == files["trade"]
           line  == NextLine("trade")
           found == TradeIn(line)
           b     == pos'
<1>0. "trade" \in Logs
  BY DEF Logs
<1>1. /\ pos < Len(f) /\ pos' = LineEnd(f)
      /\ trades' = trades \o found /\ totalTrades' = totalTrades + Len(found)
      /\ totalVolume' = totalVolume + (IF found = <<>> THEN 0 ELSE found[1].qty)
  BY DEF ReadLine, NextLine
<1>2. /\ lines \in Seq(Line) /\ b \in pos + 1 .. Len(f)
      /\ \A id \in Ids(line) : id \in DOMAIN lines
  BY <1>0, <1>1, LineRead
<1>3. f \in Seq(Piece) /\ line = {f[i] : i \in pos + 1 .. b}
  BY <1>0, <1>1, LineOfTyped DEF NextLine
<1> HIDE DEF f, line
<1>4. \/ found = <<>> /\ \A id \in Ids(line) : ~Holds(line, id, Stamp, Ending)
      \/ \E e \in TradeEntry :
           /\ found = <<e>> /\ Holds(line, e.id, Stamp, Ending) /\ e.qty = lines[e.id].qty
  BY <1>2, TradeFound
<1> HIDE DEF found, b
<1>5. \A id : /\ Holds(line, id, Stamp, Ending) <=> Readable(f, pos, b, id)
              /\ Holds(line, id, Stamp, Ending) => id \in Ids(line)
  <2> SUFFICES ASSUME NEW id
               PROVE  /\ Holds(line, id, Stamp, Ending) <=> Readable(f, pos, b, id)
                      /\ Holds(line, id, Stamp, Ending) => id \in Ids(line)
    OBVIOUS
  <2>1. Holds(line, id, Stamp, Ending) <=> Readable(f, pos, b, id)
    BY <1>3, StretchOfFile
  <2>2. id \in Ids(line) <=> \E i \in pos + 1 .. b : f[i].id = id
    BY <1>3 DEF Ids
  <2> QED BY <2>1, <2>2 DEF Readable
<1>6. CASE found = <<>> /\ \A id \in Ids(line) : ~Holds(line, id, Stamp, Ending)
  <2>1. trades' = trades /\ totalTrades' = totalTrades /\ totalVolume' = totalVolume
    BY <1>1, <1>6
  <2>2. \A id : ~Readable(f, pos, b, id)
    BY <1>5, <1>6
  <2> QED BY <1>1, <1>2, <1>3, <2>1, <2>2 DEF f, b
<1>7. ASSUME NEW e \in TradeEntry, found = <<e>>, Holds(line, e.id, Stamp, Ending),
             e.qty = lines[e.id].qty
      PROVE  \E x \in TradeEntry :
                 /\ Readable(f, pos, b, x.id) /\ x.qty = lines[x.id].qty
                 /\ trades' = Append(trades, x)
                 /\ totalTrades' = totalTrades + 1 /\ totalVolume' = totalVolume + x.qty
  <2>1. Readable(f, pos, b, e.id)
    BY <1>5, <1>7
  <2>2. Len(found) = 1 /\ found # <<>> /\ found[1] = e
    BY <1>7
  <2>3. totalTrades' = totalTrades + 1 /\ totalVolume' = totalVolume + e.qty
    BY <1>1, <2>2
  <2>4. trades' = Append(trades, e)
    BY <1>1, <1>7
  <2> QED BY <1>7, <2>1, <2>3, <2>4
<1> QED BY <1>1, <1>2, <1>3, <1>4, <1>6, <1>7 DEF f, b

ParsedTypes ==
  /\ trades \in Seq(TradeEntry) /\ totalTrades \in Nat /\ totalVolume \in Nat
  /\ systemLogs \in Seq(SystemEntry)

Window == [rows : Seq(TradeEntry), stats : [trades : Nat, volume : Nat],
           logs : Seq(SystemEntry)]

\* What is next to read, of a list of logs a parse may have before it.
LEMMA ReadLists ==
  /\ <<>> \in Seq(Logs)
  /\ \A log \in Logs : <<log>> \in Seq(Logs) /\ <<log>> # <<>> /\ Head(<<log>>) = log
                       /\ ~(Len(<<log>>) > 1)
  /\ LET both == <<"trade", "system">>
     IN  both \in Seq(Logs) /\ both # <<>> /\ Head(both) = "trade" /\ Len(both) > 1
         /\ Tail(both) = <<"system">>
  /\ Logs = {"trade", "system"}
<1>1. <<>> \in Seq(Logs)
  BY EmptySeq
<1>2. \A log \in Logs : <<log>> \in Seq(Logs) /\ <<log>> # <<>> /\ Head(<<log>>) = log
                        /\ ~(Len(<<log>>) > 1)
  OBVIOUS
<1>3. /\ <<"trade", "system">> \in Seq(Logs) /\ <<"trade", "system">> # <<>>
      /\ Head(<<"trade", "system">>) = "trade" /\ Len(<<"trade", "system">>) > 1
  BY DEF Logs
<1>4. Tail(<<"trade", "system">>) = <<"system">>
  OBVIOUS
<1> QED BY <1>1, <1>2, <1>3, <1>4 DEF Logs

\* While it reads, a parse has a log before it, and another behind that only
\* when the monitoring starts.
LEMMA ReadingList ==
  ASSUME ReadsInv, Reading
  PROVE  /\ toRead # <<>> /\ Head(toRead) \in Logs /\ toRead \in Seq(Logs)
         /\ Len(toRead) > 1 => /\ guiAt = "starting" /\ toRead = <<"trade", "system">>
                               /\ Tail(toRead) = <<"system">>
         /\ guiAt = "slot" => toRead = <<Head(toRead)>>
<1> DEFINE both == <<"trade", "system">>
           one  == <<"trade">>
           rest == <<"system">>
<1>1. /\ both # <<>> /\ Head(both) = "trade" /\ both \in Seq(Logs) /\ Tail(both) = rest
      /\ one # <<>> /\ Head(one) = "trade" /\ one \in Seq(Logs) /\ ~(Len(one) > 1)
      /\ rest # <<>> /\ Head(rest) = "system" /\ rest \in Seq(Logs) /\ ~(Len(rest) > 1)
      /\ Logs = {"trade", "system"}
  BY ReadLists
<1>2. /\ guiAt = "starting" => toRead \in {both, rest}
      /\ guiAt = "slot" => toRead \in {one, rest}
      /\ guiAt \in {"starting", "slot"}
  BY DEF ReadsInv, Reading
<1>3. guiAt = "slot" => toRead = <<Head(toRead)>>
  BY <1>1, <1>2
<1> HIDE DEF both, one, rest
<1>4. toRead \in {both, one, rest} /\ (toRead = both => guiAt = "starting")
  <2>1. both # one /\ both # rest
    BY DEF both, one, rest
  <2> QED BY <1>2, <2>1
<1>5. /\ toRead # <<>> /\ Head(toRead) \in Logs /\ toRead \in Seq(Logs)
      /\ Len(toRead) > 1 => toRead = both
  <2>1. CASE toRead = both
    BY <1>1, <2>1
  <2>2. CASE toRead = one
    BY <1>1, <2>2
  <2>3. CASE toRead = rest
    BY <1>1, <2>3
  <2> QED BY <1>4, <2>1, <2>2, <2>3
<1> QED BY <1>1, <1>3, <1>4, <1>5 DEF both, rest

LEMMA ParseBegun ==
  ASSUME NEW logs, BeginParse(logs), ParsedTypes
  PROVE  ParsedTypes' /\ pos' = 0 /\ toRead' = logs
<1>1. toRead' = logs /\ pos' = 0 /\ Clear(Head(logs))
  BY DEF BeginParse
<1>2. CASE Head(logs) = "trade"
  <2>1. /\ trades' = <<>> /\ totalTrades' = 0 /\ totalVolume' = 0
        /\ systemLogs' = systemLogs
    BY <1>1, <1>2 DEF Clear
  <2>2. trades' \in Seq(TradeEntry)
    BY <2>1, EmptySeq
  <2> QED BY <1>1, <2>1, <2>2 DEF ParsedTypes
<1>3. CASE Head(logs) # "trade"
  <2>1. /\ systemLogs' = <<>>
        /\ trades' = trades /\ totalTrades' = totalTrades /\ totalVolume' = totalVolume
    BY <1>1, <1>3 DEF Clear
  <2>2. systemLogs' \in Seq(SystemEntry)
    BY <2>1, EmptySeq
  <2> QED BY <1>1, <2>1, <2>2 DEF ParsedTypes
<1> QED BY <1>2, <1>3

\* A position behind none is that position.
LEMMA NoneBefore ==
  ASSUME NEW n \in Nat, NEW i \in 1 .. n
  PROVE  0 + i = i
OBVIOUS

\* What is shown of a sequence: its last entries, as many as there is room for.
LEMMA RecentIs ==
  ASSUME NEW S, NEW entries \in Seq(S), NEW count \in Nat
  PROVE  LET first == IF Len(entries) <= count THEN 0 ELSE Len(entries) - count
         IN  /\ first \in Nat /\ Len(entries) \in Nat
             /\ Recent(entries, count) \in Seq(S)
             /\ Len(Recent(entries, count)) = Len(entries) - first
             /\ \A i \in 1 .. Len(entries) - first :
                  /\ Recent(entries, count)[i] = entries[first + i]
                  /\ first + i \in DOMAIN entries
<1> DEFINE n == Len(entries)
           r == Recent(entries, count)
<1>0. n \in Nat
  BY LenProperties
<1>1. n \in Nat /\ DOMAIN entries = 1 .. n /\ \A i \in 1 .. n : entries[i] \in S
  BY LenProperties, ElementOfSeq
<1>2. r = IF n <= count THEN entries ELSE SubSeq(entries, n - count + 1, n)
  BY DEF Recent
<1> HIDE DEF n, r
<1>3. CASE n <= count
  <2>1. r = entries
    BY <1>2, <1>3
  <2>2. /\ r \in Seq(S) /\ Len(r) = n - 0
        /\ \A i \in 1 .. n - 0 : r[i] = entries[0 + i] /\ 0 + i \in DOMAIN entries
    <3>1. r \in Seq(S) /\ Len(r) = n
      BY <2>1 DEF n
    <3>2. n - 0 = n
      BY <1>1
    <3>3. ASSUME NEW i \in 1 .. n PROVE r[i] = entries[0 + i] /\ 0 + i \in DOMAIN entries
      <4>1. 0 + i = i
        BY <1>0, NoneBefore, Zenon
      <4> QED BY <1>1, <2>1, <4>1, Zenon
    <3> QED BY <3>1, <3>2, <3>3, Zenon
  <2> QED BY <1>1, <1>3, <2>2 DEF n, r
<1>4. CASE ~(n <= count)
  <2> DEFINE a == n - count
  <2>1. a \in Nat /\ a + 1 <= n + 1 /\ r = SubSeq(entries, a + 1, n)
    BY <1>1, <1>2, <1>4
  <2> HIDE DEF a
  <2> DEFINE c == a + 1
  <2>2. c \in Int /\ n \in Int /\ \A i \in c .. n : entries[i] \in S
    BY <1>1, <2>1
  <2> HIDE DEF c
  <2>3. /\ SubSeq(entries, c, n) \in Seq(S)
        /\ Len(SubSeq(entries, c, n)) = IF c <= n THEN n - c + 1 ELSE 0
        /\ \A i \in 1 .. n - c + 1 : SubSeq(entries, c, n)[i] = entries[c + i - 1]
    BY <2>2, SubSeqProperties
  <2>4. r \in Seq(S) /\ Len(r) = n - a /\ \A i \in 1 .. n - a : r[i] = entries[a + i]
    BY <1>1, <2>1, <2>3 DEF c
  <2>5. \A i \in 1 .. n - a : a + i \in DOMAIN entries
    BY <1>1, <2>1
  <2> QED BY <1>1, <1>4, <2>1, <2>4, <2>5 DEF a, n, r
<1> QED BY <1>3, <1>4

LEMMA Drawn ==
  ASSUME ParsedTypes, NEW window \in Window
  PROVE  DrawTrades(window) \in Window /\ DrawLogs(window) \in Window
<1>1. TradeTable \in Seq(TradeEntry) /\ LogView \in Seq(SystemEntry)
  <2>1. RecentTrades \in Nat /\ RecentLogs \in Nat
    BY RowsShown
  <2>2. trades \in Seq(TradeEntry) /\ systemLogs \in Seq(SystemEntry)
    BY DEF ParsedTypes
  <2>3. Recent(trades, RecentTrades) \in Seq(TradeEntry)
    BY <2>1, <2>2, RecentIs
  <2>4. Recent(systemLogs, RecentLogs) \in Seq(SystemEntry)
    BY <2>1, <2>2, RecentIs
  <2> QED BY <2>3, <2>4 DEF TradeTable, LogView
<1>2. Statistics \in [trades : Nat, volume : Nat]
  BY DEF Statistics, ParsedTypes
<1> QED BY <1>1, <1>2 DEF Window, DrawTrades, DrawLogs

\* MonitorInv in parts: what is read, what has been parsed and what is shown.
ReadingTypes ==
  /\ guiAt \in {"off", "starting", "idle", "slot"}
  /\ toRead \in Seq(Logs) /\ (Reading <=> toRead # <<>>)
  /\ pos \in Nat
  /\ watched \subseteq Logs /\ changed \subseteq watched

LEMMA MonitorParts ==
  MonitorInv <=> LoggerInv /\ ReadingTypes /\ ParsedTypes /\ shown \in Window
BY DEF MonitorInv, ReadingTypes, ParsedTypes, Window

LEMMA TypesReadLine ==
  ASSUME LoggerInv, TogetherInv, ReadsInv, ReadingTypes, ParsedTypes, ReadLine
  PROVE  ParsedTypes' /\ pos' \in Nat
<1>1. Head(toRead) \in Logs /\ pos \in Nat
  BY ReadingList DEF ReadLine, ReadingTypes
<1>2. CASE Head(toRead) = "trade"
  <2> DEFINE f == files["trade"]
  <2>1. pos' \in pos + 1 .. Len(f) /\ f \in Seq(Piece)
    BY <1>1, <1>2, TradeRead DEF ParsedTypes
  <2>2. pos' \in Nat
    <3> HIDE DEF f
    <3> QED BY <1>1, <2>1, LenProperties
  <2>3. systemLogs' = systemLogs
    BY <1>2 DEF ReadLine
  <2>4. \/ UNCHANGED <<trades, totalTrades, totalVolume>>
        \/ \E e \in TradeEntry : /\ trades' = Append(trades, e)
                                 /\ totalTrades' = totalTrades + 1
                                 /\ totalVolume' = totalVolume + e.qty
    BY <1>1, <1>2, TradeRead DEF ParsedTypes
  <2>5. CASE UNCHANGED <<trades, totalTrades, totalVolume>>
    BY <2>2, <2>3, <2>5 DEF ParsedTypes
  <2>6. ASSUME NEW e \in TradeEntry, trades' = Append(trades, e),
               totalTrades' = totalTrades + 1, totalVolume' = totalVolume + e.qty
        PROVE  ParsedTypes'
    <3>1. e.qty \in Nat
      BY DEF TradeEntry
    <3>2. trades' \in Seq(TradeEntry)
      BY <2>6 DEF ParsedTypes
    <3>3. totalTrades' \in Nat /\ totalVolume' \in Nat
      BY <2>6, <3>1 DEF ParsedTypes
    <3> QED BY <2>3, <3>2, <3>3 DEF ParsedTypes
  <2> QED BY <2>2, <2>4, <2>5, <2>6
<1>3. CASE Head(toRead) # "trade"
  <2> DEFINE log   == Head(toRead)
             f     == files[log]
             found == EntryIn(NextLine(log))
  <2>1. /\ pos < Len(f) /\ pos' = LineEnd(f) /\ systemLogs' = systemLogs \o found
        /\ UNCHANGED <<trades, totalTrades, totalVolume>>
    BY <1>3 DEF ReadLine, NextLine
  <2>2. /\ lines \in Seq(Line) /\ LineEnd(f) \in pos + 1 .. Len(f)
        /\ \A id \in Ids(NextLine(log)) : id \in DOMAIN lines
    BY <1>1, <2>1, LineRead
  <2>3. found \in Seq(SystemEntry)
    BY <2>2, EntryFound
  <2>4. pos' \in Nat
    <3>1. f \in Seq(Piece)
      BY <1>1, LineOfTyped
    <3> HIDE DEF f
    <3> QED BY <1>1, <2>1, <2>2, <3>1, LenProperties
  <2> HIDE DEF found
  <2>5. systemLogs' \in Seq(SystemEntry)
    BY <2>1, <2>3, ConcatProperties DEF ParsedTypes
  <2> QED BY <2>1, <2>4, <2>5 DEF ParsedTypes
<1> QED BY <1>2, <1>3

LEMMA TypesEndParse ==
  ASSUME ReadsInv, ReadingTypes, ParsedTypes, shown \in Window, EndParse
  PROVE  /\ ReadsInv' /\ ReadingTypes' /\ ParsedTypes' /\ shown' \in Window
<1>1. shown' \in Window
  BY Drawn DEF EndParse
<1>2. UNCHANGED <<watched, changed>>
  BY DEF EndParse
<1>3. CASE Len(toRead) > 1
  <2>1. /\ BeginParse(<<"system">>) /\ guiAt' = guiAt /\ guiAt = "starting"
    BY <1>3, ReadingList DEF EndParse
  <2>2. ParsedTypes' /\ pos' = 0 /\ toRead' = <<"system">>
    BY <2>1, ParseBegun
  <2>3. <<"system">> \in Seq(Logs) /\ <<"system">> # <<>>
    BY ReadLists
  <2>4. ReadsInv'
    BY <2>1, <2>2 DEF ReadsInv
  <2>5. ReadingTypes'
    BY <1>2, <2>1, <2>2, <2>3 DEF ReadingTypes, Reading
  <2> QED BY <1>1, <2>2, <2>4, <2>5
<1>4. CASE ~(Len(toRead) > 1)
  <2>1. guiAt' = "idle" /\ toRead' = <<>> /\ pos' = 0 /\ UNCHANGED parsedVars
    BY <1>4 DEF EndParse
  <2>2. ReadsInv'
    BY <2>1 DEF ReadsInv
  <2>3. ReadingTypes'
    BY <1>2, <2>1, ReadLists DEF ReadingTypes, Reading
  <2>4. ParsedTypes'
    BY <2>1 DEF ParsedTypes, parsedVars
  <2> QED BY <1>1, <2>2, <2>3, <2>4
<1> QED BY <1>3, <1>4

LEMMA MonitorStep ==
  ASSUME LoggerInv, LoggerInv', TogetherInv, ReadsInv, MonitorInv, [Next]_vars
  PROVE  ReadsInv' /\ MonitorInv'
<1>1. ReadingTypes /\ ParsedTypes /\ shown \in Window
  BY MonitorParts
<1> SUFFICES ReadsInv' /\ ReadingTypes' /\ ParsedTypes' /\ shown' \in Window
  BY MonitorParts DEF MonitorInv, ReadingTypes, ParsedTypes, Window
<1>2. CASE UNCHANGED <<guiAt, toRead, pos, watched, parsedVars, shown>> /\ (Noticed \/ UNCHANGED changed)
  <2>1. changed' \subseteq watched'
    BY <1>1, <1>2 DEF Noticed, ReadingTypes
  <2> QED BY <1>1, <1>2, <2>1 DEF ReadsInv, ReadingTypes, Reading, ParsedTypes, parsedVars
<1>3. CASE StartMonitoring
  <2>1. /\ BeginParse(<<"trade", "system">>) /\ guiAt' = "starting"
        /\ watched' = exists /\ changed' = {} /\ shown' = shown
    BY <1>3 DEF StartMonitoring
  <2>2. ParsedTypes' /\ pos' = 0 /\ toRead' = <<"trade", "system">>
    BY <1>1, <2>1, ParseBegun
  <2>3. <<"trade", "system">> \in Seq(Logs) /\ <<"trade", "system">> # <<>>
    BY ReadLists
  <2>4. ReadsInv'
    BY <2>1, <2>2 DEF ReadsInv
  <2>5. ReadingTypes'
    BY <2>1, <2>2, <2>3 DEF ReadingTypes, Reading, LoggerInv
  <2> QED BY <1>1, <2>1, <2>2, <2>4, <2>5
<1>4. ASSUME NEW log \in Logs, LogChanged(log)
      PROVE  ReadsInv' /\ ReadingTypes' /\ ParsedTypes' /\ shown' \in Window
  <2>1. /\ BeginParse(<<log>>) /\ guiAt' = "slot"
        /\ watched' = watched /\ changed' = changed \ {log} /\ shown' = shown
    BY <1>4 DEF LogChanged
  <2>2. ParsedTypes' /\ pos' = 0 /\ toRead' = <<log>>
    BY <1>1, <2>1, ParseBegun
  <2>3. <<log>> \in Seq(Logs) /\ <<log>> # <<>>
    BY ReadLists
  <2>4. ReadsInv'
    BY <2>1, <2>2 DEF ReadsInv, Logs
  <2>5. ReadingTypes'
    BY <1>1, <2>1, <2>2, <2>3 DEF ReadingTypes, Reading
  <2> QED BY <1>1, <2>1, <2>2, <2>4, <2>5
<1>5. CASE ReadLine
  <2>1. ParsedTypes' /\ pos' \in Nat
    BY <1>1, <1>5, TypesReadLine
  <2>2. UNCHANGED <<guiAt, toRead, watched, changed, shown>>
    BY <1>5 DEF ReadLine
  <2>3. ReadsInv' /\ ReadingTypes'
    BY <1>1, <2>1, <2>2 DEF ReadsInv, ReadingTypes, Reading
  <2> QED BY <1>1, <2>1, <2>2, <2>3
<1>6. CASE EndParse
  BY <1>1, <1>6, TypesEndParse
<1>7. CASE Refresh
  <2>1. UNCHANGED monitorVars /\ UNCHANGED parsedVars /\ shown' = DrawLogs(DrawTrades(shown))
    BY <1>7 DEF Refresh
  <2>2. shown' \in Window
    BY <1>1, <2>1, Drawn
  <2>3. ReadsInv' /\ ReadingTypes'
    BY <1>1, <2>1 DEF ReadsInv, ReadingTypes, Reading, monitorVars
  <2> QED BY <1>1, <2>1, <2>2, <2>3 DEF ParsedTypes, parsedVars
<1> QED BY <1>2, <1>3, <1>4, <1>5, <1>6, <1>7 DEF Next, vars, monitorVars

LEMMA MonitorInvariants == Spec => [](LoggerInv /\ TogetherInv /\ ReadsInv /\ MonitorInv)
<1>1. Init => ReadsInv /\ MonitorInv
  <2> SUFFICES ASSUME Init PROVE ReadsInv /\ ReadingTypes /\ ParsedTypes /\ shown \in Window
    BY LoggerInvInit, MonitorParts DEF Init
  <2>1. <<>> \in Seq(TradeEntry) /\ <<>> \in Seq(SystemEntry) /\ <<>> \in Seq(Logs)
    BY EmptySeq
  <2>2. ReadsInv /\ ReadingTypes /\ ParsedTypes
    BY <2>1 DEF Init, ReadsInv, ReadingTypes, Reading, ParsedTypes
  <2>3. shown \in Window
    BY <2>1 DEF Init, Window
  <2> QED BY <2>2, <2>3
<1>2. LoggerInv /\ LoggerInv' /\ TogetherInv /\ ReadsInv /\ MonitorInv /\ [Next]_vars
        => ReadsInv' /\ MonitorInv'
  BY MonitorStep
<1> QED BY <1>1, <1>2, MonitorOnlyReads, LoggerInvariant, FilesTogether, PTL DEF Spec

\* Whatever is in the files when it reads them, the monitor has what it says
\* it has, and reads exactly while it has a log to read.
THEOREM MonitorInvariant == Spec => []MonitorInv
BY MonitorInvariants, PTL

-----------------------------------------------------------------------------
(***************************************************************************)
(* What a step of the logger does to what a reader of its files has read.  *)
(***************************************************************************)
\* Nothing is written, and nobody begins to write.
NothingAdded ==
  /\ UNCHANGED <<files, lines, runs>>
  /\ \A u \in Threads : Writing(u)' => Writing(u) /\ call'[u] = call[u]
  /\ ~WritesFail /\ running' => running /\ call' = call

\* A piece of t's line is added to its file; t goes on only if it does not end
\* the line.
Added(t, to) ==
  /\ Writing(t) /\ Wrote(t, to) /\ UNCHANGED <<lines, runs, running>>
  /\ to \in Stamp .. Whole /\ call[t].at <= to
  /\ to # Whole => Writing(t)'
  /\ \A u \in Threads : Writing(u)' =>
       u = t /\ to # Whole /\ call'[u].id = call[u].id /\ call'[u].at = to

LEMMA LoggerSteps ==
  ASSUME LoggerInv, [LoggerNext]_loggerVars
  PROVE  \/ NothingAdded
         \/ \E opened \in SUBSET Logs : OpenLogs(opened)
         \/ \E t \in Threads, log \in Logs, level \in LogLevels, qty \in Nat :
              BeginLog(t, log, level, qty)
         \/ \E t \in Threads, to \in Stamp .. Whole : Added(t, to)
<1>1. ASSUME NEW t \in Threads, Writing(t), EndLog(t) PROVE \A u \in Threads : ~Writing(u)'
  BY <1>1, Writer, NotWriting DEF EndLog, Writing, Idle, LoggerInv
<1>2. ASSUME NEW t \in Threads, Writing(t), NEW to \in Cuts(lines[call[t].id].log),
             ShortWrite(t, to)
      PROVE  to \in Stamp .. Whole /\ Added(t, to)
  <2>1. to \in Stamp .. Whole /\ to # Whole
    <3>1. lines[call[t].id].log \in Logs
      BY <1>2, Writer
    <3> QED BY <3>1, CutPlaces
  <2>2. /\ Wrote(t, to) /\ call[t].at <= to /\ UNCHANGED <<lines, runs, running>>
        /\ call' = [call EXCEPT ![t].at = to]
    BY <1>2 DEF ShortWrite
  <2>3. /\ call'[t].id = call[t].id /\ call'[t].at = to
        /\ \A u \in Threads : u # t => call'[u] = call[u]
    BY <2>2 DEF LoggerInv, Call
  <2>4. Writing(t)' /\ \A u \in Threads : Writing(u)' => u = t
    BY <1>2, <2>3, Writer DEF Writing
  <2> QED BY <1>2, <2>1, <2>2, <2>3, <2>4 DEF Added
<1>3. ASSUME NEW t \in Threads, LastWrite(t)
      PROVE  \E to \in Stamp .. Whole : Added(t, to)
  <2>1. /\ Writing(t) /\ Wrote(t, Whole) /\ UNCHANGED <<lines, runs, running>>
        /\ EndLog(t)
    BY <1>3 DEF LastWrite
  <2>2. call[t].at \in 0 .. Newline
    BY <2>1, Writer
  <2>3. Whole \in Stamp .. Whole /\ call[t].at <= Whole
    BY <2>2 DEF Stamp, Newline, Whole
  <2>4. \A u \in Threads : ~Writing(u)'
    BY <1>1, <2>1
  <2>5. Added(t, Whole)
    BY <2>1, <2>3, <2>4 DEF Added
  <2> QED BY <2>3, <2>5
<1>4. ASSUME NEW t \in Threads, FailedWrite(t) PROVE NothingAdded
  <2>1. \A u \in Threads : ~Writing(u)'
    BY <1>1, <1>4 DEF FailedWrite
  <2> QED BY <1>4, <2>1 DEF FailedWrite, NothingAdded
<1>5. CASE CloseLogs \/ Crash
  <2>1. \A u \in Threads : Writing(u)' => call'[u] = call[u]
    BY <1>5, IdleType DEF CloseLogs, Crash, Writing
  <2> QED BY <1>5, <2>1 DEF CloseLogs, Crash, NothingAdded, Writing
<1>6. CASE UNCHANGED loggerVars
  BY <1>6 DEF loggerVars, NothingAdded, Writing
<1>7. \A qty \in Quantities : qty \in Nat
  BY LoggerConstants
<1>8. "trade" \in Logs /\ "system" \in Logs /\ "TRADE" \in LogLevels /\ 0 \in Nat /\ Levels \subseteq LogLevels
  BY LoggerConstants DEF Logs, LogLevels
<1>9. ASSUME NEW t \in Threads, NEW qty \in Quantities, BeginLog(t, "trade", "TRADE", qty)
      PROVE  \E log \in Logs, level \in LogLevels, q \in Nat : BeginLog(t, log, level, q)
  BY <1>7, <1>8, <1>9
<1>10. ASSUME NEW t \in Threads, NEW level \in Levels, BeginLog(t, "system", level, 0)
       PROVE  \E log \in Logs, l \in LogLevels, q \in Nat : BeginLog(t, log, l, q)
  BY <1>8, <1>10
<1> QED BY <1>2, <1>3, <1>4, <1>5, <1>6, <1>9, <1>10 DEF LoggerNext

\* A line that has been logged stays as it is.
LEMMA LinesGrow ==
  ASSUME LoggerInv, [LoggerNext]_loggerVars
  PROVE  \A id \in DOMAIN lines : id \in DOMAIN lines' /\ lines'[id] = lines[id]
<1>1. ASSUME NEW t \in Threads, NEW log \in Logs, NEW level \in LogLevels, NEW qty \in Nat,
             BeginLog(t, log, level, qty)
      PROVE  \A id \in DOMAIN lines : id \in DOMAIN lines' /\ lines'[id] = lines[id]
  <2> DEFINE line == [log |-> log, level |-> level, qty |-> qty, run |-> runs]
  <2>1. lines' = Append(lines, line)
    BY <1>1 DEF BeginLog
  <2> HIDE DEF line
  <2> QED BY <2>1, LineOfTyped
<1>2. \A opened \in SUBSET Logs : OpenLogs(opened) => lines' = lines
  BY DEF OpenLogs
<1>3. NothingAdded => lines' = lines
  BY DEF NothingAdded
<1>4. ASSUME NEW t \in Threads, NEW to, Added(t, to) PROVE lines' = lines
  BY <1>4 DEF Added
<1>5. lines' = lines => \A id \in DOMAIN lines : id \in DOMAIN lines' /\ lines'[id] = lines[id]
  OBVIOUS
<1> QED BY <1>1, <1>2, <1>3, <1>4, <1>5, LoggerSteps

-----------------------------------------------------------------------------
(***************************************************************************)
(* Every trade is counted once.                                            *)
(***************************************************************************)
VolumeIn(ls, ids) == SumOf([id \in ids |-> ls[id].qty])

LEMMA VolumeIs ==
  ASSUME NEW ids
  PROVE  VolumeOf(ids) = VolumeIn(lines, ids) /\ VolumeOf(ids)' = VolumeIn(lines', ids')
BY DEF VolumeOf, VolumeIn, SumOf, FoldFunction, FoldFunctionOnSet, MapThenFoldSet

LEMMA LoggedQuantities ==
  ASSUME NEW ls \in Seq(Line), NEW ids \in SUBSET DOMAIN ls
  PROVE  /\ IsFiniteSet(ids) /\ [id \in ids |-> ls[id].qty] \in [ids -> Nat]
<1>1. Len(ls) \in Nat /\ DOMAIN ls = 1 .. Len(ls) /\ \A id \in DOMAIN ls : ls[id] \in Line
  BY LenProperties, ElementOfSeq
<1>2. IsFiniteSet(DOMAIN ls)
  BY <1>1, FS_Interval
<1>3. \A id \in ids : ls[id].qty \in Nat
  BY <1>1 DEF Line
<1> QED BY <1>2, <1>3, FS_Subset

LEMMA VolumeWithin ==
  ASSUME NEW ls \in Seq(Line), NEW ids \in SUBSET DOMAIN ls,
         NEW more \in Seq(Line), NEW all \in SUBSET DOMAIN more, ids \subseteq all,
         \A id \in ids : more[id] = ls[id]
  PROVE  /\ VolumeIn(ls, ids) \in Nat /\ VolumeIn(more, all) \in Nat
         /\ VolumeIn(ls, ids) <= VolumeIn(more, all)
         /\ Cardinality(ids) \in Nat /\ Cardinality(all) \in Nat
         /\ Cardinality(ids) <= Cardinality(all)
         /\ VolumeIn(more, ids) = VolumeIn(ls, ids)
<1> DEFINE f == [id \in ids |-> ls[id].qty]
           g == [id \in all |-> more[id].qty]
<1>1. IsFiniteSet(ids) /\ f \in [ids -> Nat] /\ IsFiniteSet(all) /\ g \in [all -> Nat]
  BY LoggedQuantities
<1>2. \A id \in ids : f[id] <= g[id]
  <2>1. \A id \in ids : f[id] = g[id] /\ f[id] \in Nat
    BY <1>1
  <2> HIDE DEF f, g
  <2> QED BY <2>1
<1>3. [id \in ids |-> more[id].qty] = f
  OBVIOUS
<1> HIDE DEF f, g
<1>4. SumOf(f) \in Nat /\ SumOf(g) \in Nat
  BY <1>1, SumWithout
<1>5. SumOf(f) <= SumOf(g)
  BY <1>1, <1>2, SumMonotone
<1>6. /\ Cardinality(ids) \in Nat /\ Cardinality(all) \in Nat
      /\ Cardinality(ids) <= Cardinality(all)
  BY <1>1, FS_Subset, FS_CardinalityType
<1> QED BY <1>3, <1>4, <1>5, <1>6 DEF VolumeIn, f, g

LEMMA VolumeMore ==
  ASSUME NEW ls \in Seq(Line), NEW ids \in SUBSET DOMAIN ls, NEW id \in DOMAIN ls, id \notin ids
  PROVE  /\ VolumeIn(ls, ids \cup {id}) = VolumeIn(ls, ids) + ls[id].qty
         /\ Cardinality(ids \cup {id}) = Cardinality(ids) + 1
<1> DEFINE all == ids \cup {id}
           f == [k \in ids |-> ls[k].qty]
           g == [k \in all |-> ls[k].qty]
<1>1. all \in SUBSET DOMAIN ls
  OBVIOUS
<1>2. /\ IsFiniteSet(ids) /\ f \in [ids -> Nat] /\ IsFiniteSet(all) /\ g \in [all -> Nat]
  BY <1>1, LoggedQuantities
<1>3. /\ id \in all /\ g[id] = ls[id].qty
      /\ [k \in all \ {id} |-> g[k]] = f
  OBVIOUS
<1>4. Cardinality(all) = Cardinality(ids) + 1
  BY <1>2, FS_AddElement
<1> HIDE DEF all, f, g
<1>5. SumOf(f) \in Nat /\ g[id] \in Nat /\ SumOf(g) = g[id] + SumOf(f)
  <2>1. SumOf(f) \in Nat
    BY <1>2, SumWithout
  <2>2. \A k \in all : SumOf(g) = g[k] + SumOf([j \in all \ {k} |-> g[j]])
    BY <1>2, SumWithout
  <2>3. SumOf(g) = g[id] + SumOf([j \in all \ {id} |-> g[j]])
    BY <1>3, <2>2
  <2> QED BY <1>2, <1>3, <2>1, <2>3
<1> QED BY <1>3, <1>4, <1>5 DEF VolumeIn, all, f, g

\* The trades that have been parsed.
TradeIds == {trades[i].id : i \in DOMAIN trades}

\* What has been parsed is what was logged, in order, and is counted.
CountedInv ==
  /\ \A i \in DOMAIN trades :
       /\ LineOf("trade", trades[i].id) /\ trades[i].qty = lines[trades[i].id].qty
       /\ \A j \in 1 .. i - 1 : trades[j].id < trades[i].id
  /\ totalTrades = Len(trades)
  /\ totalTrades = Cardinality(TradeIds) /\ totalVolume = VolumeOf(TradeIds)

ShownInv ==
  /\ shown.stats.trades <= Cardinality(TradesLogged)
  /\ shown.stats.volume <= VolumeOf(TradesLogged)

ParsesTrades == Reading /\ Head(toRead) = "trade"

\* What is parsed is older than what the parse has before it, in the file or
\* still to be written, but for the rest of a line whose trade could be read off
\* what there was of it: no trade can be read off that.
BehindFile ==
  ParsesTrades =>
    \A id \in TradeIds : \A k \in DOMAIN files["trade"] : k > pos =>
      \/ id < files["trade"][k].id
      \/ id = files["trade"][k].id /\ files["trade"][k].from >= Ending

BehindWriters ==
  \A t \in Threads : Writing(t) =>
    \A id \in TradeIds : id < call[t].id \/ (id = call[t].id /\ call[t].at >= Ending)

OnceInv == CountedInv /\ ShownInv /\ BehindFile /\ BehindWriters

LEMMA ParsedIds ==
  ASSUME CountedInv
  PROVE  \A id \in TradeIds : id \in DOMAIN lines /\ id \in TradesLogged
BY DEF CountedInv, TradeIds, LineOf, TradesLogged

\* Lines that are added change nothing about those that have been counted.
LEMMA CountedLogged ==
  ASSUME LoggerInv, LoggerInv', CountedInv, ShownInv, shown \in Window,
         [LoggerNext]_loggerVars, UNCHANGED <<trades, totalTrades, totalVolume, shown>>
  PROVE  CountedInv' /\ ShownInv'
<1> DEFINE ids == TradeIds
           old == TradesLogged
           new == TradesLogged'
<1>1. \A id \in DOMAIN lines : id \in DOMAIN lines' /\ lines'[id] = lines[id]
  BY LinesGrow
<1>2. lines \in Seq(Line) /\ lines' \in Seq(Line)
  BY DEF LoggerInv
<1>3. /\ ids \in SUBSET DOMAIN lines /\ ids \in SUBSET DOMAIN lines'
      /\ old \in SUBSET DOMAIN lines /\ new \in SUBSET DOMAIN lines'
      /\ old \subseteq new
  <2>1. ids \subseteq DOMAIN lines
    BY ParsedIds
  <2>2. old \subseteq DOMAIN lines /\ new \subseteq DOMAIN lines' /\ old \subseteq new
    BY <1>1 DEF TradesLogged, LineOf
  <2> QED BY <1>1, <2>1, <2>2
<1>4. ids' = ids
  BY DEF TradeIds
<1> HIDE DEF ids, old, new
<1>5. VolumeIn(lines', ids) = VolumeIn(lines, ids)
  BY <1>1, <1>2, <1>3, VolumeWithin
<1>6. /\ VolumeIn(lines, old) \in Nat /\ VolumeIn(lines', new) \in Nat
      /\ VolumeIn(lines, old) <= VolumeIn(lines', new)
      /\ Cardinality(old) \in Nat /\ Cardinality(new) \in Nat
      /\ Cardinality(old) <= Cardinality(new)
  BY <1>1, <1>2, <1>3, VolumeWithin
<1>7. CountedInv'
  <2>1. \A i \in DOMAIN trades : LineOf("trade", trades[i].id)' /\ trades[i].qty = lines'[trades[i].id].qty
    BY <1>1 DEF CountedInv, LineOf
  <2>2. totalVolume' = VolumeOf(TradeIds)'
    BY <1>4, <1>5, VolumeIs DEF CountedInv, ids
  <2>3. totalTrades' = Cardinality(TradeIds)'
    BY <1>4 DEF CountedInv, ids
  <2> QED BY <2>1, <2>2, <2>3 DEF CountedInv
<1>8. ShownInv'
  <2> DEFINE v == VolumeOf(TradesLogged)
             w == VolumeOf(TradesLogged)'
  <2>1. v = VolumeIn(lines, old) /\ w = VolumeIn(lines', new)
    BY VolumeIs DEF old, new
  <2>2. shown.stats.trades <= Cardinality(old) /\ shown.stats.volume <= v
    BY DEF ShownInv, old
  <2>3. shown.stats.trades \in Nat /\ shown.stats.volume \in Nat
    BY DEF Window
  <2> HIDE DEF v, w
  <2>4. shown.stats.trades <= Cardinality(new) /\ shown.stats.volume <= w
    BY <1>6, <2>1, <2>2, <2>3
  <2> QED BY <2>4 DEF ShownInv, new, w
<1> QED BY <1>7, <1>8

\* A line begun after the last parse is newer than all that was parsed, and a
\* piece of it that is added later may be the rest of one parsed already.
LEMMA BehindLogged ==
  ASSUME LoggerInv, CountedInv, BehindFile, BehindWriters, [LoggerNext]_loggerVars,
         UNCHANGED <<trades, guiAt, toRead, pos>>
  PROVE  BehindFile' /\ BehindWriters'
<1> DEFINE ids == TradeIds
<1>1. ids' = ids /\ (ParsesTrades' <=> ParsesTrades)
  BY DEF TradeIds, ParsesTrades, Reading
<1>2. /\ \A id \in ids : id \in DOMAIN lines
      /\ Len(lines) \in Nat /\ DOMAIN lines = 1 .. Len(lines)
  BY ParsedIds, LineOfTyped
<1> HIDE DEF ids
<1>3. CASE NothingAdded
  <2>1. BehindFile'
    BY <1>1, <1>3 DEF NothingAdded, BehindFile, ids
  <2>2. BehindWriters'
    BY <1>1, <1>3 DEF NothingAdded, BehindWriters, ids
  <2> QED BY <2>1, <2>2
<1>4. ASSUME NEW opened \in SUBSET Logs, OpenLogs(opened) PROVE BehindFile' /\ BehindWriters'
  <2>1. \A t \in Threads : ~Writing(t)'
    BY <1>4, LoggerConstants DEF OpenLogs, LoggerInv, Writing
  <2>2. files'["trade"] = files["trade"] \/ files'["trade"] = <<>>
    BY <1>4 DEF OpenLogs, Logs
  <2>3. BehindFile'
    <3>1. CASE files'["trade"] = files["trade"]
      BY <1>1, <3>1 DEF BehindFile, ids
    <3>2. CASE files'["trade"] = <<>>
      <4>1. DOMAIN files'["trade"] = {}
        BY <3>2
      <4> QED BY <4>1 DEF BehindFile
    <3> QED BY <2>2, <3>1, <3>2
  <2> QED BY <2>1, <2>3 DEF BehindWriters
<1>5. ASSUME NEW t \in Threads, NEW log \in Logs, NEW level \in LogLevels, NEW qty \in Nat,
             BeginLog(t, log, level, qty)
      PROVE  BehindFile' /\ BehindWriters'
  <2>1. /\ mutex = NoThread /\ files' = files
        /\ call' = [call EXCEPT ![t].id = Len(lines) + 1]
    BY <1>5 DEF BeginLog, Lock
  <2>2. BehindFile'
    BY <1>1, <2>1 DEF BehindFile, ids
  <2>3. \A u \in Threads : Writing(u)' => call'[u].id = Len(lines) + 1
    <3>1. \A u \in Threads : ~Writing(u)
      BY <2>1, LoggerConstants DEF LoggerInv
    <3> QED BY <2>1, <3>1 DEF LoggerInv, Writing
  <2>4. \A id \in ids : id < Len(lines) + 1
    BY <1>2
  <2>5. BehindWriters'
    BY <1>1, <2>3, <2>4 DEF BehindWriters, ids
  <2> QED BY <2>2, <2>5
<1>6. ASSUME NEW t \in Threads, NEW to \in Stamp .. Whole, Added(t, to)
      PROVE  BehindFile' /\ BehindWriters'
  <2> DEFINE log   == lines[call[t].id].log
             piece == [id |-> call[t].id, from |-> call[t].at, to |-> to]
             f     == files["trade"]
             g     == files'["trade"]
  <2>1. /\ files' = [files EXCEPT ![log] = Append(@, piece)] /\ log \in Logs
        /\ piece.id = call[t].id /\ piece.from = call[t].at /\ piece \in Piece
        /\ Writing(t) /\ call[t].at <= to /\ call[t].at \in Nat /\ to \in Nat
    <3>1. /\ Writing(t) /\ Wrote(t, to) /\ call[t].at <= to
      BY <1>6 DEF Added
    <3>2. call[t].at \in 0 .. Newline /\ call[t].id \in Nat /\ log \in Logs
      BY <3>1, Writer
    <3>3. call[t].at \in Nat /\ to \in Nat
      BY <3>2 DEF Newline, Stamp, Whole
    <3> QED BY <3>1, <3>2, <3>3 DEF Wrote, Piece
  <2> HIDE DEF log, piece
  <2>2. g = f \/ g = Append(f, piece)
    BY <2>1, LineOfTyped DEF Logs
  <2>3. /\ f \in Seq(Piece) /\ Len(f) \in Nat /\ DOMAIN f = 1 .. Len(f)
    BY LineOfTyped DEF Logs
  <2>4. ASSUME NEW id \in ids
        PROVE  id < call[t].id \/ (id = call[t].id /\ call[t].at >= Ending)
    BY <2>1, <2>4 DEF BehindWriters, ids
  <2> HIDE DEF f, g
  <2>5. ASSUME ParsesTrades, NEW id \in ids, NEW k \in DOMAIN g, k > pos
        PROVE  id < g[k].id \/ (id = g[k].id /\ g[k].from >= Ending)
    <3>1. CASE k \in DOMAIN f
      <4>1. g[k] = f[k]
        BY <2>2, <2>3, <3>1
      <4>2. id < f[k].id \/ (id = f[k].id /\ f[k].from >= Ending)
        BY <2>5, <3>1 DEF BehindFile, ids, f
      <4> QED BY <4>1, <4>2
    <3>2. CASE k \notin DOMAIN f
      <4>1. g[k] = piece
        BY <2>1, <2>2, <2>3, <2>5, <3>2
      <4> QED BY <2>1, <2>4, <4>1
    <3> QED BY <3>1, <3>2
  <2>6. BehindFile'
    BY <1>1, <2>5 DEF BehindFile, ids, g
  <2>7. ASSUME NEW u \in Threads, Writing(u)', NEW id \in ids
        PROVE  id < call'[u].id \/ (id = call'[u].id /\ call'[u].at >= Ending)
    <3>1. u = t /\ call'[u].id = call[t].id /\ call'[u].at = to
      BY <1>6, <2>7 DEF Added
    <3>2. call[t].at >= Ending => to >= Ending
      BY <2>1 DEF Ending
    <3> QED BY <2>4, <3>1, <3>2
  <2>8. BehindWriters'
    BY <1>1, <2>7 DEF BehindWriters, ids
  <2> QED BY <2>6, <2>8
<1> QED BY <1>3, <1>4, <1>5, <1>6, LoggerSteps

\* The trade that has just been read is newer than those read before, and older
\* than what is left to read or to write, if that is not the rest of its line.
LEMMA ReadBetween ==
  ASSUME LoggerInv, TogetherInv, pos \in Nat, BehindFile, ParsesTrades,
         NEW b \in pos + 1 .. Len(files["trade"]), NEW new,
         Readable(files["trade"], pos, b, new)
  PROVE  /\ LineOf("trade", new)
         /\ \A id \in TradeIds : id < new
         /\ \A i \in DOMAIN files["trade"] : i > b =>
              \/ new < files["trade"][i].id
              \/ new = files["trade"][i].id /\ files["trade"][i].from >= Ending
         /\ \A u \in Threads : Writing(u) =>
              new < call[u].id \/ (new = call[u].id /\ call[u].at >= Ending)
<1> DEFINE f == files["trade"]
<1>1. /\ f \in Seq(Piece) /\ Len(f) \in Nat /\ DOMAIN f = 1 .. Len(f) /\ "trade" \in Logs
      /\ b \in pos + 1 .. Len(f) /\ Readable(f, pos, b, new)
  BY LineOfTyped DEF Logs
<1>2. Together("trade", f)
  BY <1>1 DEF TogetherInv
<1>3. \A id \in TradeIds : \A k \in DOMAIN f : k > pos =>
        id < f[k].id \/ (id = f[k].id /\ f[k].from >= Ending)
  BY DEF BehindFile
<1> HIDE DEF f
<1>4. PICK k \in pos + 1 .. b : f[k].id = new /\ f[k].from <= Stamp
  BY <1>1 DEF Readable
<1>5. PICK m \in pos + 1 .. b : f[m].id = new /\ f[m].to >= Ending
  BY <1>1 DEF Readable
<1>6. k \in DOMAIN f /\ k > pos /\ m \in DOMAIN f /\ m <= b /\ m \in Nat /\ b \in Nat
  BY <1>1
<1>7. f[k] \in Piece /\ f[m] \in Piece
  BY <1>1, <1>6, ElementOfSeq
<1>8. LineOf("trade", new)
  BY <1>2, <1>4, <1>6 DEF Together
<1>9. \A id \in TradeIds : id < new
  <2>1. ~(f[k].from >= Ending)
    BY <1>4, <1>7, PieceTyped DEF Stamp, Ending
  <2> QED BY <1>3, <1>4, <1>6, <2>1
<1>10. ASSUME NEW i \in DOMAIN f, i > m
       PROVE  new < f[i].id \/ (new = f[i].id /\ f[m].to <= f[i].from /\ f[i].from >= Ending)
  <2>1. m \in 1 .. i - 1
    BY <1>1, <1>6, <1>10
  <2>2. f[m].id < f[i].id \/ (f[m].id = f[i].id /\ f[m].to <= f[i].from)
    BY <1>2, <2>1 DEF Together
  <2>3. f[i] \in Piece
    BY <1>1, ElementOfSeq
  <2>4. f[i].from \in Nat /\ f[m].to \in Nat
    BY <1>7, <2>3, PieceTyped
  <2> QED BY <1>5, <2>2, <2>4 DEF Ending
<1>11. ASSUME NEW u \in Threads, Writing(u)
       PROVE  new < call[u].id \/ (new = call[u].id /\ call[u].at >= Ending)
  <2> DEFINE last == Len(lines)
  <2>1. call[u].id = last /\ last \in Nat /\ DOMAIN lines = 1 .. last
    <3>1. call[u].id = Len(lines)
      BY <1>11, Writer
    <3> QED BY <3>1, LineOfTyped
  <2> HIDE DEF last
  <2>2. Begun(u)
    BY <1>11 DEF TogetherInv
  <2>3. CASE lines[call[u].id].log # "trade"
    <3>1. new \in 1 .. last /\ new # last
      BY <1>8, <2>1, <2>3 DEF LineOf
    <3>2. new < last
      BY <2>1, <3>1
    <3> QED BY <2>1, <3>2
  <2>4. CASE lines[call[u].id].log = "trade" /\ call[u].at = 0
    <3>1. \A i \in DOMAIN f : f[i].id < call[u].id
      BY <2>2, <2>4 DEF Begun, f
    <3> QED BY <1>4, <1>6, <3>1
  <2>5. CASE lines[call[u].id].log = "trade" /\ call[u].at # 0
    <3> DEFINE n == Len(f)
    <3>1. f # <<>> /\ f[n].id = call[u].id /\ f[n].to = call[u].at
      BY <2>2, <2>5 DEF Begun, f
    <3>2. n \in DOMAIN f /\ m <= n /\ n \in Nat
      BY <1>1, <1>6
    <3> HIDE DEF n
    <3>3. CASE m = n
      BY <1>5, <3>1, <3>3
    <3>4. CASE m # n
      <4>1. n > m
        BY <1>6, <3>2, <3>4
      <4>2. new < f[n].id \/ (new = f[n].id /\ f[n].from >= Ending)
        BY <1>10, <3>2, <4>1
      <4>3. f[n].from <= f[n].to
        BY <1>2, <3>2 DEF Together
      <4>4. f[n].from \in Nat /\ f[n].to \in Nat
        BY <1>1, <3>2, ElementOfSeq, PieceTyped
      <4> QED BY <3>1, <4>2, <4>3, <4>4 DEF Ending
    <3> QED BY <3>3, <3>4
  <2> QED BY <2>3, <2>4, <2>5
<1>12. \A i \in DOMAIN f : i > b => new < f[i].id \/ (new = f[i].id /\ f[i].from >= Ending)
  <2>1. \A i \in DOMAIN f : i > b => i > m
    BY <1>1, <1>6
  <2> QED BY <1>10, <2>1
<1> QED BY <1>8, <1>9, <1>11, <1>12 DEF f

LEMMA IdsAppended ==
  ASSUME trades \in Seq(TradeEntry), NEW e \in TradeEntry, trades' = Append(trades, e)
  PROVE  /\ TradeIds' = TradeIds \cup {e.id}
         /\ Len(trades') = Len(trades) + 1 /\ Len(trades) \in Nat
         /\ DOMAIN trades = 1 .. Len(trades) /\ DOMAIN trades' = 1 .. Len(trades) + 1
         /\ trades'[Len(trades) + 1] = e /\ \A i \in DOMAIN trades : trades'[i] = trades[i]
<1> DEFINE n == Len(trades)
<1>1. n \in Nat /\ DOMAIN trades = 1 .. n
  BY LenProperties
<1>2. /\ Len(trades') = n + 1 /\ DOMAIN trades' = 1 .. n + 1 /\ trades'[n + 1] = e
      /\ \A i \in 1 .. n : trades'[i] = trades[i]
  BY LenProperties
<1> HIDE DEF n
<1>3. \A i \in DOMAIN trades' : (i \in DOMAIN trades /\ trades'[i] = trades[i]) \/ trades'[i] = e
  BY <1>1, <1>2
<1>4. /\ \A i \in DOMAIN trades : i \in DOMAIN trades' /\ trades'[i] = trades[i]
      /\ n + 1 \in DOMAIN trades'
  BY <1>1, <1>2
<1>5. TradeIds' = TradeIds \cup {e.id}
  BY <1>2, <1>3, <1>4 DEF TradeIds
<1> QED BY <1>1, <1>2, <1>5 DEF n

\* An iteration of parseTradeLogs counts a trade that was not counted yet.
LEMMA CountedRead ==
  ASSUME LoggerInv, CountedInv, trades \in Seq(TradeEntry), UNCHANGED lines,
         NEW e \in TradeEntry, trades' = Append(trades, e), LineOf("trade", e.id),
         e.qty = lines[e.id].qty, \A id \in TradeIds : id < e.id,
         totalTrades' = totalTrades + 1, totalVolume' = totalVolume + e.qty
  PROVE  CountedInv'
<1> DEFINE n == Len(trades)
<1>1. /\ TradeIds' = TradeIds \cup {e.id} /\ Len(trades') = n + 1 /\ n \in Nat
      /\ DOMAIN trades = 1 .. n /\ DOMAIN trades' = 1 .. n + 1
      /\ trades'[n + 1] = e /\ \A i \in DOMAIN trades : trades'[i] = trades[i]
  BY IdsAppended
<1>2. /\ TradeIds \in SUBSET DOMAIN lines /\ e.id \in DOMAIN lines /\ e.id \notin TradeIds
      /\ lines \in Seq(Line)
  <2>1. e.id \in Nat
    BY DEF TradeEntry
  <2> QED BY <2>1, ParsedIds DEF LineOf, LoggerInv
<1>3. totalTrades = n /\ totalTrades = Cardinality(TradeIds) /\ totalVolume = VolumeOf(TradeIds)
  BY DEF CountedInv
<1> HIDE DEF n
<1>4. /\ VolumeIn(lines, TradeIds \cup {e.id}) = VolumeIn(lines, TradeIds) + lines[e.id].qty
      /\ Cardinality(TradeIds \cup {e.id}) = Cardinality(TradeIds) + 1
  BY <1>2, VolumeMore
<1>5. VolumeOf(TradeIds)' = totalVolume'
  <2>1. VolumeOf(TradeIds)' = VolumeIn(lines', TradeIds')
    BY VolumeIs
  <2>2. VolumeIn(lines', TradeIds') = VolumeIn(lines, TradeIds \cup {e.id})
    BY <1>1
  <2>3. totalVolume = VolumeIn(lines, TradeIds)
    BY <1>3, VolumeIs
  <2> QED BY <1>4, <2>1, <2>2, <2>3
<1>6. totalTrades' = Len(trades') /\ totalTrades' = Cardinality(TradeIds')
  BY <1>1, <1>3, <1>4
<1>7. ASSUME NEW i \in DOMAIN trades'
      PROVE  /\ LineOf("trade", trades'[i].id) /\ trades'[i].qty = lines[trades'[i].id].qty
             /\ \A j \in 1 .. i - 1 : trades'[j].id < trades'[i].id
  <2>1. CASE i \in DOMAIN trades
    <3>1. trades'[i] = trades[i] /\ \A j \in 1 .. i - 1 : trades'[j] = trades[j]
      BY <1>1, <2>1
    <3> QED BY <2>1, <3>1 DEF CountedInv
  <2>2. CASE i = n + 1
    <3>1. trades'[i] = e
      BY <1>1, <2>2
    <3>2. \A j \in 1 .. i - 1 : j \in DOMAIN trades /\ trades'[j] = trades[j]
      BY <1>1, <2>2
    <3>3. \A j \in 1 .. i - 1 : trades'[j].id \in TradeIds
      BY <3>2 DEF TradeIds
    <3> QED BY <3>1, <3>3
  <2> QED BY <1>1, <1>7, <2>1, <2>2
<1>8. (\A i \in DOMAIN trades :
         /\ LineOf("trade", trades[i].id) /\ trades[i].qty = lines[trades[i].id].qty
         /\ \A j \in 1 .. i - 1 : trades[j].id < trades[i].id)'
  <2> DEFINE ts == trades'
  <2>1. \A i \in DOMAIN ts :
          /\ ts[i].id \in DOMAIN lines /\ lines[ts[i].id].log = "trade"
          /\ ts[i].qty = lines[ts[i].id].qty /\ \A j \in 1 .. i - 1 : ts[j].id < ts[i].id
    BY <1>7 DEF LineOf
  <2> HIDE DEF ts
  <2>2. lines' = lines
    OBVIOUS
  <2> QED BY <2>1, <2>2, Zenon DEF LineOf, ts
<1> QED BY <1>5, <1>6, <1>8, Zenon DEF CountedInv

LEMMA OnceRead ==
  ASSUME LoggerInv, TogetherInv, ReadsInv, ReadingTypes, ParsedTypes,
         CountedInv, BehindFile, BehindWriters, ReadLine, Head(toRead) = "trade"
  PROVE  CountedInv' /\ BehindFile' /\ BehindWriters'
<1> DEFINE f == files["trade"]
<1>1. /\ ParsesTrades /\ ParsesTrades' /\ pos \in Nat
      /\ UNCHANGED <<files, lines, call>>
  BY DEF ReadLine, ParsesTrades, Reading, ReadingTypes, loggerVars
<1>2. /\ f \in Seq(Piece) /\ pos' \in pos + 1 .. Len(f)
      /\ \/ UNCHANGED <<trades, totalTrades, totalVolume>>
         \/ \E e \in TradeEntry :
              /\ Readable(f, pos, pos', e.id) /\ e.qty = lines[e.id].qty
              /\ trades' = Append(trades, e)
              /\ totalTrades' = totalTrades + 1 /\ totalVolume' = totalVolume + e.qty
  BY <1>1, TradeRead DEF ParsedTypes
<1>3. Len(f) \in Nat /\ DOMAIN f = 1 .. Len(f) /\ pos' \in Nat
  BY <1>1, <1>2, LenProperties
<1>4. \A i \in DOMAIN f : i > pos' => i > pos
  BY <1>1, <1>2, <1>3
<1>5. CASE UNCHANGED <<trades, totalTrades, totalVolume>>
  <2>1. CountedInv'
    <3>1. TradeIds' = TradeIds /\ VolumeOf(TradeIds)' = VolumeOf(TradeIds)
      BY <1>1, <1>5, VolumeIs DEF TradeIds
    <3> QED BY <1>1, <1>5, <3>1 DEF CountedInv, LineOf
  <2>2. BehindFile'
    <3> HIDE DEF f
    <3> QED BY <1>1, <1>4, <1>5 DEF BehindFile, TradeIds, f
  <2>3. BehindWriters'
    BY <1>1, <1>5 DEF BehindWriters, TradeIds, Writing
  <2> QED BY <2>1, <2>2, <2>3
<1>6. ASSUME NEW e \in TradeEntry, Readable(f, pos, pos', e.id), e.qty = lines[e.id].qty,
             trades' = Append(trades, e),
             totalTrades' = totalTrades + 1, totalVolume' = totalVolume + e.qty
      PROVE  CountedInv' /\ BehindFile' /\ BehindWriters'
  <2>1. /\ LineOf("trade", e.id) /\ \A id \in TradeIds : id < e.id
        /\ \A i \in DOMAIN f : i > pos' =>
             e.id < f[i].id \/ (e.id = f[i].id /\ f[i].from >= Ending)
        /\ \A u \in Threads : Writing(u) =>
             e.id < call[u].id \/ (e.id = call[u].id /\ call[u].at >= Ending)
    BY <1>1, <1>2, <1>6, ReadBetween
  <2> HIDE DEF f
  <2>2. CountedInv'
    BY <1>1, <1>6, <2>1, CountedRead DEF ParsedTypes
  <2>3. TradeIds' = TradeIds \cup {e.id}
    BY <1>6, IdsAppended DEF ParsedTypes
  <2>4. ASSUME NEW id \in TradeIds', NEW i \in DOMAIN f, i > pos'
        PROVE  id < f[i].id \/ (id = f[i].id /\ f[i].from >= Ending)
    <3>1. CASE id = e.id
      BY <2>1, <2>4, <3>1
    <3>2. CASE id \in TradeIds
      BY <1>1, <1>4, <2>4, <3>2 DEF BehindFile, f
    <3> QED BY <2>3, <3>1, <3>2
  <2>5. BehindFile'
    BY <1>1, <2>4 DEF BehindFile, f
  <2>6. BehindWriters'
    <3>1. ASSUME NEW u \in Threads, Writing(u), NEW id \in TradeIds'
          PROVE  id < call[u].id \/ (id = call[u].id /\ call[u].at >= Ending)
      BY <2>1, <2>3, <3>1 DEF BehindWriters
    <3> QED BY <1>1, <3>1 DEF BehindWriters, Writing
  <2> QED BY <2>2, <2>5, <2>6
<1> QED BY <1>2, <1>5, <1>6

LEMMA OnceSame ==
  ASSUME CountedInv, UNCHANGED <<lines, trades, totalTrades, totalVolume>>
  PROVE  CountedInv' /\ TradeIds' = TradeIds
<1>1. TradeIds' = TradeIds /\ VolumeOf(TradeIds)' = VolumeOf(TradeIds)
  BY VolumeIs DEF TradeIds
<1> QED BY <1>1 DEF CountedInv, LineOf

LEMMA OnceBegun ==
  ASSUME CountedInv, BehindWriters, NEW logs, BeginParse(logs), UNCHANGED loggerVars
  PROVE  CountedInv' /\ BehindFile' /\ BehindWriters'
<1>1. toRead' = logs /\ Clear(Head(logs)) /\ UNCHANGED <<files, lines, call>>
  BY DEF BeginParse, loggerVars
<1>2. CASE Head(logs) = "trade"
  <2>1. trades' = <<>> /\ totalTrades' = 0 /\ totalVolume' = 0
    BY <1>1, <1>2 DEF Clear
  <2>2. DOMAIN trades' = {} /\ Len(trades') = 0
    BY <2>1
  <2>3. TradeIds' = {}
    BY <2>2 DEF TradeIds
  <2>4. Cardinality(TradeIds') = 0
    BY <2>3, FS_EmptySet
  <2>5. VolumeOf(TradeIds)' = 0
    <3> DEFINE none == [id \in {} |-> lines'[id].qty]
    <3>1. DOMAIN none = {}
      OBVIOUS
    <3> HIDE DEF none
    <3>2. SumOf(none) = 0
      BY <3>1, SumOfNothing
    <3>3. VolumeOf(TradeIds)' = VolumeIn(lines', {})
      BY <2>3, VolumeIs
    <3> QED BY <3>2, <3>3 DEF VolumeIn, none
  <2>6. CountedInv'
    BY <2>1, <2>2, <2>4, <2>5 DEF CountedInv
  <2> QED BY <2>3, <2>6 DEF BehindFile, BehindWriters
<1>3. CASE Head(logs) # "trade"
  <2>1. UNCHANGED <<trades, totalTrades, totalVolume>> /\ ~ParsesTrades'
    BY <1>1, <1>3 DEF Clear, ParsesTrades
  <2>2. CountedInv' /\ TradeIds' = TradeIds
    BY <1>1, <2>1, OnceSame
  <2> QED BY <1>1, <2>1, <2>2 DEF BehindFile, BehindWriters, Writing
<1> QED BY <1>2, <1>3

\* What is counted are trades that have been logged.
LEMMA CountedWithin ==
  ASSUME LoggerInv, CountedInv
  PROVE  totalTrades <= Cardinality(TradesLogged) /\ totalVolume <= VolumeOf(TradesLogged)
<1>1. /\ TradeIds \in SUBSET DOMAIN lines /\ TradesLogged \in SUBSET DOMAIN lines
      /\ TradeIds \subseteq TradesLogged /\ lines \in Seq(Line)
  BY ParsedIds DEF TradesLogged, LoggerInv
<1>2. /\ VolumeIn(lines, TradeIds) <= VolumeIn(lines, TradesLogged)
      /\ Cardinality(TradeIds) <= Cardinality(TradesLogged)
  BY <1>1, VolumeWithin
<1>3. totalTrades = Cardinality(TradeIds) /\ totalVolume = VolumeIn(lines, TradeIds)
  BY VolumeIs DEF CountedInv
<1>4. VolumeOf(TradesLogged) = VolumeIn(lines, TradesLogged)
  BY VolumeIs
<1> QED BY <1>2, <1>3, <1>4

LEMMA ShownDrawn ==
  ASSUME LoggerInv, CountedInv, ShownInv, shown \in Window, UNCHANGED lines,
         \/ shown' = shown
         \/ shown' = DrawTrades(shown)
         \/ shown' = DrawLogs(shown)
         \/ shown' = DrawLogs(DrawTrades(shown))
  PROVE  ShownInv'
<1>1. shown'.stats = shown.stats \/ shown'.stats = Statistics
  BY DEF Window, DrawTrades, DrawLogs
<1>2. TradesLogged' = TradesLogged /\ VolumeOf(TradesLogged)' = VolumeOf(TradesLogged)
  <2>1. TradesLogged' = TradesLogged
    BY DEF TradesLogged, LineOf
  <2> QED BY <2>1, VolumeIs
<1>3. CASE shown'.stats = shown.stats
  BY <1>2, <1>3 DEF ShownInv
<1>4. CASE shown'.stats = Statistics
  <2>1. shown'.stats.trades = totalTrades /\ shown'.stats.volume = totalVolume
    BY <1>4 DEF Statistics
  <2> QED BY <1>2, <2>1, CountedWithin DEF ShownInv
<1> QED BY <1>1, <1>3, <1>4

LEMMA OnceStep ==
  ASSUME LoggerInv, LoggerInv', TogetherInv, ReadsInv, MonitorInv, OnceInv, [Next]_vars
  PROVE  OnceInv'
<1> USE DEF OnceInv
<1>1. ReadingTypes /\ ParsedTypes /\ shown \in Window
  BY MonitorParts
<1>2. CASE [LoggerNext]_loggerVars /\ UNCHANGED <<guiAt, toRead, pos, parsedVars, shown>>
  BY <1>1, <1>2, CountedLogged, BehindLogged DEF parsedVars
<1>3. ASSUME NEW logs, BeginParse(logs), UNCHANGED loggerVars, ShownInv' PROVE OnceInv'
  BY <1>3, OnceBegun
<1>4. CASE StartMonitoring
  <2>1. BeginParse(<<"trade", "system">>) /\ UNCHANGED loggerVars /\ shown' = shown
    BY <1>4 DEF StartMonitoring
  <2>2. ShownInv'
    BY <1>1, <2>1, ShownDrawn DEF loggerVars
  <2> QED BY <1>3, <2>1, <2>2
<1>5. ASSUME NEW log \in Logs, LogChanged(log) PROVE OnceInv'
  <2>1. BeginParse(<<log>>) /\ UNCHANGED loggerVars /\ shown' = shown
    BY <1>5 DEF LogChanged
  <2>2. ShownInv'
    BY <1>1, <2>1, ShownDrawn DEF loggerVars
  <2> QED BY <1>3, <2>1, <2>2
<1>6. ASSUME UNCHANGED loggerVars, UNCHANGED <<trades, totalTrades, totalVolume>>,
             ~ParsesTrades', ShownInv'
      PROVE  OnceInv'
  <2>1. UNCHANGED <<lines, call>>
    BY <1>6 DEF loggerVars
  <2>2. CountedInv' /\ TradeIds' = TradeIds
    BY <1>6, <2>1, OnceSame
  <2>3. BehindFile' /\ BehindWriters'
    BY <1>6, <2>1, <2>2 DEF BehindFile, BehindWriters, Writing
  <2> QED BY <1>6, <2>2, <2>3
<1>7. CASE ReadLine
  <2>1. UNCHANGED loggerVars /\ shown' = shown /\ toRead' = toRead
    BY <1>7 DEF ReadLine
  <2>2. ShownInv'
    BY <1>1, <2>1, ShownDrawn DEF loggerVars
  <2>3. CASE Head(toRead) = "trade"
    BY <1>1, <1>7, <2>2, <2>3, OnceRead
  <2>4. CASE Head(toRead) # "trade"
    <3>1. UNCHANGED <<trades, totalTrades, totalVolume>>
      BY <1>7, <2>4 DEF ReadLine
    <3>2. ~ParsesTrades'
      BY <2>1, <2>4 DEF ParsesTrades
    <3> QED BY <1>6, <2>1, <2>2, <3>1, <3>2
  <2> QED BY <2>3, <2>4
<1>8. CASE EndParse
  <2>1. /\ UNCHANGED loggerVars
        /\ shown' = shown \/ shown' = DrawTrades(shown) \/ shown' = DrawLogs(shown)
    BY <1>8 DEF EndParse
  <2>2. ShownInv'
    BY <1>1, <2>1, ShownDrawn DEF loggerVars
  <2>3. CASE Len(toRead) > 1
    BY <1>3, <1>8, <2>1, <2>2, <2>3 DEF EndParse
  <2>4. CASE ~(Len(toRead) > 1)
    <3>1. guiAt' = "idle" /\ UNCHANGED parsedVars
      BY <1>8, <2>4 DEF EndParse
    <3>2. ~ParsesTrades'
      BY <3>1 DEF ParsesTrades, Reading
    <3> QED BY <1>6, <2>1, <2>2, <3>1, <3>2 DEF parsedVars
  <2> QED BY <2>3, <2>4
<1>9. CASE Refresh
  <2>1. /\ UNCHANGED loggerVars /\ guiAt = "idle" /\ UNCHANGED guiAt
        /\ shown' = DrawLogs(DrawTrades(shown)) /\ UNCHANGED <<trades, totalTrades, totalVolume>>
    BY <1>9 DEF Refresh, monitorVars, parsedVars
  <2>2. ShownInv'
    BY <1>1, <2>1, ShownDrawn DEF loggerVars
  <2>3. ~ParsesTrades'
    BY <2>1 DEF ParsesTrades, Reading
  <2> QED BY <1>6, <2>1, <2>2, <2>3
<1> QED BY <1>2, <1>4, <1>5, <1>7, <1>8, <1>9 DEF Next, vars, monitorVars

LEMMA OnceInvariant == Spec => []OnceInv
<1>1. Init => OnceInv
  <2> SUFFICES ASSUME Init PROVE OnceInv
    OBVIOUS
  <2>1. /\ trades = <<>> /\ totalTrades = 0 /\ totalVolume = 0 /\ lines = <<>>
        /\ shown.stats = [trades |-> 0, volume |-> 0]
        /\ \A t \in Threads : ~Writing(t)
    BY IdleType DEF Init, LoggerInit, Writing
  <2>2. DOMAIN trades = {} /\ Len(trades) = 0 /\ DOMAIN lines = {}
    BY <2>1
  <2>3. TradeIds = {} /\ TradesLogged = {}
    BY <2>2 DEF TradeIds, TradesLogged
  <2>4. Cardinality({}) = 0
    BY FS_EmptySet
  <2>5. VolumeOf({}) = 0
    <3> DEFINE none == [id \in {} |-> lines[id].qty]
    <3>1. DOMAIN none = {}
      OBVIOUS
    <3> HIDE DEF none
    <3>2. SumOf(none) = 0
      BY <3>1, SumOfNothing
    <3> QED BY <3>2, VolumeIs DEF VolumeIn, none
  <2>6. CountedInv
    BY <2>1, <2>2, <2>3, <2>4, <2>5 DEF CountedInv
  <2>7. ShownInv
    BY <2>1, <2>3, <2>4, <2>5 DEF ShownInv
  <2>8. BehindFile /\ BehindWriters
    BY <2>3 DEF BehindFile, BehindWriters
  <2> QED BY <2>6, <2>7, <2>8 DEF OnceInv
<1>2. LoggerInv /\ LoggerInv' /\ TogetherInv /\ ReadsInv /\ MonitorInv /\ OnceInv /\ [Next]_vars
        => OnceInv'
  BY OnceStep
<1> QED BY <1>1, <1>2, MonitorInvariants, PTL DEF Spec

\* However the trade log grows, is cut short, glued or truncated while the GUI
\* parses it, a trade is counted once, in order and with the quantity that was
\* logged, and the statistics on display stay within what was traded.
THEOREM CountedOnce == Spec => []TradesCountedOnce
<1>1. OnceInv => TradesCountedOnce
  <2> SUFFICES ASSUME OnceInv PROVE TradesCountedOnce
    OBVIOUS
  <2>1. {e.id : e \in ToSet(trades)} = TradeIds
    BY DEF ToSet, TradeIds
  <2> QED BY <2>1, Zenon DEF OnceInv, CountedInv, ShownInv, TradesCountedOnce
<1> QED BY <1>1, OnceInvariant, PTL

-----------------------------------------------------------------------------
(***************************************************************************)
(* The trade table, if no write fails.                                     *)
(***************************************************************************)
\* Between the pieces of two lines there is the end of one; and a file ends with
\* a line, or, if the backend still runs, its writer is about to go on.
LinesFinished(f) ==
  \A j \in DOMAIN f : \A k \in 1 .. j - 1 :
    f[k].id # f[j].id => \E m \in k .. j - 1 : f[m].to = Whole

FinishedInv ==
  \A log \in Logs : LET f == files[log] IN
    /\ LinesFinished(f)
    /\ f # <<>> /\ f[Len(f)].to # Whole /\ running =>
         \E t \in Threads : Writing(t) /\ lines[call[t].id].log = log /\ call[t].at # 0

\* A piece more leaves the lines finished if it goes on with the last one there
\* or if that has ended.
LEMMA FinishedMore ==
  ASSUME NEW f \in Seq(Piece), NEW piece \in Piece, LinesFinished(f),
         f # <<>> => f[Len(f)].id = piece.id \/ f[Len(f)].to = Whole
  PROVE  LinesFinished(Append(f, piece))
<1> DEFINE g == Append(f, piece)
           n == Len(f)
<1>1. n \in Nat /\ DOMAIN f = 1 .. n
  BY LenProperties
<1>2. DOMAIN g = 1 .. n + 1 /\ g[n + 1] = piece /\ \A i \in 1 .. n : g[i] = f[i]
  BY <1>1
<1>3. n > 0 => f[n].id = piece.id \/ f[n].to = Whole
  BY <1>1
<1> HIDE DEF g, n
<1> SUFFICES ASSUME NEW j \in DOMAIN g, NEW k \in 1 .. j - 1, g[k].id # g[j].id
             PROVE  \E m \in k .. j - 1 : g[m].to = Whole
  BY DEF LinesFinished, g
<1>4. ASSUME NEW i \in 1 .. n, NEW l \in 1 .. i - 1, f[l].id # f[i].id
      PROVE  \E m \in l .. i - 1 : m \in 1 .. n /\ f[m].to = Whole
  <2>1. PICK m \in l .. i - 1 : f[m].to = Whole
    BY <1>1, <1>4 DEF LinesFinished
  <2>2. m \in 1 .. n
    BY <1>1
  <2> QED BY <2>1, <2>2
<1>5. CASE j \in 1 .. n
  <2>1. g[j] = f[j] /\ k \in 1 .. n
    BY <1>1, <1>2, <1>5
  <2>2. g[k] = f[k]
    BY <1>2, <2>1
  <2>3. PICK m \in k .. j - 1 : m \in 1 .. n /\ f[m].to = Whole
    BY <1>4, <1>5, <2>1, <2>2
  <2>4. g[m] = f[m]
    BY <1>2, <2>3
  <2> QED BY <2>3, <2>4
<1>6. CASE j = n + 1
  <2>1. g[j] = piece /\ k \in 1 .. n /\ j - 1 = n /\ n > 0
    BY <1>1, <1>2, <1>6
  <2>2. g[k] = f[k] /\ g[n] = f[n]
    BY <1>1, <1>2, <2>1
  <2>3. CASE f[n].to = Whole
    <3>1. n \in k .. j - 1
      BY <1>1, <2>1
    <3> QED BY <2>2, <2>3, <3>1
  <2>4. CASE f[n].id = piece.id
    <3>1. f[k].id # f[n].id
      BY <2>1, <2>2, <2>4
    <3>2. n \in 1 .. n /\ k \in 1 .. n - 1
      <4>1. k # n
        BY <3>1
      <4> QED BY <1>1, <2>1, <4>1
    <3>3. PICK m \in k .. n - 1 : m \in 1 .. n /\ f[m].to = Whole
      BY <1>4, <3>1, <3>2
    <3>4. g[m] = f[m] /\ m \in k .. j - 1
      BY <1>1, <1>2, <2>1, <3>3
    <3> QED BY <3>3, <3>4
  <2> QED BY <1>3, <2>1, <2>3, <2>4
<1> QED BY <1>1, <1>2, <1>5, <1>6

LEMMA FinishedStep ==
  ASSUME ~WritesFail, LoggerInv, TogetherInv, FinishedInv, [LoggerNext]_loggerVars
  PROVE  FinishedInv'
<1>1. CASE NothingAdded
  <2>1. /\ UNCHANGED <<files, lines>> /\ (running' => running /\ call' = call)
    BY <1>1 DEF NothingAdded
  <2> QED BY <2>1 DEF FinishedInv, Writing
<1>2. ASSUME NEW opened \in SUBSET Logs, OpenLogs(opened) PROVE FinishedInv'
  <2>1. /\ \A log \in Logs : files'[log] = files[log] \/ files'[log] = <<>>
        /\ running' => \A log \in Logs : files'[log] = <<>>
    BY <1>2 DEF OpenLogs
  <2>2. ASSUME NEW log \in Logs PROVE LinesFinished(files'[log])
    <3>1. CASE files'[log] = files[log]
      BY <3>1 DEF FinishedInv
    <3>2. CASE files'[log] = <<>>
      BY <3>2 DEF LinesFinished
    <3> QED BY <2>1, <3>1, <3>2
  <2> QED BY <2>1, <2>2 DEF FinishedInv
<1>3. ASSUME NEW t \in Threads, NEW log \in Logs, NEW level \in LogLevels, NEW qty \in Nat,
             BeginLog(t, log, level, qty)
      PROVE  FinishedInv'
  <2>1. mutex = NoThread /\ running /\ files' = files
    BY <1>3 DEF BeginLog, Lock
  <2>2. \A u \in Threads : ~Writing(u)
    BY <2>1, LoggerConstants DEF LoggerInv
  <2>3. ASSUME NEW l \in Logs
        PROVE  LinesFinished(files[l]) /\ (files[l] # <<>> => files[l][Len(files[l])].to = Whole)
    BY <2>1, <2>2 DEF FinishedInv
  <2> QED BY <2>1, <2>3 DEF FinishedInv
<1>4. ASSUME NEW t \in Threads, NEW to \in Stamp .. Whole, Added(t, to)
      PROVE  FinishedInv'
  <2> DEFINE log   == lines[call[t].id].log
             piece == [id |-> call[t].id, from |-> call[t].at, to |-> to]
             f     == files[log]
             g     == files'[log]
  <2>1. /\ files' = [files EXCEPT ![log] = Append(@, piece)] /\ log \in Logs
        /\ Writing(t) /\ running /\ piece.id = call[t].id /\ piece.to = to /\ piece \in Piece
        /\ \A u \in Threads : Writing(u) => u = t
    <3>1. Writing(t) /\ Wrote(t, to)
      BY <1>4 DEF Added
    <3>2. /\ call[t].at \in 0 .. Newline /\ call[t].id \in Nat /\ log \in Logs /\ running
          /\ \A u \in Threads : Writing(u) => u = t
      BY <3>1, Writer
    <3> QED BY <3>1, <3>2 DEF Wrote, Piece
  <2>2. /\ UNCHANGED lines /\ (to # Whole => Writing(t)')
        /\ to # Whole => call'[t].id = call[t].id /\ call'[t].at = to
    BY <1>4 DEF Added
  <2>3. lines'[call[t].id].log = log
    BY <2>2
  <2>4. to # 0
    BY DEF Stamp, Whole
  <2>5. f # <<>> => f[Len(f)].id = call[t].id \/ f[Len(f)].to = Whole
    <3>1. CASE call[t].at # 0
      <4>1. Begun(t)
        BY <2>1 DEF TogetherInv
      <4> QED BY <3>1, <4>1 DEF Begun
    <3>2. CASE call[t].at = 0
      <4>1. ~\E u \in Threads : Writing(u) /\ call[u].at # 0
        BY <2>1, <3>2
      <4> QED BY <2>1, <4>1 DEF FinishedInv
    <3> QED BY <3>1, <3>2
  <2> HIDE DEF log, piece
  <2>6. f \in Seq(Piece) /\ g = Append(f, piece) /\ \A l \in Logs : l # log => files'[l] = files[l]
    BY <2>1, LineOfTyped
  <2>7. LinesFinished(f)
    BY <2>1 DEF FinishedInv
  <2> HIDE DEF f, g
  <2>8. LinesFinished(g)
    BY <2>1, <2>5, <2>6, <2>7, FinishedMore
  <2>9. g[Len(g)] = piece
    BY <2>1, <2>6
  <2>10. ASSUME NEW l \in Logs, l # log
         PROVE  /\ LinesFinished(files'[l])
                /\ files'[l] # <<>> => files'[l][Len(files'[l])].to = Whole
    <3>1. LinesFinished(files[l])
      BY DEF FinishedInv
    <3>2. ~\E u \in Threads : Writing(u) /\ lines[call[u].id].log = l
      BY <2>1, <2>10 DEF log
    <3>3. files[l] # <<>> => files[l][Len(files[l])].to = Whole
      BY <2>1, <3>2 DEF FinishedInv
    <3> QED BY <2>6, <2>10, <3>1, <3>3
  <2>11. ASSUME g[Len(g)].to # Whole
         PROVE  \E u \in Threads : Writing(u)' /\ lines'[call'[u].id].log = log /\ call'[u].at # 0
    <3>1. to # Whole
      BY <2>1, <2>9, <2>11
    <3> QED BY <2>2, <2>3, <2>4, <3>1
  <2>12. ASSUME NEW l \in Logs
         PROVE  /\ LinesFinished(files'[l])
                /\ files'[l] # <<>> /\ files'[l][Len(files'[l])].to # Whole =>
                     \E u \in Threads : /\ Writing(u)' /\ lines'[call'[u].id].log = l
                                        /\ call'[u].at # 0
    <3>1. CASE l = log
      BY <2>8, <2>11, <3>1 DEF g
    <3>2. CASE l # log
      BY <2>10, <3>2
    <3> QED BY <3>1, <3>2
  <2> QED BY <2>12 DEF FinishedInv
<1> QED BY <1>1, <1>2, <1>3, <1>4, LoggerSteps

\* The line of this trade begins with the k-th piece of the trade log, and enough
\* of it has been written to read the trade, now and when more is written.
Source(f, k, id) ==
  /\ k \in DOMAIN f /\ f[k].id = id /\ f[k].from = 0
  /\ \E m \in k .. Len(f) : f[m].id = id /\ f[m].to >= Ending

\* A trade of this run that is on display is in the file, where the parse has
\* read it or will; it is in what the last parse has read.
RowsInv ==
  /\ RowIds(shown) \subseteq DOMAIN lines
  /\ \A id \in RowIds(shown) : lines[id].run = runs =>
       /\ \E k \in Nat : Source(files["trade"], k, id) /\
                         (ParsesTrades => k > pos \/ id \in TradeIds)
       /\ ParsesTrades \/ id \in TradeIds
  /\ \A id \in TradeIds : lines[id].run = runs =>
       \E k \in Nat : Source(files["trade"], k, id)

LEMMA SourceMore ==
  ASSUME NEW f \in Seq(Piece), NEW piece \in Piece, NEW k, NEW id, Source(f, k, id)
  PROVE  Source(Append(f, piece), k, id)
<1> DEFINE g == Append(f, piece)
           n == Len(f)
<1>1. n \in Nat /\ DOMAIN f = 1 .. n
  BY LenProperties
<1>2. /\ Len(g) = n + 1 /\ DOMAIN g = 1 .. n + 1 /\ \A i \in 1 .. n : g[i] = f[i]
  BY LenProperties
<1>3. k \in 1 .. n /\ f[k].id = id /\ f[k].from = 0
  BY <1>1 DEF Source
<1>4. PICK m \in k .. n : f[m].id = id /\ f[m].to >= Ending
  BY DEF Source
<1> HIDE DEF g, n
<1>5. k \in DOMAIN g /\ g[k] = f[k]
  BY <1>1, <1>2, <1>3
<1>6. m \in k .. Len(g) /\ g[m] = f[m]
  BY <1>1, <1>2, <1>3
<1> QED BY <1>3, <1>4, <1>5, <1>6 DEF Source, g

\* A trade that can be read has a source: the first piece of its line.
LEMMA SourceOf ==
  ASSUME NEW log \in Logs, NEW f \in Seq(Piece), Together(log, f),
         NEW a \in Nat, NEW b \in a + 1 .. Len(f), NEW id, Readable(f, a, b, id)
  PROVE  \E k \in Nat : Source(f, k, id)
<1>1. Len(f) \in Nat /\ DOMAIN f = 1 .. Len(f) /\ b \in Nat
  BY LenProperties
<1>2. PICK m \in a + 1 .. b : f[m].id = id /\ f[m].to >= Ending
  BY DEF Readable
<1>3. m \in DOMAIN f /\ m \in Nat
  BY <1>1
<1> DEFINE own == {i \in DOMAIN f : f[i].id = id}
<1>4. own \in SUBSET Nat /\ m \in own
  BY <1>1, <1>2, <1>3
<1>5. PICK k \in own : \A i \in own : k <= i
  <2> HIDE DEF own
  <2> QED BY <1>4, LeastNat
<1>6. k \in DOMAIN f /\ k \in Nat /\ f[k].id = id /\ m \in k .. Len(f)
  BY <1>1, <1>3, <1>4, <1>5
<1>7. f[k].from = 0
  <2> SUFFICES ASSUME f[k].from # 0 PROVE FALSE
    OBVIOUS
  <2>1. k > 1 /\ f[k - 1].id = id
    BY <1>6 DEF Together
  <2>2. k - 1 \in DOMAIN f
    BY <1>1, <1>6, <2>1
  <2>3. k <= k - 1
    BY <1>5, <2>1, <2>2
  <2> QED BY <1>6, <2>3
<1> QED BY <1>2, <1>6, <1>7 DEF Source

LEMMA RowsLogged ==
  ASSUME ~WritesFail, LoggerInv, LoggedInv, CountedInv, RowsInv, [LoggerNext]_loggerVars,
         UNCHANGED <<trades, guiAt, toRead, pos, shown>>
  PROVE  RowsInv'
<1> DEFINE ids  == TradeIds
           rows == RowIds(shown)
           f    == files["trade"]
           g    == files'["trade"]
<1>1. /\ TradeIds' = ids /\ RowIds(shown)' = rows /\ (ParsesTrades' <=> ParsesTrades)
      /\ pos' = pos
  BY DEF TradeIds, RowIds, ParsesTrades, Reading
<1>2. \A id \in DOMAIN lines : id \in DOMAIN lines' /\ lines'[id] = lines[id]
  BY LinesGrow
<1>3. ids \subseteq DOMAIN lines /\ rows \subseteq DOMAIN lines
  BY ParsedIds DEF RowsInv
<1>4. f \in Seq(Piece)
  BY LineOfTyped DEF Logs
<1> HIDE DEF ids, rows, f, g
<1>5. ASSUME runs' = runs, \A k \in Nat, id \in Nat : Source(f, k, id) => Source(g, k, id)
      PROVE  RowsInv'
  <2>1. DOMAIN lines \subseteq Nat
    BY LineOfTyped
  <2>2. rows \subseteq DOMAIN lines'
    BY <1>2, <1>3
  <2>3. ASSUME NEW id \in rows, lines'[id].run = runs
        PROVE  /\ \E k \in Nat : Source(g, k, id) /\ (ParsesTrades => k > pos \/ id \in ids)
               /\ ParsesTrades \/ id \in ids
    <3>1. lines[id].run = runs /\ id \in Nat
      BY <1>2, <1>3, <2>1, <2>3
    <3>2. /\ \E k \in Nat : Source(f, k, id) /\ (ParsesTrades => k > pos \/ id \in ids)
          /\ ParsesTrades \/ id \in ids
      BY <2>3, <3>1 DEF RowsInv, rows, ids, f
    <3> QED BY <1>5, <3>1, <3>2
  <2>4. ASSUME NEW id \in ids, lines'[id].run = runs
        PROVE  \E k \in Nat : Source(g, k, id)
    <3>1. lines[id].run = runs /\ id \in Nat
      BY <1>2, <1>3, <2>1, <2>4
    <3>2. \E k \in Nat : Source(f, k, id)
      BY <2>4, <3>1 DEF RowsInv, ids, f
    <3> QED BY <1>5, <3>1, <3>2
  <2> QED BY <1>1, <1>5, <2>2, <2>3, <2>4 DEF RowsInv, g
<1>6. CASE g = f /\ runs' = runs
  BY <1>5, <1>6
<1>7. ASSUME NEW opened \in SUBSET Logs, OpenLogs(opened) PROVE RowsInv'
  <2>1. lines' = lines /\ runs' = runs + 1 /\ runs \in Nat
    BY <1>7 DEF OpenLogs, LoggerInv
  <2>2. \A id \in DOMAIN lines : lines[id].run # runs'
    <3>1. \A id \in DOMAIN lines : lines[id] \in Line
      BY LineOfTyped, ElementOfSeq
    <3>2. \A id \in DOMAIN lines : lines[id].run \in Nat /\ lines[id].run <= runs
      BY <3>1 DEF LoggedInv, Line
    <3> QED BY <2>1, <3>2
  <2> QED BY <1>1, <1>3, <2>1, <2>2 DEF RowsInv
<1>8. ASSUME NEW t \in Threads, NEW to \in Stamp .. Whole, Added(t, to)
      PROVE  RowsInv'
  <2> DEFINE log   == lines[call[t].id].log
             piece == [id |-> call[t].id, from |-> call[t].at, to |-> to]
  <2>1. /\ files' = [files EXCEPT ![log] = Append(@, piece)] /\ log \in Logs
        /\ piece \in Piece /\ runs' = runs
    <3>1. Writing(t) /\ Wrote(t, to) /\ runs' = runs
      BY <1>8 DEF Added
    <3>2. call[t].at \in 0 .. Newline /\ call[t].id \in Nat /\ log \in Logs
      BY <3>1, Writer
    <3> QED BY <3>1, <3>2 DEF Wrote, Piece
  <2> HIDE DEF log, piece
  <2>2. g = f \/ g = Append(f, piece)
    BY <2>1, LineOfTyped DEF Logs, f, g
  <2>3. \A k \in Nat, id \in Nat : Source(f, k, id) => Source(g, k, id)
    BY <1>4, <2>1, <2>2, SourceMore
  <2> QED BY <1>5, <2>1, <2>3
<1>9. ASSUME NEW t \in Threads, NEW log \in Logs, NEW level \in LogLevels, NEW qty \in Nat,
             BeginLog(t, log, level, qty)
      PROVE  RowsInv'
  BY <1>6, <1>9 DEF BeginLog, f, g
<1>10. CASE NothingAdded
  BY <1>6, <1>10 DEF NothingAdded, f, g
<1> QED BY <1>7, <1>8, <1>9, <1>10, LoggerSteps

\* No write having failed, a line that is read is of one message.
LEMMA OneMessage ==
  ASSUME LoggerInv, FinishedInv, NEW log \in Logs, pos \in Nat,
         pos < Len(files[log]), NEW i \in pos + 1 .. LineEnd(files[log])
  PROVE  files[log][i].id = files[log][LineEnd(files[log])].id
<1> DEFINE f == files[log]
           e == LineEnd(f)
<1>1. f \in Seq(Piece) /\ Len(f) \in Nat /\ DOMAIN f = 1 .. Len(f) /\ LinesFinished(f)
  BY LineOfTyped DEF FinishedInv
<1>2. /\ e \in pos + 1 .. Len(f)
      /\ \A j \in pos + 1 .. e - 1 : f[j].to # Whole
  BY <1>1, LineEnds
<1> HIDE DEF f, e
<1> SUFFICES ASSUME f[i].id # f[e].id PROVE FALSE
  BY DEF f, e
<1>3. i \in pos + 1 .. e /\ i # e
  BY DEF f, e
<1>4. e \in DOMAIN f /\ i \in 1 .. e - 1
  BY <1>1, <1>2, <1>3
<1>5. PICK m \in i .. e - 1 : f[m].to = Whole
  BY <1>1, <1>4 DEF LinesFinished
<1>6. m \in pos + 1 .. e - 1
  BY <1>2, <1>3
<1> QED BY <1>2, <1>5, <1>6

\* A trade whose line begins in the line that is read is found there.
LEMMA SourceRead ==
  ASSUME NEW log \in Logs, NEW f \in Seq(Piece), Together(log, f), pos \in Nat,
         pos < Len(f), NEW id, NEW k \in pos + 1 .. LineEnd(f), Source(f, k, id)
  PROVE  Readable(f, pos, LineEnd(f), id)
<1> DEFINE e == LineEnd(f)
<1>1. /\ e \in pos + 1 .. Len(f) /\ (f[e].to # Whole => e = Len(f)) /\ Len(f) \in Nat
      /\ DOMAIN f = 1 .. Len(f)
  BY LineEnds, LenProperties
<1> HIDE DEF e
<1>2. k \in pos + 1 .. e /\ k \in DOMAIN f /\ e \in DOMAIN f /\ e \in Nat /\ k \in Nat
  BY <1>1 DEF e, Source
<1>3. f[k].id = id /\ f[k].from = 0
  BY DEF Source
<1>4. PICK m \in k .. Len(f) : f[m].id = id /\ f[m].to >= Ending
  BY DEF Source
<1>5. m \in DOMAIN f /\ m \in Nat
  BY <1>1, <1>2
<1>6. m <= e
  <2> SUFFICES ASSUME e < m PROVE FALSE
    BY <1>2, <1>5
  <2>1. e \in 1 .. m - 1
    BY <1>1, <1>2, <1>5
  <2>2. f[e].id < id \/ (f[e].id = id /\ f[e].to <= f[m].from)
    BY <1>4, <1>5, <2>1 DEF Together
  <2>3. f[e] \in Piece /\ f[m] \in Piece /\ f[k] \in Piece
    BY <1>2, <1>5, ElementOfSeq
  <2>4. ~(f[e].id < id)
    <3>1. CASE k = e
      BY <1>3, <2>3, <3>1, PieceTyped
    <3>2. CASE k # e
      <4>1. k \in 1 .. e - 1
        BY <1>1, <1>2, <3>2
      <4>2. f[k].id < f[e].id \/ f[k].id = f[e].id
        BY <1>2, <4>1 DEF Together
      <4>3. f[k].id \in Nat /\ f[e].id \in Nat
        BY <2>3, PieceTyped
      <4> QED BY <1>3, <4>2, <4>3
    <3> QED BY <3>1, <3>2
  <2>5. f[e].to # Whole
    <3>1. f[e].to <= f[m].from
      BY <2>2, <2>4
    <3>2. f[e].to \in Nat
      BY <2>3, PieceTyped
    <3>3. f[m].from \in Nat /\ f[m].from < Whole
      BY <2>3, PieceTyped
    <3> QED BY <3>1, <3>2, <3>3 DEF Whole
  <2>6. e = Len(f)
    BY <1>1, <2>5, Zenon
  <2> QED BY <1>1, <2>6
<1>7. m \in pos + 1 .. e
  BY <1>1, <1>2, <1>5, <1>6
<1>8. 0 <= Stamp
  BY DEF Stamp
<1> QED BY <1>2, <1>3, <1>4, <1>7, <1>8 DEF Readable, e

LEMMA RowsRead ==
  ASSUME LoggerInv, TogetherInv, FinishedInv, ReadingTypes, ParsedTypes, RowsInv,
         ReadLine, Head(toRead) = "trade"
  PROVE  RowsInv'
<1> DEFINE f    == files["trade"]
           ids  == TradeIds
           new  == TradeIds'
           rows == RowIds(shown)
<1>1. /\ ParsesTrades /\ ParsesTrades' /\ pos \in Nat
      /\ UNCHANGED <<files, lines, runs>> /\ RowIds(shown)' = rows
  BY DEF ReadLine, ParsesTrades, Reading, ReadingTypes, loggerVars, RowIds
<1>2. /\ f \in Seq(Piece) /\ pos' \in pos + 1 .. Len(f) /\ pos' = LineEnd(f)
      /\ \/ trades' = trades /\ \A id : ~Readable(f, pos, pos', id)
         \/ \E e \in TradeEntry :
              Readable(f, pos, pos', e.id) /\ trades' = Append(trades, e)
  BY <1>1, TradeRead DEF ParsedTypes
<1>3. "trade" \in Logs /\ Len(f) \in Nat /\ DOMAIN f = 1 .. Len(f) /\ pos < Len(f) /\ pos' \in Nat
  BY <1>1, <1>2, LenProperties DEF Logs
<1>4. Together("trade", f)
  BY <1>3 DEF TogetherInv
<1>5. \/ new = ids /\ \A id : ~Readable(f, pos, pos', id)
      \/ \E last : Readable(f, pos, pos', last) /\ new = ids \cup {last}
  <2>1. CASE trades' = trades /\ \A id : ~Readable(f, pos, pos', id)
    BY <2>1 DEF TradeIds
  <2>2. ASSUME NEW e \in TradeEntry, Readable(f, pos, pos', e.id), trades' = Append(trades, e)
        PROVE  new = ids \cup {e.id}
    BY <2>2, IdsAppended DEF ParsedTypes
  <2> HIDE DEF f, new, ids
  <2> QED BY <1>2, <2>1, <2>2
<1>6. ids \subseteq new
  <2> HIDE DEF f, new, ids
  <2> QED BY <1>5
<1>7. ASSUME NEW id, Readable(f, pos, pos', id) PROVE id = f[pos'].id
  <2>1. PICK i \in pos + 1 .. pos' : f[i].id = id
    BY <1>7 DEF Readable
  <2>2. f[i].id = f[pos'].id
    BY <1>1, <1>2, <1>3, OneMessage
  <2> QED BY <2>1, <2>2
<1> HIDE DEF new, ids, rows
<1>8. ASSUME NEW k \in Nat, NEW id, Source(f, k, id), k > pos, ~(k > pos') PROVE id \in new
  <2>1. k \in pos + 1 .. pos'
    BY <1>1, <1>3, <1>8
  <2>2. Readable(f, pos, pos', id)
    BY <1>1, <1>2, <1>3, <1>4, <1>8, <2>1, SourceRead
  <2> HIDE DEF f
  <2> QED BY <1>5, <1>7, <2>2
<1>9. ASSUME NEW id \in rows, lines[id].run = runs
      PROVE  \E k \in Nat : Source(f, k, id) /\ (k > pos' \/ id \in new)
  <2>1. PICK k \in Nat : Source(f, k, id) /\ (k > pos \/ id \in ids)
    BY <1>1, <1>9 DEF RowsInv, rows, ids
  <2> HIDE DEF f
  <2> QED BY <1>6, <1>8, <2>1
<1>10. ASSUME NEW id \in new, lines[id].run = runs PROVE \E k \in Nat : Source(f, k, id)
  <2>1. CASE id \in ids
    BY <1>10, <2>1 DEF RowsInv, ids
  <2>2. CASE id \notin ids
    <3>1. Readable(f, pos, pos', id)
      <4> HIDE DEF f
      <4> QED BY <1>5, <1>10, <2>2
    <3> DEFINE b == pos'
    <3>2. b \in pos + 1 .. Len(f) /\ Readable(f, pos, b, id)
      BY <1>2, <3>1
    <3> HIDE DEF b, f
    <3> QED BY <1>1, <1>2, <1>3, <1>4, <3>2, SourceOf
  <2> QED BY <2>1, <2>2
<1>11. rows \subseteq DOMAIN lines
  BY DEF RowsInv, rows
<1> HIDE DEF f
<1> QED BY <1>1, <1>9, <1>10, <1>11 DEF RowsInv, new, f

\* The table has the last trades of the parse.
LEMMA TableIds ==
  ASSUME trades \in Seq(TradeEntry), CountedInv
  PROVE  LET table == {e.id : e \in ToSet(TradeTable)}
         IN  /\ table \subseteq TradeIds
             /\ \A id \in TradeIds : id \notin table =>
                  Len(TradeTable) = RecentTrades /\ \A new \in table : id < new
<1> DEFINE r     == TradeTable
           n     == Len(trades)
           first == IF n <= RecentTrades THEN 0 ELSE n - RecentTrades
           table == {e.id : e \in ToSet(r)}
<1>1. /\ first \in Nat /\ n \in Nat /\ r \in Seq(TradeEntry) /\ Len(r) = n - first
      /\ \A i \in 1 .. n - first : r[i] = trades[first + i] /\ first + i \in DOMAIN trades
  BY RowsShown, RecentIs DEF TradeTable
<1>2. DOMAIN trades = 1 .. n /\ DOMAIN r = 1 .. n - first
  BY <1>1, LenProperties
<1>3. \A i \in DOMAIN trades : \A j \in 1 .. i - 1 : trades[j].id < trades[i].id
  BY DEF CountedInv
<1>4. first > 0 => n - first = RecentTrades /\ RecentTrades \in Nat
  BY <1>1, RowsShown
<1>5. table = {r[i].id : i \in 1 .. n - first}
  BY <1>2 DEF ToSet
<1> HIDE DEF r, n, first, table
<1>6. table \subseteq TradeIds
  BY <1>1, <1>5 DEF TradeIds
<1>7. ASSUME NEW i \in DOMAIN trades, trades[i].id \notin table
      PROVE  Len(r) = RecentTrades /\ \A new \in table : trades[i].id < new
  <2>1. i <= first
    <3> SUFFICES ASSUME ~(i <= first) PROVE FALSE
      OBVIOUS
    <3> DEFINE j == i - first
    <3>1. j \in 1 .. n - first /\ first + j = i
      BY <1>1, <1>2
    <3> HIDE DEF j
    <3>2. r[j].id = trades[i].id
      BY <1>1, <3>1
    <3> QED BY <1>5, <1>7, <3>1, <3>2
  <2>2. first > 0
    BY <1>1, <1>2, <2>1
  <2>3. ASSUME NEW j \in 1 .. n - first PROVE trades[i].id < r[j].id
    <3>1. i \in 1 .. (first + j) - 1
      BY <1>1, <1>2, <2>1
    <3> QED BY <1>1, <1>3, <3>1
  <2> QED BY <1>1, <1>4, <1>5, <2>2, <2>3
<1> QED BY <1>6, <1>7 DEF TradeIds, table, r

\* What RowsStay says of a step.
StaysShown ==
  \A id \in RowIds(shown) :
    lines[id].run = runs =>
      \/ id \in RowIds(shown')
      \/ Len(shown'.rows) = RecentTrades /\ \A new \in RowIds(shown') : id < new

AllParsed == \A id \in RowIds(shown) : lines[id].run = runs => id \in TradeIds

LEMMA RowsParsed ==
  ASSUME LoggerInv, RowsInv, ReadingTypes, ~ParsesTrades \/ pos >= Len(files["trade"])
  PROVE  AllParsed
<1>1. CASE ~ParsesTrades
  BY <1>1 DEF RowsInv, AllParsed
<1>2. CASE ParsesTrades /\ pos >= Len(files["trade"])
  <2> DEFINE f == files["trade"]
  <2>1. Len(f) \in Nat /\ DOMAIN f = 1 .. Len(f) /\ pos \in Nat
    BY LineOfTyped DEF Logs, ReadingTypes
  <2>2. \A k \in Nat, id \in RowIds(shown) : Source(f, k, id) => ~(k > pos)
    BY <1>2, <2>1 DEF Source
  <2> HIDE DEF f
  <2> QED BY <1>2, <2>2 DEF RowsInv, AllParsed, f
<1> QED BY <1>1, <1>2

\* Between two parses of the trade log, what is drawn is what the first found.
LEMMA RowsDrawn ==
  ASSUME LoggerInv, CountedInv, RowsInv, AllParsed, trades \in Seq(TradeEntry),
         UNCHANGED <<files, lines, runs, trades>>, ~ParsesTrades',
         shown'.rows = shown.rows \/ shown'.rows = TradeTable
  PROVE  RowsInv' /\ StaysShown
<1>1. TradeIds' = TradeIds /\ TradeIds \subseteq DOMAIN lines
  BY ParsedIds DEF TradeIds
<1>2. \A id \in TradeIds : lines[id].run = runs =>
        \E k \in Nat : Source(files["trade"], k, id)
  BY DEF RowsInv
<1>3. CASE shown'.rows = shown.rows
  <2>1. RowIds(shown') = RowIds(shown)
    BY <1>3 DEF RowIds
  <2>2. RowsInv'
    BY <1>1, <1>2, <2>1 DEF RowsInv, AllParsed
  <2> QED BY <2>1, <2>2 DEF StaysShown
<1>4. CASE shown'.rows = TradeTable
  <2>1. RowIds(shown') = {e.id : e \in ToSet(TradeTable)}
    BY <1>4 DEF RowIds
  <2>2. /\ RowIds(shown') \subseteq TradeIds
        /\ \A id \in TradeIds : id \notin RowIds(shown') =>
             Len(TradeTable) = RecentTrades /\ \A new \in RowIds(shown') : id < new
    BY <2>1, TableIds
  <2>3. RowsInv'
    BY <1>1, <1>2, <2>2 DEF RowsInv
  <2>4. StaysShown
    BY <1>4, <2>2 DEF StaysShown, AllParsed
  <2> QED BY <2>3, <2>4
<1> QED BY <1>3, <1>4

\* A parse of the trade log begins with everything before it.
LEMMA RowsBegun ==
  ASSUME LoggerInv, RowsInv, UNCHANGED <<files, lines, runs, shown>>, ParsesTrades',
         pos' = 0, trades' = <<>>
  PROVE  RowsInv' /\ StaysShown
<1>1. TradeIds' = {} /\ RowIds(shown') = RowIds(shown)
  BY DEF TradeIds
<1>2. \A k \in Nat, id \in RowIds(shown) : Source(files["trade"], k, id) => k > 0
  <2>1. DOMAIN files["trade"] = 1 .. Len(files["trade"]) /\ Len(files["trade"]) \in Nat
    BY LineOfTyped DEF Logs
  <2> QED BY <2>1 DEF Source
<1>3. RowsInv'
  BY <1>1, <1>2 DEF RowsInv
<1> QED BY <1>1, <1>3 DEF StaysShown

LEMMA RowsStep ==
  ASSUME ~WritesFail, LoggerInv, LoggerInv', TogetherInv, LoggedInv, FinishedInv,
         ReadsInv, MonitorInv, OnceInv, RowsInv, [Next]_vars
  PROVE  RowsInv' /\ StaysShown
<1>1. ReadingTypes /\ ParsedTypes /\ shown \in Window /\ CountedInv
  BY MonitorParts DEF OnceInv
<1>2. trades \in Seq(TradeEntry) /\ pos \in Nat
  BY <1>1 DEF ParsedTypes, ReadingTypes
<1>3. shown' = shown => StaysShown
  BY DEF StaysShown, RowIds
<1>4. CASE [LoggerNext]_loggerVars /\ UNCHANGED <<guiAt, toRead, pos, parsedVars, shown>>
  BY <1>1, <1>3, <1>4, RowsLogged DEF parsedVars
<1>5. CASE StartMonitoring
  <2>1. /\ BeginParse(<<"trade", "system">>) /\ UNCHANGED loggerVars /\ shown' = shown
        /\ guiAt' = "starting"
    BY <1>5 DEF StartMonitoring
  <2>2. toRead' = <<"trade", "system">> /\ pos' = 0 /\ trades' = <<>>
    BY <2>1, ReadLists DEF BeginParse, Clear
  <2>3. ParsesTrades'
    BY <2>1, <2>2, ReadLists DEF ParsesTrades, Reading
  <2> QED BY <2>1, <2>2, <2>3, RowsBegun DEF loggerVars
<1>6. ASSUME NEW log \in Logs, LogChanged(log) PROVE RowsInv' /\ StaysShown
  <2>1. /\ BeginParse(<<log>>) /\ UNCHANGED loggerVars /\ shown' = shown
        /\ guiAt = "idle" /\ guiAt' = "slot"
    BY <1>6 DEF LogChanged
  <2>2. toRead' = <<log>> /\ pos' = 0 /\ Clear(log) /\ Head(toRead') = log
    BY <2>1, ReadLists DEF BeginParse
  <2>3. CASE log = "trade"
    <3>1. trades' = <<>> /\ ParsesTrades'
      BY <2>1, <2>2, <2>3 DEF Clear, ParsesTrades, Reading
    <3> QED BY <2>1, <2>2, <3>1, RowsBegun DEF loggerVars
  <2>4. CASE log # "trade"
    <3>1. trades' = trades /\ ~ParsesTrades'
      BY <2>2, <2>4 DEF Clear, ParsesTrades
    <3>2. AllParsed
      BY <1>1, <2>1, RowsParsed DEF ParsesTrades, Reading
    <3> QED BY <1>1, <1>2, <2>1, <3>1, <3>2, RowsDrawn DEF loggerVars
  <2> QED BY <2>3, <2>4
<1>7. CASE ReadLine
  <2>1. UNCHANGED loggerVars /\ shown' = shown /\ toRead' = toRead
    BY <1>7 DEF ReadLine
  <2>2. CASE Head(toRead) = "trade"
    BY <1>1, <1>3, <1>7, <2>1, <2>2, RowsRead
  <2>3. CASE Head(toRead) # "trade"
    <3>1. trades' = trades /\ ~ParsesTrades /\ ~ParsesTrades'
      BY <1>7, <2>1, <2>3 DEF ReadLine, ParsesTrades
    <3>2. AllParsed
      BY <1>1, <3>1, RowsParsed
    <3> QED BY <1>1, <1>2, <2>1, <3>1, <3>2, RowsDrawn DEF loggerVars
  <2> QED BY <2>2, <2>3
<1>8. CASE EndParse
  <2>1. /\ UNCHANGED loggerVars /\ Reading /\ pos >= Len(files[Head(toRead)])
        /\ shown' = shown \/ shown' = DrawTrades(shown) \/ shown' = DrawLogs(shown)
        /\ Len(toRead) > 1 => BeginParse(Tail(toRead))
        /\ ~(Len(toRead) > 1) => guiAt' = "idle" /\ UNCHANGED parsedVars
    BY <1>8 DEF EndParse
  <2>2. AllParsed
    BY <1>1, <2>1, RowsParsed DEF ParsesTrades
  <2>3. shown'.rows = shown.rows \/ shown'.rows = TradeTable
    BY <1>1, <2>1 DEF Window, DrawTrades, DrawLogs
  <2>4. trades' = trades /\ ~ParsesTrades'
    <3>1. CASE Len(toRead) > 1
      <4>1. Tail(toRead) = <<"system">>
        BY <2>1, <3>1, ReadingList
      <4>2. toRead' = <<"system">> /\ Clear("system")
        BY <2>1, <3>1, <4>1, ReadLists DEF BeginParse
      <4>3. Head(toRead') # "trade"
        BY <4>2, ReadLists
      <4> QED BY <4>2, <4>3 DEF Clear, ParsesTrades
    <3>2. CASE ~(Len(toRead) > 1)
      BY <2>1, <3>2 DEF parsedVars, ParsesTrades, Reading
    <3> QED BY <3>1, <3>2
  <2> QED BY <1>1, <1>2, <2>1, <2>2, <2>3, <2>4, RowsDrawn DEF loggerVars
<1>9. CASE Refresh
  <2>1. /\ UNCHANGED loggerVars /\ guiAt = "idle" /\ UNCHANGED guiAt
        /\ shown' = DrawLogs(DrawTrades(shown)) /\ trades' = trades
    BY <1>9 DEF Refresh, monitorVars, parsedVars
  <2>2. ~ParsesTrades /\ ~ParsesTrades'
    BY <2>1 DEF ParsesTrades, Reading
  <2>3. AllParsed
    BY <1>1, <2>2, RowsParsed
  <2>4. shown'.rows = TradeTable
    BY <1>1, <2>1 DEF Window, DrawTrades, DrawLogs
  <2> QED BY <1>1, <1>2, <2>1, <2>2, <2>3, <2>4, RowsDrawn DEF loggerVars
<1> QED BY <1>4, <1>5, <1>6, <1>7, <1>8, <1>9 DEF Next, vars, monitorVars

\* As long as write(2) does not fail, a trade of the running backend stays in
\* the table until newer ones push it out: rereading the log from its
\* beginning, with a line cut at its end or a restart in between, never drops
\* it.  (A failed write may glue the next message to what is left of a trade on
\* display; of the two the GUI then reads the last.)
THEOREM TableKept == ~WritesFail => (Spec => RowsStay)
<1> SUFFICES ASSUME ~WritesFail PROVE Spec => RowsStay
  OBVIOUS
<1>1. Spec => []LoggedInv
  <2>1. LoggerSpec => []LoggedInv
    BY LoggedInvariant
  <2> QED BY <2>1, MonitorOnlyReads, PTL
<1>2. Spec => []FinishedInv
  <2>1. LoggerInit => FinishedInv
    BY DEF LoggerInit, FinishedInv, LinesFinished
  <2>2. LoggerInv /\ TogetherInv /\ FinishedInv /\ [LoggerNext]_loggerVars => FinishedInv'
    BY FinishedStep
  <2> QED BY <2>1, <2>2, MonitorOnlyReads, LoggerInvariant, FilesTogether, PTL DEF LoggerSpec
<1>3. Init => RowsInv
  <2> SUFFICES ASSUME Init PROVE RowsInv
    OBVIOUS
  <2>1. trades = <<>> /\ shown.rows = <<>>
    BY DEF Init
  <2>2. TradeIds = {} /\ RowIds(shown) = {}
    BY <2>1 DEF TradeIds, RowIds, ToSet
  <2> QED BY <2>2 DEF RowsInv
<1>4. LoggerInv /\ LoggerInv' /\ TogetherInv /\ LoggedInv /\ FinishedInv /\ ReadsInv
        /\ MonitorInv /\ OnceInv /\ RowsInv /\ [Next]_vars
        => RowsInv' /\ [StaysShown]_vars
  BY RowsStep
<1>5. RowsStay <=> [][StaysShown]_vars
  BY DEF RowsStay, StaysShown
<1> QED BY <1>1, <1>2, <1>3, <1>4, <1>5, MonitorInvariants, OnceInvariant, PTL DEF Spec

=============================================================================
