----------------------------- MODULE LogMonitor -----------------------------
(***************************************************************************)
(* The window of the GUI (mainwindow.cpp) and its LogMonitor               *)
(* (logmonitor.cpp), in a process of its own beside the backend's.  Qt's   *)
(* file watcher tells it that a log has changed; it then rereads that log  *)
(* from the beginning, line by line, while the backend may go on writing   *)
(* to it or start again and truncate it; a timer redraws what was read.    *)
(* The GUI has one thread: nothing else of it runs while it reads a log.   *)
(*                                                                         *)
(* A reader that comes to the end of a file takes what is there for a      *)
(* line, and the rest, if it follows, for another.                         *)
(***************************************************************************)
EXTENDS Logger

CONSTANTS RecentTrades, RecentLogs  \* rows shown: 50 and 100

ASSUME RowsShown == RecentTrades \in Nat /\ RecentLogs \in Nat

VARIABLES guiAt,       \* "off", "starting" and "slot" (reading), "idle"
          toRead,      \* the logs left to read, the first of them now
          pos,         \* how much of that log the parse has consumed
          watched,     \* the logs m_watcher watches
          changed,     \* the watched logs with a change not yet delivered
          trades,      \* m_trades
          totalTrades, totalVolume,
          systemLogs,  \* m_systemLogs
          shown        \* the trade table, the statistics and the log view

monitorVars == <<guiAt, toRead, pos, watched, changed>>
parsedVars  == <<trades, totalTrades, totalVolume, systemLogs>>
vars == <<loggerVars, monitorVars, parsedVars, shown>>

\* An entry is exact if every field of it is what was logged.
TradeEntry  == [id : Nat, qty : Nat, exact : BOOLEAN]
SystemEntry == [id : Nat, level : Range(LevelStr) \cup {"garbled"}, exact : BOOLEAN]

Init ==
  /\ LoggerInit
  /\ guiAt = "off" /\ toRead = <<>> /\ pos = 0 /\ watched = {} /\ changed = {}
  /\ trades = <<>> /\ totalTrades = 0 /\ totalVolume = 0 /\ systemLogs = <<>>
  /\ shown = [rows |-> <<>>, stats |-> [trades |-> 0, volume |-> 0], logs |-> <<>>]

-----------------------------------------------------------------------------
(***************************************************************************)
(* What the regular expressions make of a line, the pieces up to a newline *)
(* or to the end of the file.  There is more than one message in it if a   *)
(* write has failed.                                                       *)
(***************************************************************************)
\* The line has a message from one place to another at least.
Holds(line, id, from, to) ==
  /\ \E p \in line : p.id = id /\ p.from <= from
  /\ \E p \in line : p.id = id /\ p.to >= to

Ids(line) == {p.id : p \in line}

\* A trade can be read off a message that has MATCH and the fields after it,
\* behind something in brackets, if only the level.  The expression is greedy:
\* of several trades it finds the last.  (Messages are in the order of ids.)
TradeIn(line) ==
  LET found == {id \in Ids(line) : Holds(line, id, Stamp, Ending)}
      last  == Max(found)
  IN  IF found = {} THEN <<>>
      ELSE <<[id |-> last, qty |-> lines[last].qty,
              exact |-> Ids(line) = {last} /\ Holds(line, last, 0, Newline)]>>

\* A system line begins with the first timestamp that is closed; if the level
\* after it is not, the brackets of the next message close it.
EntryIn(line) ==
  LET closed == {id \in Ids(line) : Holds(line, id, 0, Middle)}
      first  == Min(closed)
      broken == ~Holds(line, first, 0, Ending)
  IN  IF closed = {} \/ (broken /\ closed = {first}) THEN <<>>
      ELSE <<[id |-> first,
              level |-> IF broken THEN "garbled" ELSE LevelStr[lines[first].level],
              exact |-> Ids(line) = {first} /\ Holds(line, first, 0, Whole)]>>

\* Where the line that begins behind pos ends: at a newline or with the file.
LineEnd(f) ==
  LET ends == {i \in pos + 1 .. Len(f) : f[i].to = Whole} \cup {Len(f)}
  IN  Min(ends)

-----------------------------------------------------------------------------
Lazy_Clear(log) ==
  IF log = "trade"
    THEN totalTrades' = 0 /\ totalVolume' = 0 /\ UNCHANGED <<trades, systemLogs>>
    ELSE systemLogs' = <<>> /\ UNCHANGED <<trades, totalTrades, totalVolume>>

\* A parse begins by forgetting what the last one has read.
Clear(log) ==
  IF log = "trade"
    THEN trades' = <<>> /\ totalTrades' = 0 /\ totalVolume' = 0 /\ UNCHANGED systemLogs
    ELSE systemLogs' = <<>> /\ UNCHANGED <<trades, totalTrades, totalVolume>>

BeginParse(logs) ==
  /\ toRead' = logs /\ pos' = 0
  /\ Clear(Head(logs))

\* The window is made: startMonitoring watches the files that exist and
\* parses both logs.
StartMonitoring ==
  /\ guiAt = "off"
  /\ guiAt' = "starting"
  /\ watched' = exists /\ changed' = {}
  /\ BeginParse(<<"trade", "system">>)
  /\ UNCHANGED <<loggerVars, shown>>

\* The watcher reports a change: onTradeLogChanged, onSystemLogChanged.
LogChanged(log) ==
  /\ guiAt = "idle" /\ log \in changed
  /\ guiAt' = "slot"
  /\ changed' = changed \ {log}
  /\ BeginParse(<<log>>)
  /\ UNCHANGED <<loggerVars, watched, shown>>

Reading == guiAt \in {"starting", "slot"}

\* One iteration of the loop of parseTradeLogs or parseSystemLogs.
ReadLine ==
  /\ Reading
  /\ LET log  == Head(toRead)
         f    == files[log]
         line == {f[i] : i \in pos + 1 .. LineEnd(f)}
     IN  /\ pos < Len(f)
         /\ pos' = LineEnd(f)
         /\ IF log = "trade"
              THEN LET found == TradeIn(line)
                   IN  /\ trades' = trades \o found
                       /\ totalTrades' = totalTrades + Len(found)
                       /\ totalVolume' = totalVolume
                            + (IF found = <<>> THEN 0 ELSE found[1].qty)
                       /\ UNCHANGED systemLogs
              ELSE /\ systemLogs' = systemLogs \o EntryIn(line)
                   /\ UNCHANGED <<trades, totalTrades, totalVolume>>
  /\ UNCHANGED <<loggerVars, guiAt, toRead, watched, changed, shown>>

\* getRecentTrades, getRecentSystemLogs.
Recent(entries, count) ==
  IF Len(entries) <= count THEN entries
  ELSE SubSeq(entries, Len(entries) - count + 1, Len(entries))

\* What updateTrades, updateStatistics and updateSystemLogs put on display.
TradeTable == Recent(trades, RecentTrades)
Statistics == [trades |-> totalTrades, volume |-> totalVolume]
LogView    == Recent(systemLogs, RecentLogs)

\* onTradesUpdated and onStatisticsUpdated, onSystemLogsUpdated.
DrawTrades(window) == [window EXCEPT !.rows = TradeTable, !.stats = Statistics]
DrawLogs(window)   == [window EXCEPT !.logs = LogView]

Early_EndParse ==
  /\ Reading /\ pos >= Len(files[Head(toRead)])
  /\ guiAt' = "idle" /\ toRead' = Tail(toRead) /\ pos' = 0
  /\ shown' = CASE guiAt = "starting"       -> shown
                [] toRead = <<"trade">>     -> DrawTrades(shown)
                [] OTHER                    -> DrawLogs(shown)
  /\ UNCHANGED <<loggerVars, watched, changed, parsedVars>>

\* The parse has come to the end of the file.  startMonitoring goes on with
\* the next log; a slot emits the signals that redraw what it has read.
EndParse ==
  /\ Reading /\ pos >= Len(files[Head(toRead)])
  /\ IF Len(toRead) > 1
       THEN BeginParse(Tail(toRead)) /\ UNCHANGED guiAt
       ELSE /\ guiAt' = "idle" /\ toRead' = <<>> /\ pos' = 0
            /\ UNCHANGED parsedVars
  /\ shown' = CASE guiAt = "starting"       -> shown
                [] toRead = <<"trade">>     -> DrawTrades(shown)
                [] OTHER                    -> DrawLogs(shown)
  /\ UNCHANGED <<loggerVars, watched, changed>>

Eager_Refresh ==
  /\ guiAt # "off"
  /\ shown' = DrawLogs(DrawTrades(shown))
  /\ UNCHANGED <<loggerVars, monitorVars, parsedVars>>

\* The refresh timer; it redraws what is cached and reads nothing.
Refresh ==
  /\ guiAt = "idle"
  /\ shown' = DrawLogs(DrawTrades(shown))
  /\ UNCHANGED <<loggerVars, monitorVars, parsedVars>>

Absorbed_Noticed ==
  changed' = IF guiAt = "slot" THEN changed
             ELSE changed \cup {log \in watched : files'[log] # files[log]}

\* The kernel tells the watcher what has been written or truncated (init also
\* writes a header, so a start changes both files).  Changes of one log that
\* are not delivered yet count once.
Noticed ==
  changed' = changed \cup {log \in watched :
                             files'[log] # files[log] \/ (runs' # runs /\ running')}

Next ==
  \/ /\ LoggerNext /\ Noticed
     /\ UNCHANGED <<guiAt, toRead, pos, watched, parsedVars, shown>>
  \/ StartMonitoring
  \/ \E log \in Logs : LogChanged(log)
  \/ ReadLine
  \/ EndParse
  \/ Refresh

Spec == Init /\ [][Next]_vars

\* The GUI's event loop handles what there is to handle.
FairSpec ==
  /\ Spec
  /\ WF_vars(ReadLine) /\ WF_vars(EndParse) /\ WF_vars(Refresh)
  /\ \A log \in Logs : WF_vars(LogChanged(log))

-----------------------------------------------------------------------------
\* Type correctness of the monitor.  It reads exactly while it has a log to
\* read, and changes are kept for watched logs only.
MonitorInv ==
  /\ LoggerInv
  /\ guiAt \in {"off", "starting", "idle", "slot"}
  /\ toRead \in Seq(Logs) /\ (Reading <=> toRead # <<>>)
  /\ pos \in Nat
  /\ watched \subseteq Logs /\ changed \subseteq watched
  /\ trades \in Seq(TradeEntry) /\ totalTrades \in Nat /\ totalVolume \in Nat
  /\ systemLogs \in Seq(SystemEntry)
  /\ shown \in [rows : Seq(TradeEntry), stats : [trades : Nat, volume : Nat],
                logs : Seq(SystemEntry)]

VolumeOf(ids) == FoldFunction(+, 0, [id \in ids |-> lines[id].qty])

TradesLogged == {id \in DOMAIN lines : LineOf("trade", id)}

\* However a log grows, is cut or truncated while it is parsed: no trade is
\* counted twice or out of order, or with another quantity, and the statistics
\* on display never exceed what was traded.
TradesCountedOnce ==
  /\ \A i \in DOMAIN trades :
       /\ LineOf("trade", trades[i].id) /\ trades[i].qty = lines[trades[i].id].qty
       /\ \A j \in 1 .. i - 1 : trades[j].id < trades[i].id
  /\ totalTrades = Len(trades)
  /\ totalVolume = VolumeOf({e.id : e \in ToSet(trades)})
  /\ shown.stats.trades <= Cardinality(TradesLogged)
  /\ shown.stats.volume <= VolumeOf(TradesLogged)

\* The levels LogMonitor is written for (SystemEntry::level: "INFO, WARN,
\* ERROR, TRADE"); SystemWidget gives every other level one grey colour.
LevelsKnown ==
  \A e \in ToSet(systemLogs) : e.level \in {"INFO", "WARN", "ERROR", "TRADE"}

RowIds(window) == {e.id : e \in ToSet(window.rows)}

\* A trade of the running backend that the table shows stays there until newer
\* trades push it out: rereading from the beginning, with the end of the file
\* cut at any place, never makes it flicker, as long as no write fails (the
\* remains of a failed write are glued to the next line, and change it).
RowsStay ==
  [][\A id \in RowIds(shown) :
       lines[id].run = runs =>
         \/ id \in RowIds(shown')
         \/ Len(shown'.rows) = RecentTrades /\ \A new \in RowIds(shown') : id < new]_vars

\* Every line that has been written to the end is shown in the end if the log
\* is watched: trades in the statistics and the last of them in the table,
\* exactly as logged if no write has failed.
CatchesUp ==
  <>[](/\ "trade" \in watched =>
            /\ \A id \in Logged("trade") : \E e \in ToSet(trades) :
                 e.id = id /\ (WritesFail \/ e.exact)
            /\ shown.rows = TradeTable
            /\ shown.stats.trades = Len(trades)
       /\ "system" \in watched =>
            /\ ~WritesFail => \A id \in Logged("system") : \E e \in ToSet(systemLogs) :
                 e.id = id /\ e.exact
            /\ shown.logs = LogView)

=============================================================================
