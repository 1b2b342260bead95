------------------------------- MODULE Logger -------------------------------
(***************************************************************************)
(* The logger: workers write entries into a buffer of their own, and the   *)
(* logger thread copies them into the buffers of the watchers that asked   *)
(* for them and from there to their sockets.                               *)
(*                                                                         *)
(* A buffer is the queue that BipBuffer is shown to implement (ByteFifo),  *)
(* in entries instead of bytes: a reader gets a prefix of what is there, a *)
(* writer may be refused as soon as the buffer is not empty.  The logger   *)
(* thread holds logger_stack_lock while it works, so its steps interleave  *)
(* with logger_log, with clients and with nothing else.  A use of freed    *)
(* memory ends a behaviour (freed).                                        *)
(***************************************************************************)
EXTENDS Integers, Sequences, FiniteSets, FiniteSetsExt

CONSTANTS
    Loggers,           \* workers, each with a logger
    NextLogger,        \* the list from logger_stack_head on
    NoLogger,
    Slots,             \* 1 .. WATCHER_LIMIT
    Flags,             \* kinds of entries
    LogSize,           \* entries a worker's buffer holds
    WatcherSize,       \* lines a watcher's buffer holds
    MaxEntries,        \* entries written or dropped, in a run
    MaxWatchers,       \* watchers added, in a run
    MaxChanges         \* times a client stops or starts reading or hangs up, in a run

ASSUME LoggerAssumption ==
    /\ Slots = 1 .. Cardinality(Slots) /\ IsFiniteSet(Slots) /\ IsFiniteSet(Loggers)
    /\ LogSize \in Nat \ {0} /\ WatcherSize \in Nat \ {0}
    /\ NextLogger \in [Loggers \cup {NoLogger} -> Loggers \cup {NoLogger}]

VARIABLES
    logbuf,            \* entries of each worker's buffer
    eflags,            \* what is to be logged, as each logger knows it
    written, dropped,  \* counters of each logger
    gid,               \* logger_gid
    log_pc,            \* a worker in the middle of logger_log or logger_add_watcher
    stack_lock,        \* owner of logger_stack_lock
    watchers,          \* the watcher in each slot
    revents,           \* watchers_pollfds, which are kept between calls
    sockets,           \* what is known of the client in each slot
    lpc,               \* where the logger thread is
    stats,             \* log_worker_written, log_worker_dropped
    added, changes,    \* watchers, and changes of their clients, so far
    logged,            \* entries each worker has written, and lost
    freed

loggerVars == <<logbuf, eflags, written, dropped, gid, log_pc, stack_lock, watchers, revents,
                sockets, lpc, stats, added, changes, logged, freed>>

NoWatcher == [eflags |-> {}, buf |-> <<>>, failed_flush |-> FALSE, skipped |-> 0, due |-> 0]

NoSocket == [state |-> "none", got |-> <<>>]
Idle == [at |-> "sleep", l |-> NoLogger, size |-> 0, pos |-> 0, slot |-> 0]

Used == {x \in Slots : watchers[x] # NoWatcher}

LoggerInit ==
    /\ logbuf = [w \in Loggers |-> <<>>]
    /\ eflags = [w \in Loggers |-> {}]
    /\ written = [w \in Loggers |-> 0]
    /\ dropped = [w \in Loggers |-> 0]
    /\ gid = 0
    /\ log_pc = [w \in Loggers |-> [at |-> "run", old |-> 0]]
    /\ stack_lock = "free"
    /\ watchers = [x \in Slots |-> NoWatcher]
    /\ revents = [x \in Slots |-> "none"]
    /\ sockets = [x \in Slots |-> NoSocket]
    /\ lpc = Idle
    /\ stats = [written |-> 0, dropped |-> 0]
    /\ added = 0 /\ changes = 0
    /\ logged = [w \in Loggers |-> [written |-> 0, dropped |-> 0]]
    /\ freed = FALSE

logState == <<logbuf, eflags, written, dropped, gid, logged>>
watching == <<watchers, revents, sockets>>

-----------------------------------------------------------------------------
(* Workers.                                                                *)

Running(w) == log_pc[w].at = "run" /\ ~freed
Sum(f) == MapThenSumSet(LAMBDA x : f[x], DOMAIN f)
Attempts == Sum([w \in Loggers |-> logged[w].written + logged[w].dropped])

logger_get_gid == gid + 1

\* What the helpers of logger_log write into an entry.
NewEntry(f) == [gid |-> logger_get_gid, flag |-> f]

\* LOGGER_LOG reads the flags without a lock.
logger_log(w) ==
    /\ Running(w) /\ Attempts < MaxEntries /\ Len(logbuf[w]) < LogSize
    /\ \E f \in eflags[w] : logbuf' = [logbuf EXCEPT ![w] = Append(@, NewEntry(f))]
    /\ gid' = logger_get_gid
    /\ written' = [written EXCEPT ![w] = @ + 1]
    /\ logged' = [logged EXCEPT ![w].written = @ + 1]
    /\ UNCHANGED <<eflags, dropped, log_pc, stack_lock, watching, lpc, stats, added, changes, freed>>

\* There is no room: dropped is counted after the mutex has been released.
LogRefused(w) ==
    /\ Running(w) /\ Attempts < MaxEntries /\ eflags[w] # {} /\ logbuf[w] # <<>>
    /\ log_pc' = [log_pc EXCEPT ![w] = [at |-> "drop", old |-> dropped[w]]]
    /\ logged' = [logged EXCEPT ![w].dropped = @ + 1]
    /\ UNCHANGED <<logbuf, eflags, written, dropped, gid, stack_lock, watching, lpc, stats, added,
                   changes, freed>>

LogDropped(w) ==
    /\ log_pc[w].at = "drop" /\ ~freed
    /\ dropped' = [dropped EXCEPT ![w] = log_pc[w].old + 1]
    /\ log_pc' = [log_pc EXCEPT ![w] = [at |-> "run", old |-> 0]]
    /\ UNCHANGED <<logbuf, eflags, written, gid, logged, stack_lock, watching, lpc, stats, added,
                   changes, freed>>

logger_set_flags(ws) == [w \in Loggers |-> UNION {ws[x].eflags : x \in Slots}]

\* A watcher starts with the line OK.
logger_add_watcher(w) ==
    LET x == CHOOSE x \in Slots \ Used : \A y \in Slots \ Used : x <= y
    IN  /\ Running(w) /\ stack_lock = "free" /\ Used # Slots /\ added < MaxWatchers
        /\ \E fs \in SUBSET Flags \ {{}} :
             watchers' = [watchers EXCEPT ![x] =
               [NoWatcher EXCEPT !.eflags = fs, !.buf = <<[gid |-> 0, from |-> w, n |-> 0]>>]]
        /\ sockets' = [sockets EXCEPT ![x] = [state |-> "open", got |-> <<>>]]
        /\ eflags' = logger_set_flags(watchers')
        /\ added' = added + 1
        /\ UNCHANGED <<logbuf, written, dropped, gid, logged, log_pc, stack_lock, revents, lpc,
                       stats, changes, freed>>

\* The lock is not released.
TooManyWatchers(w) ==
    /\ Running(w) /\ stack_lock = "free" /\ Used = Slots /\ added < MaxWatchers
    /\ stack_lock' = w
    /\ added' = added + 1
    /\ UNCHANGED <<logState, log_pc, watching, lpc, stats, changes, freed>>

\* A client stops or starts reading, or hangs up.
Client(x) ==
    /\ watchers[x] # NoWatcher /\ ~freed
    /\ \E new \in {"open", "full", "gone"} \ {sockets[x].state} :
         /\ sockets[x].state # "gone"
         /\ sockets' = [sockets EXCEPT ![x].state = new]
    /\ changes < MaxChanges /\ changes' = changes + 1
    /\ UNCHANGED <<logState, log_pc, stack_lock, watchers, revents, lpc, stats, added, freed>>

-----------------------------------------------------------------------------
(* logger_thread_poll_watchers.  pollfds is filled from its first entry    *)
(* with the watchers that are to be polled, and read with one entry for    *)
(* every watcher: the two agree when all are polled.                       *)

Rank(S, x) == Cardinality({y \in S : y <= x})

Polled(force, which) ==
    {x \in Used : (which = 0 \/ x = which) /\ (watchers[x].buf # <<>> \/ force)}

PollResult(x) ==
    IF watchers[x].buf # <<>>
      THEN [open |-> "out", full |-> "none", gone |-> "hup"][sockets[x].state]
      ELSE IF sockets[x].state = "gone" THEN "in" ELSE "none"

Revents(P) ==
    [n \in Slots |-> IF \E x \in P : Rank(P, x) = n
                       THEN PollResult(CHOOSE x \in P : Rank(P, x) = n) ELSE revents[n]]

\* What is done to watcher x, given the entry of pollfds it is matched with.
Dies(x, r) ==
    \/ r = "in" /\ sockets[x].state = "gone"
    \/ r = "hup" /\ watchers[x].buf # <<>>
    \/ r = "out" /\ watchers[x].buf # <<>> /\ sockets[x].state = "gone"
Flushes(x, r) == r = "out" /\ watchers[x].buf # <<>> /\ sockets[x].state = "open"

Prefix(s, n) == IF n < Len(s) THEN n ELSE Len(s)

\* rev is what pollfds holds after the call of poll, much what a write takes.
AfterPoll(which, rev, much) ==
    LET r(x) == rev[Rank(Used, x)]
        cut(x) == Prefix(watchers[x].buf, much)
        reset(x) == which = 0 \/ x = which
    IN  [watchers |-> [x \in Slots |->
             IF x \notin Used \/ Dies(x, r(x)) THEN NoWatcher
             ELSE [watchers[x] EXCEPT
                     !.failed_flush = @ /\ ~reset(x),
                     !.buf = IF Flushes(x, r(x)) THEN SubSeq(@, cut(x) + 1, Len(@)) ELSE @]],
         sockets |-> [x \in Slots |->
             IF x \notin Used \/ Dies(x, r(x)) THEN NoSocket
             ELSE IF Flushes(x, r(x))
               THEN [sockets[x] EXCEPT !.got = @ \o SubSeq(watchers[x].buf, 1, cut(x))]
               ELSE sockets[x]]]

\* logger_thread_close_watcher looks at the flags again.
FlagsAfter(rev) ==
    IF \E x \in Used : Dies(x, rev[Rank(Used, x)]) THEN logger_set_flags(watchers') ELSE eflags
Much == {1, WatcherSize}

-----------------------------------------------------------------------------
(* logger_thread.                                                          *)

Doing(at) == lpc.at = at /\ ~freed
LogRest == <<gid, logged, log_pc, added, changes>>
ToNext(l) == IF NextLogger[l] = NoLogger THEN [Idle EXCEPT !.at = "poll"]
             ELSE [Idle EXCEPT !.at = "peek", !.l = NextLogger[l]]

StartPass ==
    /\ Doing("sleep") /\ stack_lock = "free"
    /\ stack_lock' = "logger"
    /\ lpc' = ToNext(NoLogger)
    /\ UNCHANGED <<logState, log_pc, watching, stats, added, changes, freed>>

Peek ==
    /\ Doing("peek")
    /\ IF logbuf[lpc.l] = <<>> THEN lpc' = ToNext(lpc.l)
       ELSE \E n \in 1 .. Len(logbuf[lpc.l]) :
              lpc' = [lpc EXCEPT !.at = "entry", !.size = n, !.pos = 1, !.slot = 1]
    /\ UNCHANGED <<logState, log_pc, stack_lock, watching, stats, added, changes, freed>>

Entry == logbuf[lpc.l][lpc.pos]
AfterSlot == IF lpc.slot = Cardinality(Slots) THEN [lpc EXCEPT !.pos = @ + 1, !.slot = 1]
             ELSE [lpc EXCEPT !.slot = @ + 1]

\* The text the entry is turned into names it and the worker it is from.
ParsedLine == [gid |-> Entry.gid, from |-> lpc.l, n |-> 0]
Writing == Doing("entry") /\ lpc.pos <= lpc.size /\ Used # {}
Wants(x) == x \in Used /\ Entry.flag \in watchers[x].eflags

NotWanted ==
    /\ Writing /\ ~Wants(lpc.slot)
    /\ lpc' = AfterSlot
    /\ UNCHANGED <<logState, log_pc, stack_lock, watching, stats, added, changes, freed>>

\* The line, and a line about what was skipped.
HasRoom(x) == Len(watchers[x].buf) <= WatcherSize - 2

\* Mutant: the lines skipped are not announced.
SkippedSilently(w) == <<>>

SkipLine(w) == IF w.skipped > 0 THEN <<[gid |-> 0, from |-> lpc.l, n |-> w.skipped]>> ELSE <<>>

WriteLine ==
    LET x == lpc.slot
        w == watchers[x]
    IN  /\ Writing /\ Wants(x) /\ ~w.failed_flush /\ HasRoom(x)
        /\ watchers' = [watchers EXCEPT ![x] =
             [w EXCEPT !.buf = @ \o SkipLine(w) \o <<ParsedLine>>, !.skipped = 0, !.due = @ + 1]]
        /\ lpc' = AfterSlot
        /\ UNCHANGED <<logState, log_pc, stack_lock, revents, sockets, stats, added, changes, freed>>

SkipEntry ==
    LET x == lpc.slot
    IN  /\ Writing /\ Wants(x) /\ watchers[x].failed_flush
        /\ watchers' = [watchers EXCEPT ![x].skipped = @ + 1, ![x].due = @ + 1]
        /\ lpc' = AfterSlot
        /\ UNCHANGED <<logState, log_pc, stack_lock, revents, sockets, stats, added, changes, freed>>

\* Mutant: the loop goes on although nothing could be written.
NeverFails(flushed) == FALSE

FailsFlush(flushed) == ~flushed

\* The buffer of the watcher is full: it is flushed.  If the watcher is closed
\* there, its memory is used nevertheless.
FlushWatcher ==
    LET x == lpc.slot
        rev == Revents(Polled(FALSE, x))
        flushed == \E y \in Used : Flushes(y, rev[Rank(Used, y)])
    IN  /\ Writing /\ Wants(x) /\ ~watchers[x].failed_flush /\ watchers[x].buf # <<>>
        /\ IF Dies(x, rev[Rank(Used, x)])
             THEN freed' = TRUE /\ UNCHANGED <<watching, eflags>>
             ELSE /\ \E much \in Much :
                       LET a == AfterPoll(x, rev, much)
                       IN  /\ watchers' = [a.watchers EXCEPT ![x].failed_flush = FailsFlush(flushed)]
                           /\ sockets' = a.sockets
                  /\ revents' = rev
                  /\ eflags' = FlagsAfter(rev)
                  /\ UNCHANGED freed
        /\ UNCHANGED <<logbuf, written, dropped, stack_lock, lpc, stats, LogRest>>

Rest(l) == SubSeq(logbuf[l], lpc.size + 1, Len(logbuf[l]))

ResetCount(l) == [written EXCEPT ![l] = 0]

\* What was looked at is consumed and the counters are taken over.
Consume ==
    LET l == lpc.l
    IN  /\ Doing("entry") /\ (lpc.pos > lpc.size \/ Used = {})
        /\ logbuf' = [logbuf EXCEPT ![l] = Rest(l)]
        /\ stats' = [written |-> stats.written + written[l], dropped |-> stats.dropped + dropped[l]]
        /\ written' = ResetCount(l)
        /\ dropped' = [dropped EXCEPT ![l] = 0]
        /\ lpc' = ToNext(l)
        /\ UNCHANGED <<eflags, stack_lock, watching, freed, LogRest>>

PollWatchers ==
    LET P == Polled(TRUE, 0)
        rev == Revents(P)
    IN  /\ Doing("poll")
        /\ IF P = {} THEN UNCHANGED <<watching, eflags>>
           ELSE \E much \in Much :
                  /\ watchers' = AfterPoll(0, rev, much).watchers
                  /\ sockets' = AfterPoll(0, rev, much).sockets
                  /\ revents' = rev
                  /\ eflags' = FlagsAfter(rev)
        /\ lpc' = Idle
        /\ stack_lock' = "free"
        /\ UNCHANGED <<logbuf, written, dropped, stats, freed, LogRest>>

logger_thread ==
    \/ StartPass \/ Peek \/ NotWanted \/ WriteLine \/ SkipEntry \/ FlushWatcher \/ Consume
    \/ PollWatchers

LoggerNext ==
    \/ logger_thread
    \/ \E w \in Loggers : \/ logger_log(w) \/ LogRefused(w) \/ LogDropped(w)
                          \/ logger_add_watcher(w) \/ TooManyWatchers(w)
    \/ \E x \in Slots : Client(x)

LoggerSpec == LoggerInit /\ [][LoggerNext]_loggerVars

\* The logger thread sleeps for a bounded time only.
LoggerFairSpec == LoggerSpec /\ WF_loggerVars(logger_thread)

-----------------------------------------------------------------------------
\* The sets the values stay in; no buffer holds more than its size.
LoggerTypeOK ==
    /\ \A w \in Loggers : Len(logbuf[w]) <= LogSize /\ eflags[w] \subseteq Flags
    /\ \A x \in Slots : /\ Len(watchers[x].buf) <= WatcherSize
                        /\ watchers[x].skipped \in Nat /\ watchers[x].failed_flush \in BOOLEAN
                        /\ sockets[x].state \in {"none", "open", "full", "gone"}
    /\ stack_lock \in Loggers \cup {"free", "logger"}
    /\ lpc.pos <= lpc.size + 1

\* All that a watcher has been given, in order.
Stream(x) == sockets[x].got \o watchers[x].buf
Lines(x) == {n \in 1 .. Len(Stream(x)) : Stream(x)[n].gid # 0}

\* No entry that a watcher asked for disappears silently: what it did not get
\* is announced to it, or will be with the next line it gets.
SkipsAnnounced ==
    \A x \in Used :
      watchers[x].due = Cardinality(Lines(x)) + watchers[x].skipped
                          + Sum([n \in 1 .. Len(Stream(x)) |-> Stream(x)[n].n])

\* A watcher gets the entries of one worker in the order in which they were
\* written, none twice, although buffers are read and written in pieces.
WorkerOrderKept ==
    \A x \in Used : \A m, n \in Lines(x) :
      m < n /\ Stream(x)[m].from = Stream(x)[n].from => Stream(x)[m].gid < Stream(x)[n].gid

\* When nobody holds the lock, workers log exactly what some watcher wants:
\* closing a watcher in the middle of a pass leaves no flag behind, and does
\* not take one from another watcher.
FlagsExact ==
    stack_lock = "free" =>
      \A w \in Loggers : eflags[w] = UNION {watchers[x].eflags : x \in Used}

\* log_worker_written counts every entry once, although the logger thread
\* resets the worker's counter; log_worker_dropped may be wrong, since a
\* worker changes it without the mutex.
WrittenExact ==
    Sum([w \in Loggers |-> logged[w].written]) = stats.written + Sum(written)

\* The log a watcher sees is true: in order, complete or said to be
\* incomplete, made for the watchers there are, and counted right.
WatchersServed == LoggerTypeOK /\ SkipsAnnounced /\ WorkerOrderKept /\ FlagsExact /\ WrittenExact

\* Entries leave a worker's buffer, whatever the watchers' clients do; unless
\* the lock was lost with one watcher too many.
Drains ==
    \A w \in Loggers :
      logbuf[w] # <<>> ~> logbuf[w] = <<>> \/ stack_lock \in Loggers \/ freed

-----------------------------------------------------------------------------
(* Statements of comments that the code does not keep.                     *)

\* "Closing dead watcher": a watcher is closed only when its client has gone.
OnlyDeadClosed ==
    [][\A x \in Used : watchers'[x] = NoWatcher => sockets[x].state = "gone"]_loggerVars
=============================================================================
