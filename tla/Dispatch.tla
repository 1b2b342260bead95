------------------------------ MODULE Dispatch ------------------------------
(***************************************************************************)
(* How connections of the memcached server get to their worker and away:   *)
(* the listener, the queue and the pipe of each worker, the thread that    *)
(* looks for idle connections, a side thread (logger or crawler) that      *)
(* borrows connections, and the end of a connection.                       *)
(*                                                                         *)
(* conns is indexed by file descriptor, and the kernel gives a descriptor  *)
(* away again as soon as it is closed; so the steps of conn_close are      *)
(* taken one by one.  What the C code leaves undefined ends a behaviour,   *)
(* with its reason in race.                                                *)
(***************************************************************************)
EXTENDS Integers, Sequences, FiniteSets

CONSTANTS
    Fds, Workers, NoFd,
    NextWorker,       \* the order of the workers
    IdleTimeout,      \* settings.idle_timeout
    MaxConns,         \* settings.maxconns - 1, with maxconns_fast
    PipeSize,         \* notifications that fit into a pipe
    MaxConnects,      \* clients that connect, in a run
    MaxSeconds        \* length of a run

ASSUME DispatchAssumption ==
    /\ IsFiniteSet(Fds) /\ NoFd \notin Fds
    /\ IsFiniteSet(Workers) /\ Workers # {} /\ NextWorker \in [Workers -> Workers]
    /\ IdleTimeout \in Nat /\ MaxConns \in Nat /\ PipeSize \in Nat \ {0}

VARIABLES
    clients,          \* connections that wait to be accepted
    connects,         \* and all there have been
    listening,        \* the listening socket is watched
    allow_new_conns,
    timer,            \* maxconnsevent is set
    last_thread,
    fds,              \* open descriptors
    conns,            \* the conn structure of each descriptor
    queue, pipe,      \* new_conn_queue and the notifications of each worker
    pc,               \* what the main and the side thread and each worker does
    cursor,           \* where conn_timeout_thread is
    curr_conns, current_time,
    uncounted,        \* connections that were closed and not counted off
    closedSince,      \* a worker has closed a connection since the listener stopped
    race

dispatchVars == <<clients, connects, listening, allow_new_conns, timer, last_thread, fds, conns,
                  queue, pipe, pc, cursor, curr_conns, uncounted, current_time, closedSince, race>>

Main == "main"
Side == "side"
Threads == Workers \cup {Main, Side}
ASSUME ThreadsAssumption == Main \notin Workers /\ Side \notin Workers
Loop == [at |-> "loop", fd |-> NoFd, to |-> NoFd]
At(t, at) == pc[t].at = at /\ race = "none"
Go(t, at, fd, to) == pc' = [pc EXCEPT ![t] = [at |-> at, fd |-> fd, to |-> to]]
Back(t) == pc' = [pc EXCEPT ![t] = Loop]

NoConn == [state |-> "none", thread |-> NoFd, last_cmd_time |-> 0]

DispatchInit ==
    /\ clients = 0 /\ connects = 0
    /\ listening = TRUE /\ allow_new_conns = TRUE /\ timer = FALSE
    /\ last_thread = CHOOSE w \in Workers : TRUE
    /\ fds = {}
    /\ conns = [f \in Fds |-> NoConn]
    /\ queue = [w \in Workers |-> <<>>]
    /\ pipe = [w \in Workers |-> <<>>]
    /\ pc = [t \in Threads |-> Loop]
    /\ cursor = {}
    /\ curr_conns = 0 /\ uncounted = 0 /\ current_time = 0
    /\ closedSince = FALSE /\ race = "none"

listener == <<clients, connects, listening, allow_new_conns, timer, closedSince>>
links == <<last_thread, queue, pipe>>
table == <<fds, conns, curr_conns, uncounted>>
clock == <<cursor, current_time>>

-----------------------------------------------------------------------------
(* The main thread: conn_listening, accept_new_conns and its timer.        *)

\* accept gives a descriptor, which goes to the next worker, or with too many
\* connections is closed at once.
Accept ==
    /\ At(Main, "loop") /\ listening /\ clients > 0 /\ fds # Fds
    /\ clients' = clients - 1
    /\ IF curr_conns >= MaxConns
         THEN UNCHANGED <<fds, last_thread, pc>>
         ELSE \E f \in Fds \ fds :
                /\ fds' = fds \cup {f}
                /\ last_thread' = NextWorker[last_thread]
                /\ Go(Main, "push", f, NextWorker[last_thread])
    /\ UNCHANGED <<connects, listening, allow_new_conns, timer, closedSince, queue, pipe, conns,
                   curr_conns, uncounted, clock, race>>

\* The same without a descriptor to be had (EMFILE).
AcceptFails ==
    /\ At(Main, "loop") /\ listening /\ clients > 0 /\ fds = Fds
    /\ Go(Main, "refuse", NoFd, NoFd)
    /\ UNCHANGED <<listener, links, table, clock, race>>

\* do_accept_new_conns(false): allow_new_conns is set last.
StopListening ==
    /\ At(Main, "refuse")
    /\ listening' = FALSE /\ allow_new_conns' = FALSE /\ timer' = TRUE /\ closedSince' = FALSE
    /\ Back(Main)
    /\ UNCHANGED <<clients, connects, links, table, clock, race>>

maxconns_handler ==
    /\ At(Main, "loop") /\ timer /\ allow_new_conns
    /\ timer' = FALSE /\ listening' = TRUE
    /\ UNCHANGED <<clients, connects, allow_new_conns, closedSince, links, table, clock, pc, race>>

-----------------------------------------------------------------------------
(* Handing a connection over: an item on the queue, then a byte in the     *)
(* pipe.  There is no memory for the item: the descriptor is closed.       *)

Room(w) == Len(pipe[w]) < PipeSize

Notify(t, msg) ==
    LET w == pc[t].to
    IN  /\ At(t, "write") /\ Room(w)
        /\ pipe' = [pipe EXCEPT ![w] = Append(@, [msg |-> msg, fd |-> NoFd])]
        /\ Back(t)
        /\ UNCHANGED <<listener, last_thread, queue, table, clock, race>>

Abandon(f) == fds' = fds \ {f}

dispatch_conn_new ==
    LET f == pc[Main].fd
        w == pc[Main].to
    IN  /\ At(Main, "push")
        /\ \/ /\ queue' = [queue EXCEPT ![w] = Append(@, [kind |-> "new", fd |-> f])]
              /\ Go(Main, "write", f, w)
              /\ UNCHANGED fds
           \/ /\ Abandon(f)
              /\ Back(Main)
              /\ UNCHANGED queue
        /\ UNCHANGED <<listener, last_thread, pipe, conns, curr_conns, uncounted, clock, race>>

\* Without memory the connection is closed in haste, and stays counted.
redispatch_conn ==
    /\ At(Side, "loop")
    /\ \E f \in Fds :
         LET w == conns[f].thread
         IN  /\ conns[f].state = "watch"
             /\ \/ /\ queue' = [queue EXCEPT ![w] = Append(@, [kind |-> "again", fd |-> f])]
                   /\ conns' = [conns EXCEPT ![f].state = "queued"]
                   /\ Go(Side, "write", f, w)
                   /\ UNCHANGED <<fds, uncounted>>
                \/ /\ conns' = [conns EXCEPT ![f].state = "closed"]
                   /\ fds' = fds \ {f}
                   /\ uncounted' = uncounted + 1
                   /\ UNCHANGED <<queue, pc>>
    /\ UNCHANGED <<listener, last_thread, pipe, curr_conns, clock, race>>

-----------------------------------------------------------------------------
(* The end of a connection: marked closed, its descriptor given back, the  *)
(* listener told (not by a side thread), counted off.                      *)

\* Mutant: the descriptor is closed before the connection is marked.
CloseOrderSwapped(t) == <<"close", "mark", "allow", "count">>

CloseOrder(t) ==
    IF t = Side THEN <<"mark", "close", "count">> ELSE <<"mark", "close", "allow", "count">>

Closing(t) == pc[t].at \in {"mark", "close", "allow", "count"}
StageOf(t) == CHOOSE n \in 1 .. Len(CloseOrder(t)) : CloseOrder(t)[n] = pc[t].at

\* Mutant: nobody tells the listener.
NotTold(t) == allow_new_conns

Told(t) == pc[t].at = "allow" \/ allow_new_conns

\* Mutant: a side thread does not count.
CountedByWorkers(t) ==
    IF pc[t].at = "count" /\ t # Side THEN curr_conns - 1 ELSE curr_conns

Counted(t) == IF pc[t].at = "count" THEN curr_conns - 1 ELSE curr_conns

\* conn_close and sidethread_conn_close.
conn_close(t) ==
    LET f == pc[t].fd
        n == StageOf(t)
    IN  /\ Closing(t) /\ race = "none"
        /\ conns' = IF pc[t].at = "mark" THEN [conns EXCEPT ![f].state = "closed"] ELSE conns
        /\ fds' = IF pc[t].at = "close" THEN fds \ {f} ELSE fds
        /\ allow_new_conns' = Told(t)
        /\ closedSince' = (closedSince \/ (pc[t].at = "allow" /\ ~listening))
        /\ curr_conns' = Counted(t)
        /\ IF n = Len(CloseOrder(t)) THEN Back(t) ELSE Go(t, CloseOrder(t)[n + 1], f, NoFd)
        /\ UNCHANGED <<clients, connects, listening, timer, links, uncounted, clock, race>>

BeginClose(t, f) == Go(t, CloseOrder(t)[1], f, NoFd)

SideClose ==
    /\ At(Side, "loop")
    /\ \E f \in Fds : conns[f].state = "watch" /\ BeginClose(Side, f)
    /\ UNCHANGED <<listener, links, table, clock, race>>

-----------------------------------------------------------------------------
(* A worker: thread_libevent_process takes a notification from the pipe.   *)

Notified(w, msg) ==
    /\ At(w, "loop") /\ pipe[w] # <<>> /\ Head(pipe[w]).msg = msg
    /\ pipe' = [pipe EXCEPT ![w] = Tail(@)]

\* The byte and the item are of different kinds: item->c is not a connection,
\* or item->transport was not set.
Mixed(w, kind) ==
    /\ Head(queue[w]).kind # kind
    /\ race' = "mixed"
    /\ UNCHANGED <<queue, conns, fds, curr_conns>>

\* 'c': conn_new, which may fail.
NewConnection(w) ==
    LET f == Head(queue[w]).fd
    IN  /\ Notified(w, "c") /\ queue[w] # <<>>
        /\ \/ Mixed(w, "new")
           \/ /\ Head(queue[w]).kind = "new"
              /\ queue' = [queue EXCEPT ![w] = Tail(@)]
              /\ \/ /\ conns' = [conns EXCEPT ![f] =
                          [state |-> "read", thread |-> w, last_cmd_time |-> current_time]]
                    /\ curr_conns' = curr_conns + 1
                    /\ UNCHANGED fds
                 \/ /\ Abandon(f)
                    /\ UNCHANGED <<conns, curr_conns>>
              /\ UNCHANGED race
        /\ UNCHANGED <<listener, last_thread, uncounted, clock, pc>>

\* 'r': conn_worker_readd.
conn_worker_readd(w) ==
    /\ Notified(w, "r") /\ queue[w] # <<>>
    /\ \/ Mixed(w, "again")
       \/ /\ Head(queue[w]).kind = "again"
          /\ queue' = [queue EXCEPT ![w] = Tail(@)]
          /\ conns' = [conns EXCEPT ![Head(queue[w]).fd].state = "read"]
          /\ UNCHANGED <<fds, curr_conns, race>>
    /\ UNCHANGED <<listener, last_thread, uncounted, clock, pc>>

Idles(f) == current_time - conns[f].last_cmd_time > IdleTimeout

\* Mutant: the descriptor in the message is believed.
KickBelieved(f) == conns[f].state # "none"

\* The connection is looked at again: it may have been busy, or closed, or
\* the descriptor may belong to another one by now.
Kick(f) == Idles(f) /\ conns[f].state = "read"

\* 't': conn_close_idle.
conn_close_idle(w) ==
    LET f == Head(pipe[w]).fd
    IN  /\ Notified(w, "t")
        /\ IF ~Kick(f) THEN UNCHANGED <<pc, race>>
           ELSE IF conns[f].thread # w THEN race' = "stray" /\ UNCHANGED pc
           ELSE BeginClose(w, f) /\ UNCHANGED race
        /\ UNCHANGED <<listener, last_thread, queue, table, clock>>

\* A client's request (of the text protocol) is served, its connection given
\* to the side thread, or the client hangs up.
Serve(w) ==
    /\ At(w, "loop")
    /\ \E f \in Fds :
         /\ conns[f].state = "read" /\ conns[f].thread = w
         /\ \/ /\ conns' = [conns EXCEPT ![f].last_cmd_time = current_time]
               /\ UNCHANGED pc
            \/ conns' = [conns EXCEPT ![f].state = "watch"] /\ UNCHANGED pc
            \/ BeginClose(w, f) /\ UNCHANGED conns
    /\ UNCHANGED <<listener, links, fds, curr_conns, uncounted, clock, race>>

-----------------------------------------------------------------------------
(* conn_timeout_thread looks at one descriptor after another, without any  *)
(* lock.                                                                   *)

conn_timeout_thread ==
    /\ race = "none"
    /\ IF cursor = Fds THEN cursor' = {} /\ UNCHANGED pipe
       ELSE \E f \in Fds \ cursor :
              LET w == conns[f].thread
              IN  /\ cursor' = cursor \cup {f}
                  /\ IF conns[f].state = "read" /\ Idles(f)
                       THEN /\ Room(w)
                            /\ pipe' = [pipe EXCEPT ![w] = Append(@, [msg |-> "t", fd |-> f])]
                       ELSE UNCHANGED pipe
    /\ UNCHANGED <<listener, last_thread, queue, table, current_time, pc, race>>

Connect ==
    /\ connects < MaxConnects /\ race = "none"
    /\ clients' = clients + 1 /\ connects' = connects + 1
    /\ UNCHANGED <<listening, allow_new_conns, timer, closedSince, links, table, clock, pc, race>>

Second ==
    /\ current_time < MaxSeconds /\ race = "none"
    /\ current_time' = current_time + 1
    /\ UNCHANGED <<listener, links, table, cursor, pc, race>>

-----------------------------------------------------------------------------
MainStep == Accept \/ AcceptFails \/ StopListening \/ dispatch_conn_new \/ Notify(Main, "c")
WorkerStep(w) == NewConnection(w) \/ conn_worker_readd(w) \/ conn_close_idle(w) \/ conn_close(w)
SideStep == redispatch_conn \/ SideClose \/ Notify(Side, "r") \/ conn_close(Side)

DispatchNext ==
    \/ MainStep \/ maxconns_handler \/ SideStep \/ conn_timeout_thread \/ Connect \/ Second
    \/ \E w \in Workers : WorkerStep(w) \/ Serve(w)

DispatchSpec == DispatchInit /\ [][DispatchNext]_dispatchVars

\* Threads go on with what they are doing, notifications are read, and the
\* timer of the listener fires; clients and the side thread may do nothing.
DispatchFairness ==
    /\ WF_dispatchVars(MainStep) /\ SF_dispatchVars(maxconns_handler)
    /\ WF_dispatchVars(Notify(Side, "r") \/ conn_close(Side))
    /\ \A w \in Workers : WF_dispatchVars(WorkerStep(w))

DispatchFairSpec == DispatchSpec /\ DispatchFairness

-----------------------------------------------------------------------------
\* The sets the values stay in; no thread writes into a full pipe.
DispatchTypeOK ==
    /\ fds \subseteq Fds /\ cursor \subseteq Fds
    /\ last_thread \in Workers
    /\ \A f \in Fds : conns[f].state \in {"none", "read", "watch", "queued", "closed"}
    /\ \A w \in Workers : Len(pipe[w]) <= PipeSize
    /\ clients \in Nat /\ curr_conns \in Nat
    /\ race \in {"none", "mixed", "stray"}

\* The connections that somebody serves or will serve.
Live(f) == conns[f].state \in {"read", "watch", "queued"}

\* A connection that is served has its descriptor: closing the connection
\* that had the descriptor before does not hit it, although conns is indexed
\* by descriptor and nobody holds a lock.
LiveIsOpen == \A f \in Fds : Live(f) => f \in fds

\* An open descriptor belongs to exactly one thread or queue: none is
\* forgotten (an open connection that nobody will ever serve) and none is
\* served twice.
Waits(f) == UNION {{<<w, n>> : n \in {m \in 1 .. Len(queue[w]) : queue[w][m].fd = f}} : w \in Workers}
OneOwner ==
    \A f \in fds :
      Cardinality(Waits(f)) + (IF conns[f].state \in {"read", "watch"} THEN 1 ELSE 0)
        + Cardinality({t \in Threads :
              /\ pc[t].fd = f
              /\ pc[t].at = "push" \/ (pc[t].at = "close" /\ conns[f].state = "closed")}) = 1

\* curr_conns counts the connections that live, those being closed, and those
\* redispatch_conn could not give back.
Marked(t) ==
    Closing(t) /\ \E n \in 1 .. StageOf(t) - 1 : CloseOrder(t)[n] = "mark"
ConnsCounted ==
    curr_conns = uncounted + Cardinality({f \in Fds : Live(f)})
                   + Cardinality({t \in Threads : Marked(t)})

\* A byte for every item: no item stays in a queue without a notification on
\* its way, even when the pipe is full of timeouts.
ItemsAnnounced ==
    race = "none" => \A w \in Workers :
      Len(queue[w]) = Cardinality({n \in 1 .. Len(pipe[w]) : pipe[w][n].msg # "t"})
                        + Cardinality({t \in {Main, Side} : pc[t].at = "write" /\ pc[t].to = w})

\* From accept to close a descriptor is with one thread or queue, its thread
\* will hear of it, and nobody else's close hits it.
DescriptorsOwned == DispatchTypeOK /\ LiveIsOpen /\ OneOwner /\ ItemsAnnounced

\* Only a connection that has been idle is closed as idle, although the
\* notification may be older than the connection.
KickedWasIdle ==
    [][\A w \in Workers :
         (pipe[w] # <<>> /\ Head(pipe[w]).msg = "t" /\ pipe'[w] = Tail(pipe[w])
            /\ pc'[w].at # "loop")
         => Idles(pc'[w].fd) /\ Live(pc'[w].fd)]_dispatchVars

\* When a worker has closed a connection after the listener stopped, the
\* listener starts again.
ListensAgain == closedSince /\ ~listening ~> listening \/ race # "none"

-----------------------------------------------------------------------------
(* Statements of comments that the code does not keep.                     *)

\* A connection is re-dispatched back to its original thread, and a new one
\* dispatched, each as what it is.
NoMixup == race # "mixed"
=============================================================================
