------------------------------- MODULE Server -------------------------------
(***************************************************************************)
(* The memcached server: clients, workers that serve their connections in  *)
(* either protocol, and the cache they share.                              *)
(***************************************************************************)
EXTENDS Binary

CONSTANTS
    SaslMenus,         \* the menus with which SASL is enabled
    Pool,              \* the items that fit into memory, for each menu
    MaxTime            \* the last second, for each menu

\* A request has the words its command needs, else it is "unknown".
Requests == UNION {UNION {UNION {Menus[m][c][n] : n \in DOMAIN Menus[m][c]} : c \in Conns} : m \in DOMAIN Menus}
ASSUME MenusAssumption ==
    /\ \A m \in DOMAIN Menus : \A c \in Conns : Menus[m][c] \in Seq(SUBSET Requests)
    /\ \A r \in Requests :
         /\ r.keys \in Seq(Keys \cup {LongKey}) /\ r.keys # <<>>
         /\ {r.parts, r.frags, r.exp} \subseteq Nat
         /\ r.proto \in {"ascii", "binary"}
         /\ r.proto = "binary" => r.op \in NoKeyOps \cup DOMAIN Substate
ASSUME PoolAssumption == \A m \in DOMAIN Menus : Pool[m] \subseteq Items

ServerInit ==
    /\ menu \in DOMAIN Menus
    /\ store = StoreInit(Pool[menu])
    /\ conn = [c \in Conns |-> conn_new]
    /\ driven = {}
    /\ reqs = [c \in Conns |-> <<>>]
    /\ script = [c \in Conns |-> <<>>]
    /\ sock = [c \in Conns |-> <<>>]
    /\ eof = [c \in Conns |-> FALSE]
    /\ sent = [c \in Conns |-> <<>>]
    /\ seen = [c \in Conns |-> [cas |-> 0, val |-> <<>>]]
    /\ lost = [i \in Items |-> 0]
    /\ faults = 0
    /\ ooms = 0
    /\ settings = [sasl |-> menu \in SaslMenus, flush_enabled |-> TRUE,
                   detail_enabled |-> FALSE, value |-> [x \in DOMAIN Accepted |-> 0]]

\* The clock handler.
Tick ==
    /\ store.now < MaxTime[menu]
    /\ store' = [store EXCEPT !.now = @ + 1]
    /\ UNCHANGED <<conn, driven, net, client, lost, faults, ooms, settings>>

drive_machine(c) ==
    \/ NewCmd(c) \/ Waiting(c) \/ Read(c) \/ ReadNoMemory(c)
    \/ NreadBuffered(c) \/ NreadSocket(c) \/ NreadNoMemory(c) \/ Swallow(c)
    \/ TransmitSome(c) \/ TransmitBlocked(c) \/ TransmitComplete(c)
    \/ conn_close(c) \/ Watch(c)
    \/ AsciiStep(c) \/ BinaryStep(c)

\* libevent or the loop of drive_machine goes on with a connection, or the
\* side thread that has it does.
Serve(c) == event_handler(c) \/ drive_machine(c) \/ SideThread(c)

ServerNext ==
    \/ \E c \in Conns : Serve(c) \/ Send(c) \/ Arrive(c) \/ HangUp(c)
    \/ Tick

ServerSpec == ServerInit /\ [][ServerNext]_connVars

\* libevent reports a ready descriptor, a worker that serves a connection goes
\* on, and what has been sent arrives.
ServerFairness ==
    \A c \in Conns : WF_connVars(Serve(c)) /\ WF_connVars(Arrive(c))

ServerFairSpec == ServerSpec /\ ServerFairness

-----------------------------------------------------------------------------
States == {"new_cmd", "waiting", "read", "parse_cmd", "nread", "swallow", "write", "mwrite",
           "closing", "closed", "watch", "hung"}

\* The sets the values stay in; what is still to be read of a request is
\* never negative, although data comes in pieces of any length.
ServerTypeOK ==
    /\ \A c \in Conns :
         /\ conn[c].state \in States
         /\ conn[c].proto \in {"negotiating", "ascii", "binary"}
         /\ conn[c].rlbytes \in Nat /\ conn[c].sbytes \in Nat
         /\ conn[c].item \in Items \cup {None}
         /\ conn[c].nreqs \in 0 .. ReqsPerEvent
         /\ conn[c].ev \in {"read", "write", "none"}
    /\ store.link \in [Keys -> Items \cup {None}]
    /\ \A i \in DOMAIN store.item : store.item[i].ref \in Nat
    /\ driven \subseteq Conns
    /\ faults + ooms \in 0 .. MaxFailures[menu]

\* The references to an item that somebody will give back.
Collecting(d) == d.state = "parse_cmd" /\ d.cmd = "get"
Places(d) == -1 .. (IF Collecting(d) THEN d.hits ELSE d.ileft)
References(i) == UNION {{c} \X {n \in Places(conn[c]) : RefAt(conn[c], n) = i} : c \in Conns}

\* refcount is the link plus the references of connections (item, ilist, and
\* an item about to be unlinked): no error path, hang-up or interleaving
\* frees an item in use, and none keeps one for ever, but for the early
\* return of do_add_delta and the refused chunked item of SASL (lost).
RefcountExact ==
    (ooms = 0 /\ \A c \in Conns : conn[c].state # "hung") =>
      \A i \in DOMAIN store.item :
        store.item[i].ref = (IF Linked(store, i) THEN 1 ELSE 0) + lost[i]
                              + Cardinality(References(i))

\* A value that is being sent is the one that was looked up: incr writes into
\* an item only when nobody else refers to it, and no item of an answer is
\* freed and used again before the answer has been sent.
ReplyIntact ==
    ooms = 0 =>
      \A c \in Conns : conn[c].state \in {"parse_cmd", "mwrite"} =>
        \A n \in 1 .. Len(conn[c].iov) :
          LET p == conn[c].iov[n]
          IN  p.it # None => store.item[p.it].ref > 0 /\ store.item[p.it].val = p.val

\* The data block of a request is never taken for a command, unless its
\* command line was refused before its length was known, or it was refused
\* for want of memory with noreply (see DataSwallowed).
Refused(r) == r.bad \/ LongKey \in {r.keys[n] : n \in 1 .. Len(r.keys)}
FramingKept ==
    \A c \in Conns : conn[c].state = "parse_cmd" /\ conn[c].cmd = "none" /\ conn[c].rbuf # <<>>
      => \/ First(c).part \in Heads
         \/ Refused(Request(c))
         \/ Request(c).proto = "ascii" /\ Request(c).quiet

\* Data that the server waits for, to store or to throw away, is the data of
\* the request it serves, never the next request.
ReadsOwnData ==
    \A c \in Conns : conn[c].state \in {"nread", "swallow"} =>
      LET want == IF conn[c].state = "nread" THEN conn[c].rlbytes ELSE conn[c].sbytes
          have == conn[c].rbuf \o sock[c] \o script[c]
      IN  \A n \in 1 .. Len(have) :
            n <= want => have[n].part \notin Heads /\ have[n].req = conn[c].req

\* Commands are read as commands and data as data, after every error and
\* however the stream was cut up.
StreamInStep == FramingKept /\ ReadsOwnData

\* The final piece of a reply.
Finals(c) == SelectSeq(sent[c], LAMBDA p : p.it = None /\ p.what # "VALUE")

\* Replies come in the order of the requests, and a request whose data was
\* not taken for commands has one reply at most.
OrderedReplies ==
    \A c \in Conns :
      /\ \A m, n \in 1 .. Len(sent[c]) : m < n => sent[c][m].to <= sent[c][n].to
      /\ \A m, n \in 1 .. Len(Finals(c)) :
           m < n /\ Finals(c)[m].to = Finals(c)[n].to =>
             LET r == reqs[c][Finals(c)[m].to]
             IN  Refused(r) /\ r.op \in StoreOps

Silent(r) == r.quiet \/ r.op = "quit"
Idle(c) ==
    /\ conn[c].state \in {"read", "new_cmd"} /\ c \notin driven /\ ~eof[c]
    /\ conn[c].rbuf = <<>> /\ sock[c] = <<>> /\ script[c] = <<>>

\* A connection that waits for its next request has answered all the others;
\* a quiet request of the text protocol is not answered, unless its data was
\* taken for a command.
NoneForgotten ==
    \A c \in Conns : Idle(c) =>
      \A n \in 1 .. Len(reqs[c]) :
        ~Silent(reqs[c][n]) => \E m \in 1 .. Len(Finals(c)) : Finals(c)[m].to = n

\* noreply is kept for the request that asked for it: nothing is sent for it
\* but the complaint about data taken for a command, or about memory.
NoreplyHonoured ==
    \A c \in Conns : \A m \in 1 .. Len(sent[c]) :
      LET r == reqs[c][sent[c][m].to]
      IN  r.proto = "ascii" /\ r.quiet =>
            \/ r.op \in StoreOps /\ sent[c][m].what = "ERROR"
            \/ sent[c][m].what = "SERVER_ERROR reading"

\* A client can pair replies with requests by counting: each request has its
\* reply, in order, except where noreply or quiet says otherwise.
RepliesMatch == ServerTypeOK /\ OrderedReplies /\ NoneForgotten /\ NoreplyHonoured

\* cas replaces the value the client has seen and no other: if it succeeds,
\* the value it replaces is the one received with that cas id, whatever other
\* clients, appends and increments (also in place) did in between.
CasStores(c) ==
    /\ conn[c].state = "nread" /\ conn[c].cmd = "cas"
    /\ store'.link[store.item[conn[c].item].key] = conn[c].item
CasProtects ==
    [][\A c \in Conns : CasStores(c) =>
         store.item[store.link[store.item[conn[c].item].key]].val = seen[c].val]_connVars

\* What was stored before an immediate flush_all is not found again, also
\* when it was stored in the same second and when it was fetched since,
\* unless a later flush_all has put the flush off (see FlushIsFinal).
Found(c) ==
    /\ Len(conn'[c].iov) > Len(conn[c].iov)
    /\ conn'[c].iov[Len(conn'[c].iov)].it # None
FlushHides ==
    [][\A c \in Conns : Found(c) =>
         \/ conn'[c].iov[Len(conn'[c].iov)].cas > store.oldest_cas
         \/ store.oldest_live > store.now]_connVars

\* Every connection gets back to waiting with everything read, or is closed:
\* a request that is complete in the buffer is served although the socket may
\* have no more to read (the yield after reqs_per_event asks for a write
\* event), however the request was cut up, and also after a blocked write.
\* Only a request sent behind a metadump waits for more to arrive, since
\* conn_worker_readd asks for a read event with a request in the buffer.
BehindDump(c) == conn[c].cmd = "metadump" /\ conn[c].state = "new_cmd" /\ c \notin driven
Serves ==
    \A c \in Conns : []<>(Idle(c) \/ conn[c].state \in {"closed", "hung"} \/ BehindDump(c))

-----------------------------------------------------------------------------
(* Statements of comments and documents that the code does not keep.       *)

\* "swallow the data line": data of a request that was refused for want of
\* memory is thrown away, with noreply too.
DataSwallowed ==
    \A c \in Conns : conn[c].state = "parse_cmd" /\ conn[c].cmd = "none" /\ conn[c].rbuf # <<>>
      => First(c).part \in Heads \/ Refused(Request(c))

\* After flush_all none of the items that existed is returned.
FlushIsFinal ==
    [][\A c \in Conns : Found(c) =>
         conn'[c].iov[Len(conn'[c].iov)].cas > store.oldest_cas]_connVars
=============================================================================
