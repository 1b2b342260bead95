-------------------------------- MODULE Conn --------------------------------
(***************************************************************************)
(* The connections of the memcached server (old_memcached.c) and the state *)
(* machine that serves them.                                               *)
(*                                                                         *)
(* A client sends requests; what is on the wire is a sequence of units, a  *)
(* unit being the bytes that arrive together: a piece of a line, the rest  *)
(* of a line, a binary header, the extras and key of a binary request, a   *)
(* piece of a data block.  Lengths (rbytes, rlbytes, sbytes) count units.  *)
(* A worker serves one connection at a time, one iteration of the loop of  *)
(* drive_machine per step, and workers interleave.                         *)
(***************************************************************************)
EXTENDS Store, FiniteSets

CONSTANTS
    Conns, WorkerOf,
    Menus,           \* for each menu and client, the choices for each of its requests
    ReqsPerEvent,    \* settings.reqs_per_event
    LineLimit,       \* units without a newline after which a line is too long
    Cut,             \* the menus whose requests may arrive in pieces
    MaxFailures      \* network failures and failed calls of malloc, for each menu

ASSUME ConnsAssumption == IsFiniteSet(Conns)

VARIABLES
    store,
    conn,            \* the conn structures
    driven,          \* connections that a worker is serving
    menu,            \* the requests each client chooses from
    reqs,            \* requests sent so far on each connection
    script, sock,    \* units on their way, and units that wait in the socket
    eof,             \* the client has closed its end
    sent,            \* pieces of replies the client has received
    seen,            \* the last value received, and its cas id
    lost,            \* references that nobody will give back
    faults, ooms,    \* failures so far
    settings

net == <<menu, reqs, script, sock, eof>>
client == <<sent, seen>>
connVars == <<store, conn, driven, net, client, lost, faults, ooms, settings>>

-----------------------------------------------------------------------------
(* Requests and the units they are sent as.                                *)

StoreOps == {"set", "add", "replace", "append", "prepend", "cas"}
BodyOps == StoreOps \cup {"sasl_auth", "sasl_step"}
NoKeyOps == {"noop", "version", "quit", "list_mechs", "flush0", "unknown"}

Unit(n, part) == [req |-> n, part |-> part]
DataUnits(r, n) == [m \in 1 .. r.parts |-> Unit(n, "data")]

Units(r, n) ==
    IF r.proto = "ascii"
      THEN [m \in 1 .. r.frags |-> Unit(n, "frag")] \o <<Unit(n, "line")>>
             \o (IF r.op \in StoreOps THEN DataUnits(r, n) ELSE <<>>)
      ELSE [m \in 1 .. r.frags |-> Unit(n, "frag")] \o <<Unit(n, "hdr")>>
             \o (IF r.op \in NoKeyOps THEN <<>> ELSE <<Unit(n, "key")>>)
             \o (IF r.op \in BodyOps \cup {"unknown"} THEN DataUnits(r, n) ELSE <<>>)

Heads == {"frag", "line", "hdr"}

-----------------------------------------------------------------------------
(* The conn structure.                                                     *)

conn_new ==
    [state |-> "new_cmd", proto |-> "negotiating", rbuf |-> <<>>,
     rlbytes |-> 0, sbytes |-> 0, item |-> None, ilist |-> <<>>, ileft |-> 0,
     noreply |-> FALSE, cmd |-> "none", substate |-> "none", todo |-> <<>>, hits |-> 0,
     write_and_go |-> "new_cmd", wbuf |-> "", iov |-> <<>>, ev |-> "read",
     nreqs |-> 0, authenticated |-> FALSE,
     req |-> 0,       \* the request being served
     crlf |-> TRUE,   \* the data block ended with \r\n
     purge |-> None]  \* an item a handler has looked up and will unlink

Piece(c, what) == [to |-> c.req, what |-> what, it |-> None, val |-> <<>>, cas |-> 0]
ValuePiece(c, s, i) ==
    [to |-> c.req, what |-> "VALUE", it |-> i, val |-> s.item[i].val, cas |-> s.item[i].cas]

conn_set_state(c, state) == [c EXCEPT !.state = state]
add_iov(c, piece) == [c EXCEPT !.iov = Append(@, piece)]

\* Mutant: noreply is not reset.
OutStringSticky(c, str) ==
    IF c.noreply THEN [c EXCEPT !.state = "new_cmd"]
    ELSE [c EXCEPT !.iov = <<>>, !.wbuf = str, !.state = "write", !.write_and_go = "new_cmd"]

out_string(c, str) ==
    IF c.noreply THEN [c EXCEPT !.noreply = FALSE, !.state = "new_cmd"]
    ELSE [c EXCEPT !.iov = <<>>, !.wbuf = str, !.state = "write", !.write_and_go = "new_cmd"]

add_bin_header(c, status) == [c EXCEPT !.iov = <<Piece(c, status)>>]

\* Mutant: the rest of the request is not swallowed.
WriteBinErrorOnly(c, err, swallow) ==
    [add_bin_header(c, err) EXCEPT !.state = "mwrite", !.write_and_go = "new_cmd"]

write_bin_error(c, err, swallow) ==
    [add_bin_header(c, err) EXCEPT
        !.state = "mwrite",
        !.sbytes = IF swallow > 0 THEN swallow ELSE @,
        !.write_and_go = IF swallow > 0 THEN "swallow" ELSE "new_cmd"]

write_bin_response(c, what) ==
    IF ~c.noreply \/ c.cmd \in {"get", "getk"}
      THEN [add_bin_header(c, what) EXCEPT !.state = "mwrite", !.write_and_go = "new_cmd"]
      ELSE conn_set_state(c, "new_cmd")

out_of_memory(c, err) ==
    IF c.proto = "binary" THEN write_bin_error(c, "ENOMEM", 0) ELSE out_string(c, err)

write_and_free(c, buf) ==
    [c EXCEPT !.wbuf = buf, !.state = "write", !.write_and_go = "new_cmd"]

\* Where a connection keeps references: an item to be unlinked, c->item, the entries of ilist.
RefAt(c, n) == IF n = -1 THEN c.purge ELSE IF n = 0 THEN c.item ELSE c.ilist[n]

\* item_remove for what is at these places, where an item may be more than once.
RemoveAll(s, c, places) ==
    LET times(i) == Cardinality({n \in places : RefAt(c, n) = i})
    IN  [s EXCEPT !.item = [i \in DOMAIN s.item |->
           IF times(i) = 0 THEN s.item[i]
           ELSE [IF s.item[i].ref <= times(i) THEN FreeItem ELSE s.item[i]
                   EXCEPT !.ref = s.item[i].ref - times(i)]]]

\* Mutant: c->item is forgotten.
ReleaseList(s, c) == RemoveAll(s, c, 1 .. c.ileft)

\* conn_release_items.
ReleaseStore(s, c) == RemoveAll(s, c, 0 .. c.ileft)
ReleaseConn(c) == [c EXCEPT !.item = None, !.ilist = <<>>, !.ileft = 0]

-----------------------------------------------------------------------------
(* Steps of a worker.                                                      *)

Driving(c) == c \in driven /\ conn[c].purge = None
InState(c, state) == Driving(c) /\ conn[c].state = state
Set(c, new) == conn' = [conn EXCEPT ![c] = new]
Stop(c) == driven' = driven \ {c}
NetworkFailure == faults + ooms < MaxFailures[menu] /\ faults' = faults + 1
NoMemory == faults + ooms < MaxFailures[menu] /\ ooms' = ooms + 1
Drop(s, n) == SubSeq(s, n + 1, Len(s))

\* How many of the m units wanted are taken from the n that are there.
Least(m, n) == IF m < n THEN m ELSE n

\* libevent calls event_handler: the socket is readable or has been closed,
\* or the connection waits for room to write.
Ready(c) ==
    /\ conn[c].state \notin {"closed", "watch"}
    /\ \/ conn[c].ev = "write"
       \/ conn[c].ev = "read" /\ (sock[c] # <<>> \/ eof[c])

event_handler(c) ==
    /\ Ready(c)
    /\ \A d \in driven : WorkerOf[d] # WorkerOf[c]
    /\ driven' = driven \cup {c}
    /\ Set(c, [conn[c] EXCEPT !.nreqs = ReqsPerEvent])
    /\ UNCHANGED <<store, net, client, lost, faults, ooms, settings>>

\* Mutant: the connection waits for more to read.
YieldUnasked(d) == d.ev

\* A request that is in the buffer already will not make the socket readable.
YieldEvent(d) == IF d.rbuf # <<>> THEN "write" ELSE d.ev

\* reset_cmd_handler, and the yield after reqs_per_event requests.
NewCmd(c) ==
    /\ InState(c, "new_cmd")
    /\ IF conn[c].nreqs > 0
         THEN /\ Set(c, [conn[c] EXCEPT !.nreqs = @ - 1, !.cmd = "none", !.substate = "none",
                           !.item = None,
                           !.state = IF conn[c].rbuf # <<>> THEN "parse_cmd" ELSE "waiting"])
              /\ store' = (IF conn[c].item = None THEN store
                                                  ELSE do_item_remove(store, conn[c].item))
              /\ UNCHANGED driven
         ELSE /\ Set(c, [conn[c] EXCEPT !.ev = YieldEvent(conn[c])])
              /\ Stop(c)
              /\ UNCHANGED store
    /\ UNCHANGED <<net, client, lost, faults, ooms, settings>>

Waiting(c) ==
    /\ InState(c, "waiting")
    /\ Set(c, [conn[c] EXCEPT !.ev = "read", !.state = "read"])
    /\ Stop(c)
    /\ UNCHANGED <<store, net, client, lost, faults, ooms, settings>>

\* try_read_network: data, end of stream, or nothing yet.
Read(c) ==
    /\ InState(c, "read")
    /\ IF sock[c] # <<>>
         THEN Set(c, [conn[c] EXCEPT !.rbuf = @ \o sock[c], !.state = "parse_cmd"])
         ELSE Set(c, conn_set_state(conn[c], IF eof[c] THEN "closing" ELSE "waiting"))
    /\ sock' = [sock EXCEPT ![c] = <<>>]
    /\ UNCHANGED <<store, driven, menu, reqs, script, eof, client, lost, faults, ooms, settings>>

\* The read buffer cannot grow.
ReadNoMemory(c) ==
    /\ InState(c, "read") /\ sock[c] # <<>> /\ conn[c].rbuf # <<>>
    /\ NoMemory
    /\ Set(c, [out_of_memory([conn[c] EXCEPT !.rbuf = <<>>, !.req = conn[c].rbuf[1].req],
                             "SERVER_ERROR reading")
                 EXCEPT !.write_and_go = "closing"])
    /\ UNCHANGED <<store, driven, net, client, lost, faults, settings>>

-----------------------------------------------------------------------------
(* conn_nread and conn_swallow: a count of units is taken first from the   *)
(* read buffer and then from the socket.                                   *)

\* What is read becomes the value of the item, if there is one.
Filled(c, u) ==
    IF conn[c].item = None THEN store
    ELSE [store EXCEPT !.item[conn[c].item].val = reqs[c][u.req].val]

NreadBuffered(c) ==
    LET n == Least(conn[c].rlbytes, Len(conn[c].rbuf))
    IN  /\ InState(c, "nread") /\ n > 0
        /\ Set(c, [conn[c] EXCEPT !.rlbytes = @ - n, !.rbuf = Drop(@, n),
                                  !.crlf = reqs[c][conn[c].rbuf[n].req].crlf])
        /\ store' = Filled(c, conn[c].rbuf[n])
        /\ UNCHANGED <<driven, net, client, lost, faults, ooms, settings>>

NreadSocket(c) ==
    LET n == Least(conn[c].rlbytes, Len(sock[c]))
    IN  /\ InState(c, "nread") /\ conn[c].rlbytes > 0 /\ conn[c].rbuf = <<>>
        /\ \/ /\ n > 0
              /\ Set(c, [conn[c] EXCEPT !.rlbytes = @ - n,
                                        !.crlf = reqs[c][sock[c][n].req].crlf])
              /\ store' = Filled(c, sock[c][n])
              /\ sock' = [sock EXCEPT ![c] = Drop(@, n)]
              /\ UNCHANGED driven
           \/ /\ n = 0 /\ eof[c]
              /\ Set(c, conn_set_state(conn[c], "closing"))
              /\ UNCHANGED <<store, sock, driven>>
           \/ /\ n = 0 /\ ~eof[c]
              /\ Set(c, [conn[c] EXCEPT !.ev = "read"])
              /\ Stop(c)
              /\ UNCHANGED <<store, sock>>
        /\ UNCHANGED <<menu, reqs, script, eof, client, lost, faults, ooms, settings>>

\* read_into_chunked_item cannot allocate the next chunk.
NreadNoMemory(c) ==
    /\ InState(c, "nread") /\ conn[c].rlbytes > 0
    /\ conn[c].item # None /\ Chunked(store, conn[c].item)
    /\ NoMemory
    /\ Set(c, [out_of_memory(conn[c], "SERVER_ERROR")
                 EXCEPT !.sbytes = conn[c].rlbytes, !.write_and_go = "swallow"])
    /\ UNCHANGED <<store, driven, net, client, lost, faults, settings>>

Swallow(c) ==
    LET b == Least(conn[c].sbytes, Len(conn[c].rbuf))
        n == Least(conn[c].sbytes, Len(sock[c]))
    IN  /\ InState(c, "swallow")
        /\ \/ /\ conn[c].sbytes = 0
              /\ Set(c, conn_set_state(conn[c], "new_cmd"))
              /\ UNCHANGED <<sock, driven>>
           \/ /\ b > 0
              /\ Set(c, [conn[c] EXCEPT !.sbytes = @ - b, !.rbuf = Drop(@, b)])
              /\ UNCHANGED <<sock, driven>>
           \/ /\ b = 0 /\ n > 0
              /\ Set(c, [conn[c] EXCEPT !.sbytes = @ - n])
              /\ sock' = [sock EXCEPT ![c] = Drop(@, n)]
              /\ UNCHANGED driven
           \/ /\ conn[c].sbytes > 0 /\ b = 0 /\ n = 0 /\ eof[c]
              /\ Set(c, conn_set_state(conn[c], "closing"))
              /\ UNCHANGED <<sock, driven>>
           \/ /\ conn[c].sbytes > 0 /\ b = 0 /\ n = 0 /\ ~eof[c]
              /\ Set(c, [conn[c] EXCEPT !.ev = "read"])
              /\ Stop(c)
              /\ UNCHANGED sock
        /\ UNCHANGED <<store, menu, reqs, script, eof, client, lost, faults, ooms, settings>>

-----------------------------------------------------------------------------
(* conn_write and conn_mwrite.                                             *)

\* conn_write puts the text of out_string on the list of pieces to send.
Assembled(c) ==
    IF c.state = "write" /\ c.wbuf # ""
      THEN [c EXCEPT !.iov = Append(@, Piece(c, c.wbuf)), !.wbuf = ""] ELSE c

TransmitSome(c) ==
    LET a == Assembled(conn[c])
    IN  /\ Driving(c) /\ conn[c].state \in {"write", "mwrite"}
        /\ \E n \in 1 .. Len(a.iov) :
             /\ Set(c, [a EXCEPT !.iov = Drop(@, n)])
             /\ sent' = [sent EXCEPT ![c] = @ \o SubSeq(a.iov, 1, n)]
             /\ seen' = [seen EXCEPT ![c] = IF a.iov[n].it # None
                                              THEN [cas |-> a.iov[n].cas, val |-> a.iov[n].val]
                                              ELSE @]
        /\ UNCHANGED <<store, driven, net, lost, faults, ooms, settings>>

\* The client does not read: wait until the socket can be written again.
TransmitBlocked(c) ==
    /\ Driving(c) /\ conn[c].state \in {"write", "mwrite"}
    /\ Assembled(conn[c]).iov # <<>>
    /\ NetworkFailure
    /\ \/ /\ Set(c, [Assembled(conn[c]) EXCEPT !.ev = "write"])
          /\ Stop(c)
       \/ /\ Set(c, conn_set_state(Assembled(conn[c]), "closing"))
          /\ UNCHANGED driven
    /\ UNCHANGED <<store, net, client, lost, ooms, settings>>

TransmitComplete(c) ==
    /\ Driving(c) /\ conn[c].state \in {"write", "mwrite"}
    /\ Assembled(conn[c]).iov = <<>>
    /\ IF conn[c].state = "mwrite"
         THEN /\ store' = ReleaseStore(store, conn[c])
              /\ Set(c, conn_set_state(ReleaseConn(conn[c]),
                     IF conn[c].proto = "binary" THEN conn[c].write_and_go ELSE "new_cmd"))
         ELSE /\ Set(c, conn_set_state(conn[c], conn[c].write_and_go))
              /\ UNCHANGED store
    /\ UNCHANGED <<driven, net, client, lost, faults, ooms, settings>>

conn_close(c) ==
    /\ InState(c, "closing")
    /\ store' = ReleaseStore(store, conn[c])
    /\ Set(c, [ReleaseConn(conn[c]) EXCEPT !.state = "closed", !.ev = "none"])
    /\ Stop(c)
    /\ UNCHANGED <<net, client, lost, faults, ooms, settings>>

\* The logger or the crawler has the connection: it is given back
\* (redispatch_conn, conn_worker_readd) after what was asked for has been
\* written, or closed there (sidethread_conn_close).
SideThread(c) ==
    /\ conn[c].state = "watch" /\ c \notin driven
    /\ \/ /\ conn[c].cmd = "metadump"
          /\ Set(c, [conn[c] EXCEPT !.state = "new_cmd", !.ev = "read"])
          /\ sent' = [sent EXCEPT ![c] = Append(@, Piece(conn[c], "END"))]
       \/ /\ Set(c, [conn[c] EXCEPT !.state = "closed"])
          /\ UNCHANGED sent
    /\ UNCHANGED <<store, driven, net, seen, lost, faults, ooms, settings>>

\* The stop of a worker that hands its connection to a side thread.
Watch(c) ==
    /\ InState(c, "watch")
    /\ Stop(c)
    /\ UNCHANGED <<store, conn, net, client, lost, faults, ooms, settings>>

-----------------------------------------------------------------------------
(* The clients and the clock.                                              *)

Send(c) ==
    /\ Len(reqs[c]) < Len(Menus[menu][c]) /\ script[c] = <<>> /\ ~eof[c]
    /\ \E r \in Menus[menu][c][Len(reqs[c]) + 1] :
         /\ reqs' = [reqs EXCEPT ![c] = Append(@, r)]
         /\ script' = [script EXCEPT ![c] = Units(r, Len(reqs[c]) + 1)]
    /\ UNCHANGED <<store, conn, driven, menu, sock, eof, client, lost, faults, ooms, settings>>

Arrive(c) ==
    /\ \E n \in {1, Len(script[c])} \cap 1 .. Len(script[c]) :
         /\ n = Len(script[c]) \/ menu \in Cut
         /\ sock' = [sock EXCEPT ![c] = @ \o SubSeq(script[c], 1, n)]
         /\ script' = [script EXCEPT ![c] = Drop(@, n)]
    /\ UNCHANGED <<store, conn, driven, menu, reqs, eof, client, lost, faults, ooms, settings>>

\* The client hangs up, perhaps in the middle of a request.
HangUp(c) ==
    /\ ~eof[c] /\ NetworkFailure
    /\ eof' = [eof EXCEPT ![c] = TRUE]
    /\ script' = [script EXCEPT ![c] = <<>>]
    /\ UNCHANGED <<store, conn, driven, menu, reqs, sock, client, lost, ooms, settings>>
=============================================================================
