------------------------------- MODULE Ascii -------------------------------
(***************************************************************************)
(* The text protocol: try_read_command finds a line in the read buffer and *)
(* process_command calls the handler of its command.  A handler is one     *)
(* step, except where it looks items up one by one or unlinks an item it   *)
(* has looked up: each of those takes the item lock anew.                  *)
(***************************************************************************)
EXTENDS Conn

CONSTANT LongKey       \* a key of more than KEY_MAX_LENGTH bytes

-----------------------------------------------------------------------------
(* The line at the head of the read buffer.  Data that is taken for a line *)
(* is not a command.                                                       *)

First(c) == conn[c].rbuf[1]

\* The protocol is negotiated by the first byte of the connection.
Protocol(c) ==
    IF conn[c].proto # "negotiating" THEN conn[c].proto ELSE reqs[c][First(c).req].proto

Newlines(c) == {n \in 1 .. Len(conn[c].rbuf) : conn[c].rbuf[n].part \notin {"frag", "hdr", "key"}}
LineEnd(c) == CHOOSE n \in Newlines(c) : \A m \in Newlines(c) : n <= m
Request(c) == reqs[c][First(c).req]
Command(c) ==
    IF First(c).part \in {"frag", "line"} /\ Request(c).proto = "ascii" THEN Request(c).op ELSE "garbage"

Parsing(c, proto) ==
    InState(c, "parse_cmd") /\ conn[c].cmd = "none" /\ Protocol(c) = proto

AtLine(c) == Parsing(c, "ascii") /\ Newlines(c) # {}

\* The connection when process_command has its line.
Line(c) == [conn[c] EXCEPT !.proto = "ascii", !.req = First(c).req, !.iov = <<>>,
                           !.rbuf = Drop(@, LineEnd(c))]

set_noreply_maybe(c) == [Line(c) EXCEPT !.noreply = @ \/ Request(c).quiet]

\* No newline yet: wait for it, unless the line is already too long and is
\* not a get.
NoLine(c) ==
    /\ Parsing(c, "ascii") /\ Newlines(c) = {}
    /\ Set(c, [conn[c] EXCEPT !.proto = "ascii",
                 !.state = IF Len(conn[c].rbuf) > LineLimit /\ Command(c) \notin {"get", "gets"}
                             THEN "closing" ELSE "waiting"])
    /\ UNCHANGED <<store, driven, net, client, lost, faults, ooms, settings>>

\* A handler that only changes the connection.
Reply(c, new) ==
    /\ Set(c, new)
    /\ UNCHANGED <<store, driven, net, client, lost, faults, ooms, settings>>

-----------------------------------------------------------------------------
(* get and gets: one lookup per key, the hits stay referenced until the    *)
(* answer has been sent.                                                   *)

GetBegin(c) ==
    /\ AtLine(c) /\ Command(c) \in {"get", "gets"}
    /\ Reply(c, [Line(c) EXCEPT !.cmd = "get", !.todo = Request(c).keys, !.hits = 0])

Getting(c) == InState(c, "parse_cmd") /\ conn[c].cmd = "get"

GetKey(c) ==
    LET k == Head(conn[c].todo)
        g == item_get(store, k)
    IN  /\ Getting(c) /\ conn[c].todo # <<>> /\ k # LongKey
        /\ store' = g.s
        /\ Set(c, LET d == [conn[c] EXCEPT !.todo = Tail(@)]
                  IN  IF g.it = None THEN d
                      ELSE [add_iov(d, ValuePiece(d, g.s, g.it))
                              EXCEPT !.hits = @ + 1,
                                     !.ilist = Append(SubSeq(@, 1, d.hits), g.it)
                                                 \o Drop(@, d.hits + 1)])
        /\ UNCHANGED <<driven, net, client, lost, faults, ooms, settings>>

\* A list cannot grow: the item is given back and the loop is left, and then
\* entered again with what tokenize_command makes of the rest, which is the
\* same key alone.
GetKeyNoMemory(c) ==
    LET k == Head(conn[c].todo)
        g == item_get(store, k)
    IN  /\ Getting(c) /\ conn[c].todo # <<>> /\ k # LongKey
        /\ g.it # None
        /\ NoMemory
        /\ store' = do_item_remove(g.s, g.it)
        /\ Set(c, [conn[c] EXCEPT !.todo = <<k>>])
        /\ UNCHANGED <<driven, net, client, lost, faults, settings>>

GetLongKey(c) ==
    /\ Getting(c) /\ conn[c].todo # <<>> /\ Head(conn[c].todo) = LongKey
    /\ store' = RemoveAll(store, conn[c], 1 .. conn[c].hits)
    /\ Set(c, out_string(conn[c], "CLIENT_ERROR"))
    /\ UNCHANGED <<driven, net, client, lost, faults, ooms, settings>>

GetEnd(c) ==
    /\ Getting(c) /\ conn[c].todo = <<>>
    /\ Reply(c, [add_iov(conn[c], Piece(conn[c], "END"))
                   EXCEPT !.ileft = conn[c].hits, !.state = "mwrite"])

\* There is no room for END: an error is sent instead, from conn_write, which
\* does not release the items.
GetEndNoMemory(c) ==
    /\ Getting(c) /\ conn[c].todo = <<>>
    /\ NoMemory
    /\ Set(c, out_of_memory([conn[c] EXCEPT !.ileft = conn[c].hits], "SERVER_ERROR"))
    /\ UNCHANGED <<store, driven, net, client, lost, faults, settings>>

-----------------------------------------------------------------------------
(* set, add, replace, append, prepend, cas.                                *)

CasOf(c, r) == IF r.cas THEN seen[c].cas ELSE 0

Alloc(r, exp) ==
    IF r.big THEN {[s |-> store, it |-> None]}
    ELSE do_item_alloc(store, r.keys[1], Len(r.val), exp)

\* The data block is read into a new item; if there is none it is swallowed,
\* and the old value of a set is unlinked.
process_update_command(c) ==
    LET r == Request(c)
        d == set_noreply_maybe(c)
        old(s) == IF r.op = "set" THEN do_item_get(s, r.keys[1]) ELSE [s |-> s, it |-> None]
    IN  /\ AtLine(c) /\ Command(c) \in StoreOps
        /\ IF r.bad \/ r.keys[1] = LongKey
             THEN Reply(c, out_string(d, "CLIENT_ERROR"))
             ELSE /\ \E a \in Alloc(r, realtime(store, r.exp)) :
                       IF a.it = None
                         THEN /\ store' = old(a.s).s
                              /\ Set(c, [out_of_memory(d, "SERVER_ERROR")
                                           EXCEPT !.write_and_go = "swallow", !.sbytes = r.parts,
                                                  !.purge = old(a.s).it])
                         ELSE /\ store' = [a.s EXCEPT !.item[a.it].cas = CasOf(c, r)]
                              /\ Set(c, [d EXCEPT !.item = a.it, !.rlbytes = r.parts,
                                                  !.cmd = r.op, !.state = "nread"])
                  /\ UNCHANGED <<driven, net, client, lost, faults, ooms, settings>>

\* The worker waits for the item lock it holds, for ever.
Hung(c) == [c EXCEPT !.state = "hung"]

complete_nread_ascii(c) ==
    LET d == conn[c]
        Done(x, what) == [out_string(x, what) EXCEPT !.item = None]
    IN  /\ InState(c, "nread") /\ d.rlbytes = 0 /\ d.proto = "ascii"
        /\ IF ~d.crlf
             THEN /\ store' = do_item_remove(store, d.item)
                  /\ Set(c, Done(d, "CLIENT_ERROR"))
             ELSE \E r \in do_store_item(store, d.item, d.cmd) :
                    IF r.ret = "HANG" THEN store' = r.s /\ Set(c, Hung(d))
                    ELSE /\ store' = do_item_remove(r.s, d.item)
                         /\ Set(c, Done(d, r.ret))
        /\ UNCHANGED <<driven, net, client, lost, faults, ooms, settings>>

\* item_unlink and item_remove of an item a handler has looked up: the last
\* part of delete, and of a set that found no memory.
ItemUnlink(c) ==
    LET i == conn[c].purge
    IN  /\ c \in driven /\ i # None
        /\ store' = do_item_remove(do_item_unlink(store, i), i)
        /\ Set(c, LET d == [conn[c] EXCEPT !.purge = None]
                  IN  IF d.cmd # "delete" THEN d
                      ELSE IF d.proto = "binary" THEN write_bin_response(d, "OK")
                      ELSE out_string(d, "DELETED"))
        /\ UNCHANGED <<driven, net, client, lost, faults, ooms, settings>>

-----------------------------------------------------------------------------
(* delete, touch, incr, decr and flush_all.                                *)

process_delete_command(c) ==
    LET r == Request(c)
        g == do_item_get(store, r.keys[1])
        d == [set_noreply_maybe(c) EXCEPT !.cmd = "delete"]
    IN  /\ AtLine(c) /\ Command(c) = "delete"
        /\ IF r.bad \/ r.keys[1] = LongKey
             THEN Reply(c, out_string(d, "CLIENT_ERROR"))
             ELSE /\ store' = g.s
                  /\ Set(c, IF g.it = None THEN out_string(d, "NOT_FOUND")
                                           ELSE [d EXCEPT !.purge = g.it])
                  /\ UNCHANGED <<driven, net, client, lost, faults, ooms, settings>>

process_touch_command(c) ==
    LET r == Request(c)
        g == item_touch(store, r.keys[1], realtime(store, r.exp))
        d == set_noreply_maybe(c)
    IN  /\ AtLine(c) /\ Command(c) = "touch"
        /\ IF r.bad \/ r.keys[1] = LongKey
             THEN Reply(c, out_string(d, "CLIENT_ERROR"))
             ELSE /\ store' = IF g.it = None THEN g.s ELSE do_item_remove(g.s, g.it)
                  /\ Set(c, out_string(d, IF g.it = None THEN "NOT_FOUND" ELSE "TOUCHED"))
                  /\ UNCHANGED <<driven, net, client, lost, faults, ooms, settings>>

\* A reference that do_add_delta does not give back is lost.
Leaks(s, k) ==
    LET g == do_item_get(s, k)
    IN  {i \in DOMAIN s.item : i = g.it /\ (g.s.item[i].room = 0 \/ Chunked(g.s, i))}

Forget(items) == [i \in Items |-> IF i \in items THEN lost[i] + 1 ELSE lost[i]]

DeltaReply == [OK |-> "NUMBER", NON_NUMERIC |-> "CLIENT_ERROR", EOM |-> "SERVER_ERROR",
               NOT_FOUND |-> "NOT_FOUND"]

process_arithmetic_command(c) ==
    LET r == Request(c)
        d == set_noreply_maybe(c)
    IN  /\ AtLine(c) /\ Command(c) \in {"incr", "decr"}
        /\ IF r.bad \/ r.keys[1] = LongKey
             THEN Reply(c, out_string(d, "CLIENT_ERROR"))
             ELSE /\ \E a \in do_add_delta(store, r.keys[1], r.op = "incr", r.delta, 0) :
                       store' = a.s /\ Set(c, out_string(d, DeltaReply[a.ret]))
                  /\ lost' = Forget(Leaks(store, r.keys[1]))
                  /\ UNCHANGED <<driven, net, client, faults, ooms, settings>>

flush_all(c) ==
    /\ AtLine(c) /\ Command(c) = "flush_all"
    /\ store' = IF settings.flush_enabled THEN Flush(store, Request(c).exp) ELSE store
    /\ Set(c, out_string(set_noreply_maybe(c),
                         IF settings.flush_enabled THEN "OK" ELSE "CLIENT_ERROR"))
    /\ UNCHANGED <<driven, net, client, lost, faults, ooms, settings>>

-----------------------------------------------------------------------------
(* Commands about the server itself.                                       *)

\* quit, and shutdown where it is enabled (the signal is not modelled).
Quit(c) ==
    /\ AtLine(c) /\ Command(c) = "quit"
    /\ Reply(c, conn_set_state(Line(c), "closing"))

\* Lines with no effect but their answer; version, shutdown when it is
\* disabled, what is not a command, and a command with a wrong number of words.
Answered == [version |-> "VERSION", shutdown |-> "ERROR", unknown |-> "ERROR",
             garbage |-> "ERROR"]
PlainAnswer(c) ==
    /\ AtLine(c) /\ Command(c) \in DOMAIN Answered
    /\ Reply(c, out_string(Line(c), Answered[Command(c)]))

\* stats: the text is collected in a buffer, which may not be had, and
\* written with write_and_free; reset and detail answer at once.
process_stat(c) ==
    LET d == Line(c)
        sub == Request(c).sub
    IN  /\ AtLine(c) /\ Command(c) = "stats"
        /\ \/ /\ sub \in {"", "settings", "conns", "items", "dump"}
              /\ Reply(c, write_and_free(d, "END"))
           \/ /\ sub \in {"", "settings", "conns", "items", "dump"} /\ NoMemory
              /\ Set(c, out_of_memory(d, "SERVER_ERROR"))
              /\ UNCHANGED <<store, driven, net, client, lost, faults, settings>>
           \/ sub = "reset" /\ Reply(c, out_string(d, "RESET"))
           \/ /\ sub \in {"on", "off"}
              /\ settings' = [settings EXCEPT !.detail_enabled = sub = "on"]
              /\ Set(c, out_string(d, "OK"))
              /\ UNCHANGED <<store, driven, net, client, lost, faults, ooms>>
           \/ sub = "bad" /\ Reply(c, out_string(d, "CLIENT_ERROR"))

\* watch and lru_crawler metadump hand the connection to a side thread, if
\* that accepts it.
Handover(c) ==
    /\ AtLine(c) /\ Command(c) \in {"watch", "metadump"}
    /\ \/ Reply(c, [Line(c) EXCEPT !.cmd = Command(c), !.state = "watch", !.ev = "none"])
       \/ Reply(c, out_string(set_noreply_maybe(c), "BUSY"))

\* The settings a command changes and the values it accepts: the last token
\* of the request, as far as it is told apart.
Accepted ==
    [verbosity |-> Nat, automove |-> {0, 1, 2}, memlimit |-> {n \in Nat : n >= 8},
     lru_tune |-> 0 .. 80, lru_mode |-> {0, 1}, lru_temp_ttl |-> Int,
     tocrawl |-> Nat, sleep |-> 0 .. 1000000]
Answers(op) == IF op = "memlimit" THEN {"OK", "MEMLIMIT_ADJUST_FAILED"} ELSE {"OK"}
MAX_VERBOSITY_LEVEL == 2

SettingCommand(c) ==
    LET r == Request(c)
        d == IF r.op \in {"tocrawl", "sleep"} THEN Line(c) ELSE set_noreply_maybe(c)
        v == IF r.op = "verbosity" THEN Least(r.arg, MAX_VERBOSITY_LEVEL) ELSE r.arg
    IN  /\ AtLine(c) /\ Command(c) \in DOMAIN Accepted
        /\ \E what \in (IF ~r.bad /\ v \in Accepted[r.op] THEN Answers(r.op) ELSE {"ERROR"}) :
             /\ Set(c, out_string(d, what))
             /\ settings' = IF what = "OK" THEN [settings EXCEPT !.value[r.op] = v] ELSE settings
        /\ UNCHANGED <<store, driven, net, client, lost, faults, ooms>>

\* slabs reassign, lru_crawler crawl, enable and disable ask another thread.
AskThread(c) ==
    /\ AtLine(c) /\ Command(c) \in {"reassign", "crawl", "crawler"}
    /\ \E what \in {"OK", "BUSY", "ERROR"} : Reply(c, out_string(Line(c), what))

AsciiStep(c) ==
    \/ NoLine(c) \/ GetBegin(c) \/ GetKey(c) \/ GetKeyNoMemory(c) \/ GetLongKey(c)
    \/ GetEnd(c) \/ GetEndNoMemory(c)
    \/ process_update_command(c) \/ complete_nread_ascii(c) \/ ItemUnlink(c)
    \/ process_delete_command(c) \/ process_touch_command(c)
    \/ process_arithmetic_command(c) \/ flush_all(c) \/ Quit(c) \/ PlainAnswer(c)
    \/ process_stat(c) \/ Handover(c) \/ SettingCommand(c) \/ AskThread(c)
=============================================================================
