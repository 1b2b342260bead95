------------------------------- MODULE Binary -------------------------------
(***************************************************************************)
(* The binary protocol.  dispatch_bin_command looks at the header only: it *)
(* answers at once, or reads the extras and the key (bin_read_key) and     *)
(* leaves the rest to complete_nread_binary; the storage commands and SASL *)
(* then read their data.  The quiet form of a command is its request with  *)
(* quiet set.                                                              *)
(***************************************************************************)
EXTENDS Ascii

\* A header may arrive in two units.
HeaderUnits(c) == IF First(c).part = "hdr" THEN 1 ELSE 2
AtHeader(c) ==
    Parsing(c, "binary") /\ First(c).part \in {"frag", "hdr"} /\ Request(c).proto = "binary"
HaveHeader(c) == AtHeader(c) /\ Len(conn[c].rbuf) >= HeaderUnits(c)

\* The connection when the header has been taken; quiet commands set noreply.
Header(c) ==
    [conn[c] EXCEPT !.proto = "binary", !.req = First(c).req, !.iov = <<>>,
                    !.cmd = Request(c).op, !.noreply = Request(c).quiet,
                    !.rbuf = Drop(@, HeaderUnits(c))]

NoHeader(c) ==
    /\ AtHeader(c) /\ ~HaveHeader(c)
    /\ Reply(c, [conn[c] EXCEPT !.proto = "binary", !.state = "waiting"])

\* The unit at the head of the buffer has no magic number.
BadMagic(c) ==
    /\ Parsing(c, "binary") /\ ~AtHeader(c)
    /\ Reply(c, conn_set_state(conn[c], "closing"))

handle_binary_protocol_error(d) ==
    [write_bin_error(d, "EINVAL", 0) EXCEPT !.write_and_go = "closing"]

authenticated(c) ==
    Request(c).op \in {"list_mechs", "sasl_auth", "sasl_step", "version"} \/ conn[c].authenticated

\* What bin_read_key waits for.
Substate ==
    [set |-> "set_header", add |-> "set_header", replace |-> "set_header",
     append |-> "set_header", prepend |-> "set_header",
     get |-> "get_key", getk |-> "get_key", gat |-> "touch_key", gatk |-> "touch_key",
     touch |-> "touch_key", delete |-> "del_header", incr |-> "incr_header",
     decr |-> "incr_header", stat |-> "stat", flush |-> "flush_exptime",
     flush0 |-> "flush_exptime", sasl_auth |-> "sasl_auth", sasl_step |-> "sasl_auth"]

bin_read_key(d) ==
    [d EXCEPT !.substate = Substate[d.cmd], !.state = "nread",
              !.rlbytes = IF d.cmd \in NoKeyOps THEN 0 ELSE 1]

bin_list_sasl_mechs(d) ==
    IF ~settings.sasl THEN write_bin_error(d, "UNKNOWN_COMMAND", 0)
                      ELSE write_bin_response(d, "OK")

\* A quit answers first, unless it is quiet.
BinQuit(d) ==
    LET e == [write_bin_response(d, "OK") EXCEPT !.write_and_go = "closing"]
    IN  IF d.noreply THEN conn_set_state(e, "closing") ELSE e

dispatch_bin_command(c) ==
    LET d == Header(c)
        r == Request(c)
    IN  /\ HaveHeader(c)
        /\ Reply(c,
             IF settings.sasl /\ ~authenticated(c)
               THEN [write_bin_error(d, "AUTH_ERROR", 0) EXCEPT !.write_and_go = "closing"]
             ELSE IF r.bad \/ (r.op \notin NoKeyOps /\ r.keys[1] = LongKey)
               THEN handle_binary_protocol_error(d)
             ELSE CASE r.op \in {"version", "noop"} -> write_bin_response(d, "OK")
                    [] r.op = "quit" -> BinQuit(d)
                    [] r.op = "list_mechs" -> bin_list_sasl_mechs(d)
                    [] r.op = "unknown" -> write_bin_error(d, "UNKNOWN_COMMAND", r.parts)
                    [] OTHER -> bin_read_key(d))

\* The read buffer cannot grow to hold the key.
BinReadKeyNoMemory(c) ==
    /\ HaveHeader(c) /\ ~settings.sasl
    /\ ~Request(c).bad /\ Request(c).op \in DOMAIN Substate
    /\ NoMemory
    /\ Set(c, conn_set_state(Header(c), "closing"))
    /\ UNCHANGED <<store, driven, net, client, lost, faults, settings>>

-----------------------------------------------------------------------------
(* complete_nread_binary: the key, or the value, has been read.            *)

Complete(c, substates) ==
    /\ InState(c, "nread") /\ conn[c].rlbytes = 0 /\ conn[c].proto = "binary"
    /\ conn[c].substate \in substates

BinRequest(c) == reqs[c][conn[c].req]
BinRest == <<driven, net, client, faults, ooms, settings>>

process_bin_get_or_touch(c) ==
    LET d == conn[c]
        r == BinRequest(c)
        g == IF d.cmd \in {"touch", "gat", "gatk"}
               THEN item_touch(store, r.keys[1], realtime(store, r.exp))
               ELSE item_get(store, r.keys[1])
        hit == [add_bin_header(d, "OK") EXCEPT !.state = "mwrite", !.write_and_go = "new_cmd",
                                               !.item = g.it]
    IN  /\ Complete(c, {"get_key", "touch_key"})
        /\ store' = g.s
        /\ Set(c, IF g.it # None
                    THEN IF d.cmd = "touch" THEN hit ELSE add_iov(hit, ValuePiece(d, g.s, g.it))
                  ELSE IF d.noreply THEN conn_set_state(d, "new_cmd")
                  ELSE write_bin_error(d, "KEY_ENOENT", 0))
        /\ UNCHANGED <<lost, BinRest>>

\* process_bin_update and process_bin_append_prepend.
process_bin_update(c) ==
    LET d == conn[c]
        r == BinRequest(c)
        vlen == r.parts
        exp == IF d.cmd \in {"append", "prepend"} THEN 0 ELSE realtime(store, r.exp)
        old(s) == IF d.cmd = "set" THEN do_item_get(s, r.keys[1]) ELSE [s |-> s, it |-> None]
        refused == IF r.big THEN write_bin_error(d, "E2BIG", vlen)
                   ELSE [out_of_memory(d, "SERVER_ERROR") EXCEPT !.sbytes = vlen]
    IN  /\ Complete(c, {"set_header"})
        /\ \E a \in Alloc(r, exp) :
             IF a.it = None
               THEN /\ store' = old(a.s).s
                    /\ Set(c, [refused EXCEPT !.write_and_go = "swallow", !.purge = old(a.s).it])
               ELSE /\ store' = [a.s EXCEPT !.item[a.it].cas = CasOf(c, r)]
                    /\ Set(c, [d EXCEPT
                         !.cmd = IF CasOf(c, r) # 0 /\ @ \notin {"append", "prepend"}
                                   THEN "cas" ELSE @,
                         !.item = a.it, !.rlbytes = vlen, !.state = "nread",
                         !.substate = "set_value"])
        /\ UNCHANGED <<lost, BinRest>>

StoreError(cmd, ret) ==
    CASE ret = "EXISTS" -> "KEY_EEXISTS"
      [] ret = "NOT_FOUND" -> "KEY_ENOENT"
      [] ret = "NOT_STORED" /\ cmd = "add" -> "KEY_EEXISTS"
      [] ret = "NOT_STORED" /\ cmd = "replace" -> "KEY_ENOENT"
      [] OTHER -> "NOT_STORED"

complete_update_bin(c) ==
    LET d == conn[c]
    IN  /\ Complete(c, {"set_value"})
        /\ \E r \in do_store_item(store, d.item, d.cmd) :
             IF r.ret = "HANG" THEN store' = r.s /\ Set(c, Hung(d))
             ELSE /\ store' = do_item_remove(r.s, d.item)
                  /\ Set(c, [IF r.ret = "STORED" THEN write_bin_response(d, "OK")
                             ELSE write_bin_error(d, StoreError(d.cmd, r.ret), 0)
                               EXCEPT !.item = None])
        /\ UNCHANGED <<lost, BinRest>>

\* The rest of a delete is ItemUnlink; the cas id is compared without a lock.
process_bin_delete(c) ==
    LET d == conn[c]
        r == BinRequest(c)
        g == do_item_get(store, r.keys[1])
        cas == CasOf(c, r)
    IN  /\ Complete(c, {"del_header"})
        /\ IF g.it = None
             THEN store' = g.s /\ Set(c, write_bin_error(d, "KEY_ENOENT", 0))
             ELSE IF cas \in {0, g.s.item[g.it].cas}
             THEN store' = g.s /\ Set(c, [d EXCEPT !.purge = g.it])
             ELSE /\ store' = do_item_remove(g.s, g.it)
                  /\ Set(c, write_bin_error(d, "KEY_EEXISTS", 0))
        /\ UNCHANGED <<lost, BinRest>>

\* A missing counter is created with its initial value, by an add: another
\* client may have created it meanwhile.
DeltaError == [NON_NUMERIC |-> "DELTA_BADVAL", EOM |-> "ENOMEM", CAS_MISMATCH |-> "KEY_EEXISTS"]

complete_incr_bin(c) ==
    LET d == conn[c]
        r == BinRequest(c)
        k == r.keys[1]
    IN  /\ Complete(c, {"incr_header"})
        /\ \E a \in do_add_delta(store, k, d.cmd = "incr", r.delta, CasOf(c, r)) :
             /\ store' = a.s
             /\ Set(c, IF a.ret = "OK" THEN write_bin_response(d, "OK")
                       ELSE IF a.ret # "NOT_FOUND" THEN write_bin_error(d, DeltaError[a.ret], 0)
                       ELSE IF r.create THEN [d EXCEPT !.substate = "incr_create"]
                       ELSE write_bin_error(d, "KEY_ENOENT", 0))
        /\ lost' = Forget(Leaks(store, k))
        /\ UNCHANGED BinRest

IncrCreate(c) ==
    LET d == conn[c]
        r == BinRequest(c)
    IN  /\ Complete(c, {"incr_create"})
        /\ \E a \in do_item_alloc(store, r.keys[1], Len(r.val), realtime(store, r.exp)) :
             IF a.it = None
               THEN store' = a.s /\ Set(c, write_bin_error(d, "ENOMEM", 0))
               ELSE \E t \in do_store_item([a.s EXCEPT !.item[a.it].val = r.val], a.it, "add") :
                      /\ store' = do_item_remove(t.s, a.it)
                      /\ Set(c, IF t.ret = "STORED" THEN write_bin_response(d, "OK")
                                ELSE write_bin_error(d, "NOT_STORED", 0))
        /\ UNCHANGED <<lost, BinRest>>

process_bin_flush(c) ==
    LET d == conn[c]
    IN  /\ Complete(c, {"flush_exptime"})
        /\ store' = IF settings.flush_enabled
                      THEN Flush(store, IF d.cmd = "flush" THEN BinRequest(c).exp ELSE 0)
                      ELSE store
        /\ Set(c, IF settings.flush_enabled THEN write_bin_response(d, "OK")
                  ELSE write_bin_error(d, "AUTH_ERROR", 0))
        /\ UNCHANGED <<lost, BinRest>>

process_bin_stat(c) ==
    LET d == conn[c]
        sub == BinRequest(c).sub
    IN  /\ Complete(c, {"stat"})
        /\ \/ sub # "bad" /\ Set(c, write_and_free(d, "END")) /\ UNCHANGED ooms
           \/ sub = "bad" /\ Set(c, write_bin_error(d, "KEY_ENOENT", 0)) /\ UNCHANGED ooms
           \/ /\ sub # "bad" /\ NoMemory
              /\ Set(c, write_bin_error(d, "ENOMEM", 0))
        /\ settings' = IF sub \in {"on", "off"}
                         THEN [settings EXCEPT !.detail_enabled = sub = "on"] ELSE settings
        /\ UNCHANGED <<store, lost, driven, net, client, faults>>

-----------------------------------------------------------------------------
(* SASL: the credentials are read into an item that is never linked.       *)

\* A chunked item is refused, and its reference is lost.
process_bin_sasl_auth(c) ==
    LET d == conn[c]
        r == BinRequest(c)
        refused == [write_bin_error(d, "ENOMEM", r.parts) EXCEPT !.write_and_go = "swallow"]
    IN  /\ Complete(c, {"sasl_auth"})
        /\ IF ~settings.sasl
             THEN /\ Set(c, write_bin_error(d, "UNKNOWN_COMMAND", r.parts))
                  /\ UNCHANGED <<store, lost>>
             ELSE \E a \in Alloc(r, 0) :
                    /\ store' = a.s
                    /\ IF a.it = None THEN Set(c, refused) /\ UNCHANGED lost
                       ELSE IF Chunked(a.s, a.it) THEN Set(c, refused) /\ lost' = Forget({a.it})
                       ELSE /\ Set(c, [d EXCEPT !.item = a.it, !.rlbytes = r.parts,
                                                !.substate = "sasl_auth_data"])
                            /\ UNCHANGED lost
        /\ UNCHANGED BinRest

\* item_unlink leaves the item alone; it is released with the connection's
\* answer or before its next command.
process_bin_complete_sasl_auth(c) ==
    LET d == conn[c]
    IN  /\ Complete(c, {"sasl_auth_data"})
        /\ store' = do_item_unlink(store, d.item)
        /\ \/ Set(c, write_bin_response([d EXCEPT !.authenticated = TRUE], "OK"))
           \/ Set(c, write_bin_error(d, "AUTH_CONTINUE", 0))
           \/ Set(c, write_bin_error(d, "AUTH_ERROR", 0))
        /\ UNCHANGED <<lost, BinRest>>

BinaryStep(c) ==
    \/ NoHeader(c) \/ BadMagic(c) \/ dispatch_bin_command(c) \/ BinReadKeyNoMemory(c)
    \/ process_bin_get_or_touch(c) \/ process_bin_update(c) \/ complete_update_bin(c)
    \/ process_bin_delete(c) \/ complete_incr_bin(c) \/ IncrCreate(c)
    \/ process_bin_flush(c) \/ process_bin_stat(c)
    \/ process_bin_sasl_auth(c) \/ process_bin_complete_sasl_auth(c)
=============================================================================
