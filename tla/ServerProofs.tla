---------------------------- MODULE ServerProofs ----------------------------
(***************************************************************************)
(* Proofs about the network server, for any number of connections, keys    *)
(* and items, any requests, and any way in which they are cut into pieces: *)
(* while no malloc has failed, every reference a connection takes is given *)
(* back (but for those that the code loses), what is sent is what was      *)
(* looked up, a cas replaces what its client has seen, and what a flush    *)
(* has hidden is not found.                                                *)
(***************************************************************************)
EXTENDS Server, FiniteSetTheorems, SequenceTheorems, TLAPS

One(b) == IF b THEN 1 ELSE 0

\* The references to an item besides that of its link.
Net(s, i) == s.item[i].ref - One(Linked(s, i))

ItemFields == {"ref", "key", "val", "room", "cas", "exp", "time"}
StoreFields == {"link", "item", "cas_id", "now", "oldest_live", "oldest_cas"}

ItemOK(h) == DOMAIN h = ItemFields /\ h.ref \in Nat /\ h.key \in Keys \cup {None} /\ h.cas \in Nat

\* Linked items have cas ids of their own.
Distinct(s) == \A i, j \in DOMAIN s.item : Linked(s, i) /\ Linked(s, j) /\ s.item[i].cas = s.item[j].cas => i = j

StoreOK(s) ==
    /\ DOMAIN s = StoreFields /\ DOMAIN s.item \subseteq Items
    /\ s.link \in [Keys -> DOMAIN s.item \cup {None}]
    /\ s.item = [i \in DOMAIN s.item |-> s.item[i]]
    /\ \A i \in DOMAIN s.item : ItemOK(s.item[i]) /\ Net(s, i) >= 0
    /\ \A k \in Keys : s.link[k] # None => s.item[s.link[k]].key = k
    /\ {s.cas_id, s.now, s.oldest_live, s.oldest_cas} \subseteq Nat /\ s.now >= 2
    /\ \A i \in DOMAIN s.item : Linked(s, i) => s.item[i].cas \in 1 .. s.cas_id /\ s.item[i].cas # s.oldest_cas
    /\ s.oldest_cas <= s.cas_id /\ (s.oldest_live = 0 => s.oldest_cas = 0)
    /\ Distinct(s)

\* Held by one connection and not linked.
Lone(s, i) == Net(s, i) = 1 /\ ~Linked(s, i)

IsSeq(q) == q \in Seq({q[n] : n \in DOMAIN q})

Filling(d) == d.proto = "ascii" \/ d.substate \in {"set_value", "sasl_auth_data"}

\* A value and the cas id it was sent with.
Known(s, v) ==
    /\ v.cas \in 0 .. s.cas_id
    /\ \A i \in DOMAIN s.item : Linked(s, i) /\ s.item[i].cas = v.cas => s.item[i].val = v.val

PieceOK(p, d, s) ==
    p.it # None =>
        /\ Known(s, p)
        /\ \/ d.state \in {"closing", "closed"}
           \/ /\ d.state = "mwrite" \/ Collecting(d)
              /\ p.it \in DOMAIN s.item /\ s.item[p.it].val = p.val
              /\ \E n \in Places(d) \ {-1} : RefAt(d, n) = p.it

ConnFields ==
    {"state", "proto", "rbuf", "rlbytes", "sbytes", "item", "ilist", "ileft", "noreply", "cmd", "substate", "todo",
     "hits", "write_and_go", "wbuf", "iov", "ev", "nreqs", "authenticated", "req", "crlf", "purge"}

Fine(d, s, rs, sn) ==
    /\ DOMAIN d = ConnFields /\ d.write_and_go \in {"new_cmd", "swallow", "closing"} /\ {d.sbytes, d.rlbytes} \subseteq Nat
    /\ d.state \in {"waiting", "read"} => d.cmd = "none"
    /\ d.item \in DOMAIN s.item \cup {None} /\ d.purge \in DOMAIN s.item \cup {None}
    /\ d.ilist \in Seq(DOMAIN s.item) /\ d.ileft \in 0 .. Len(d.ilist)
    /\ Collecting(d) => /\ d.hits \in 0 .. Len(d.ilist) /\ d.ileft = 0 /\ d.purge = None
                        /\ d.todo \in Seq(Keys \cup {LongKey}) /\ ~d.noreply
    /\ d.ileft > 0 => d.state \in {"mwrite", "closing"}
    /\ d.item # None => d.state \in {"nread", "mwrite", "new_cmd", "closing", "hung"}
    /\ d.purge # None =>
          /\ d.item = None /\ d.ileft = 0
          /\ d.state \in (IF d.cmd = "delete" THEN {"parse_cmd", "nread"} ELSE {"new_cmd", "write", "mwrite"})
    /\ d.state = "nread" => d.proto \in {"ascii", "binary"} /\ (d.item # None <=> Filling(d))
    /\ d.state = "nread" /\ d.item # None =>
          /\ Lone(s, d.item) /\ s.item[d.item].key \in Keys
          /\ d.cmd = "cas" => s.item[d.item].cas \in {0, sn.cas}
    /\ d.state = "nread" /\ d.proto = "binary" =>
          d.req \in DOMAIN rs /\ (d.substate # "flush_exptime" => rs[d.req].keys[1] \in Keys)
          /\ (d.substate = "del_header" => d.cmd = "delete")
          /\ (d.item = None => d.cmd # "cas")
    /\ d.noreply /\ d.proto # "binary" => d.state \in {"nread", "closing", "closed", "hung"} \/ (d.purge # None /\ d.cmd = "delete")
    /\ IsSeq(d.iov) /\ \A n \in DOMAIN d.iov : PieceOK(d.iov[n], d, s)

StreamOK(c) ==
    /\ reqs[c] \in Seq(Requests)
    /\ {conn[c].rbuf, sock[c], script[c]} \subseteq
          Seq([req : DOMAIN reqs[c], part : {"frag", "line", "hdr", "key", "data"}])

Exact(i) ==
    /\ Net(store, i) >= lost[i] + Cardinality(References(i))
    /\ (\A c \in Conns : conn[c].state # "hung") => Net(store, i) = lost[i] + Cardinality(References(i))

Clean ==
    /\ DOMAIN conn = Conns /\ DOMAIN reqs = Conns /\ DOMAIN seen = Conns /\ DOMAIN sock = Conns /\ DOMAIN script = Conns
    /\ StoreOK(store)
    /\ \A c \in Conns : Fine(conn[c], store, reqs[c], seen[c]) /\ Known(store, seen[c]) /\ StreamOK(c)
    /\ \A i \in DOMAIN store.item : Exact(i)

IInv ==
    /\ menu \in DOMAIN Menus /\ ooms \in Nat /\ lost \in [Items -> Nat]
    /\ ooms = 0 => Clean
-----------------------------------------------------------------------------
(* The store.                                                              *)

\* An item as it becomes when one reference is given back.
Lower(h) == IF h.ref = 1 THEN FreeItem ELSE [h EXCEPT !.ref = h.ref - 1]

LEMMA FreeIs == ItemOK(FreeItem) /\ FreeItem.ref = 0 /\ FreeItem.key = None /\ FreeItem.cas = 0
BY DEF ItemOK, FreeItem, ItemFields

LEMMA LowerIs ==
    ASSUME NEW h, ItemOK(h), h.ref >= 1
    PROVE  /\ ItemOK(Lower(h)) /\ Lower(h).ref = h.ref - 1
           /\ h.ref # 1 => Lower(h).key = h.key /\ Lower(h).val = h.val /\ Lower(h).cas = h.cas
           /\ h.ref = 1 => Lower(h).key = None
BY FreeIs DEF Lower, ItemOK, ItemFields

LEMMA RemoveIs ==
    ASSUME NEW s, StoreOK(s), NEW i \in DOMAIN s.item
    PROVE  do_item_remove(s, i) = [s EXCEPT !.item = [s.item EXCEPT ![i] = Lower(s.item[i])]]
BY DEF do_item_remove, Lower, StoreOK, StoreFields

\* What a linked item was stored as is known by its cas id.
Ages(s, t) ==
    /\ s.cas_id <= t.cas_id
    /\ \A j \in DOMAIN s.item : Linked(t, j) =>
          \/ t.item[j].cas > s.cas_id
          \/ Linked(s, j) /\ t.item[j].cas = s.item[j].cas /\ t.item[j].val = s.item[j].val

Put(s, i, h) == [s EXCEPT !.item = [s.item EXCEPT ![i] = h]]

LEMMA PutFields ==
    ASSUME NEW s, StoreOK(s), NEW i \in DOMAIN s.item, NEW h
    PROVE  /\ DOMAIN Put(s, i, h) = StoreFields /\ DOMAIN Put(s, i, h).item = DOMAIN s.item
           /\ Put(s, i, h).item[i] = h /\ \A j \in DOMAIN s.item : j # i => Put(s, i, h).item[j] = s.item[j]
           /\ Put(s, i, h).item = [j \in DOMAIN s.item |-> Put(s, i, h).item[j]]
           /\ Put(s, i, h).link = s.link /\ Put(s, i, h).cas_id = s.cas_id /\ Put(s, i, h).now = s.now
           /\ Put(s, i, h).oldest_live = s.oldest_live /\ Put(s, i, h).oldest_cas = s.oldest_cas
BY DEF Put, StoreOK, StoreFields

LEMMA DistinctStays ==
    ASSUME NEW s, NEW t, Distinct(s), DOMAIN t.item = DOMAIN s.item,
           \A j \in DOMAIN s.item : Linked(t, j) => Linked(s, j) /\ t.item[j].cas = s.item[j].cas
    PROVE  Distinct(t)
BY DEF Distinct

LEMMA DistinctGrows ==
    ASSUME NEW s, StoreOK(s), NEW t, DOMAIN t.item = DOMAIN s.item, NEW i, t.item[i].cas = s.cas_id + 1,
           \A j \in DOMAIN s.item : Linked(t, j) => j = i \/ (Linked(s, j) /\ t.item[j].cas = s.item[j].cas)
    PROVE  Distinct(t)
<1>1. s.cas_id \in Nat
  BY DEF StoreOK
<1>2. \A j \in DOMAIN s.item : Linked(s, j) => s.item[j].cas \in 1 .. s.cas_id /\ s.item[j].cas # s.cas_id + 1
  BY <1>1 DEF StoreOK
<1>3. Distinct(s)
  BY DEF StoreOK
<1> QED BY <1>2, <1>3 DEF Distinct

\* A change of one item that leaves alone which items are linked.
Changed(s, i, h, t) ==
    /\ StoreOK(t) /\ DOMAIN t.item = DOMAIN s.item
    /\ t.item[i] = h /\ \A j \in DOMAIN s.item : j # i => t.item[j] = s.item[j]
    /\ t.link = s.link /\ t.cas_id = s.cas_id /\ t.now = s.now
    /\ \A j \in DOMAIN s.item : Linked(t, j) = Linked(s, j)
    /\ \A j \in DOMAIN s.item : j # i => Net(t, j) = Net(s, j)
    /\ Net(t, i) = Net(s, i) + (h.ref - s.item[i].ref)
    /\ Ages(s, t)

LEMMA PutIs ==
    ASSUME NEW s, StoreOK(s), NEW i \in DOMAIN s.item, NEW h, ItemOK(h),
           Linked(s, i) => h.key = s.item[i].key /\ h.ref >= 1 /\ h.cas = s.item[i].cas /\ h.val = s.item[i].val
    PROVE  Changed(s, i, h, Put(s, i, h))
<1>1. PICK t : t = Put(s, i, h)
  OBVIOUS
<1>2. /\ DOMAIN t = StoreFields /\ DOMAIN t.item = DOMAIN s.item
      /\ t.item[i] = h /\ \A j \in DOMAIN s.item : j # i => t.item[j] = s.item[j]
      /\ t.item = [j \in DOMAIN s.item |-> t.item[j]]
      /\ t.link = s.link /\ t.cas_id = s.cas_id /\ t.now = s.now
      /\ t.oldest_live = s.oldest_live /\ t.oldest_cas = s.oldest_cas
  BY <1>1, PutFields
<1>3. \A k \in Keys : s.link[k] # None => s.item[s.link[k]].key = k /\ s.link[k] \in DOMAIN s.item /\ k # None
  BY StoreAssumption DEF StoreOK
<1>4. \A j \in DOMAIN s.item : ItemOK(s.item[j]) /\ Net(s, j) >= 0 /\ s.item[j].key \in Keys \cup {None} /\ s.item[j].ref \in Nat
  BY DEF StoreOK, ItemOK
<1>5. h.key \in Keys \cup {None} /\ h.ref \in Nat
  BY DEF ItemOK
<1>6. \A j \in DOMAIN s.item : Linked(t, j) = Linked(s, j)
  <2>1. \A j \in DOMAIN s.item : j # i => Linked(t, j) = Linked(s, j)
    BY <1>2 DEF Linked
  <2>2. Linked(s, i) => Linked(t, i)
    BY <1>2 DEF Linked
  <2>3. Linked(t, i) => Linked(s, i)
    <3>1. i # None
      BY StoreAssumption DEF StoreOK
    <3>2. ASSUME Linked(t, i) PROVE Linked(s, i)
      <4>1. h.key \in Keys /\ s.link[h.key] = i
        BY <1>2, <1>5, <3>2 DEF Linked
      <4>2. s.item[i].key = h.key
        BY <1>3, <3>1, <4>1
      <4> QED BY <1>3, <3>1, <4>1, <4>2 DEF Linked
    <3> QED BY <3>2
  <2>4. Linked(s, i) \in BOOLEAN /\ Linked(t, i) \in BOOLEAN
    BY DEF Linked
  <2> QED BY <2>1, <2>2, <2>3, <2>4
<1>7. \A j \in DOMAIN s.item : j # i => Net(t, j) = Net(s, j)
  BY <1>2, <1>6 DEF Net
<1>8. Net(t, i) = Net(s, i) + (h.ref - s.item[i].ref) /\ Net(t, i) >= 0
  <2>1. PICK o \in {0, 1} : o = One(Linked(s, i))
    BY DEF One
  <2>2. Net(s, i) = s.item[i].ref - o /\ Net(t, i) = h.ref - o
    BY <1>2, <1>6, <2>1 DEF Net
  <2>3. o <= h.ref
    BY <1>5, <2>1 DEF One
  <2> QED BY <1>4, <1>5, <2>2, <2>3
<1>9. \A j \in DOMAIN s.item : Linked(t, j) => Linked(s, j) /\ t.item[j].cas = s.item[j].cas /\ t.item[j].val = s.item[j].val
  BY <1>2, <1>6
<1>10. StoreOK(t)
  <2>1. /\ DOMAIN t = StoreFields /\ DOMAIN t.item \subseteq Items
        /\ t.link \in [Keys -> DOMAIN t.item \cup {None}]
        /\ t.item = [j \in DOMAIN t.item |-> t.item[j]]
    BY <1>2 DEF StoreOK
  <2>2. \A j \in DOMAIN t.item : ItemOK(t.item[j]) /\ Net(t, j) >= 0
    BY <1>2, <1>4, <1>7, <1>8
  <2>3. \A k \in Keys : t.link[k] # None => t.item[t.link[k]].key = k
    <3> SUFFICES ASSUME NEW k \in Keys, s.link[k] # None PROVE t.item[s.link[k]].key = k
      BY <1>2
    <3>1. Linked(s, s.link[k]) /\ s.link[k] \in DOMAIN s.item /\ s.item[s.link[k]].key = k
      BY <1>3 DEF Linked
    <3> QED BY <1>2, <3>1
  <2>4. /\ {t.cas_id, t.now, t.oldest_live, t.oldest_cas} \subseteq Nat /\ t.now >= 2
        /\ t.oldest_cas <= t.cas_id /\ (t.oldest_live = 0 => t.oldest_cas = 0)
    BY <1>2 DEF StoreOK
  <2>5. \A j \in DOMAIN t.item : Linked(t, j) => t.item[j].cas \in 1 .. t.cas_id /\ t.item[j].cas # t.oldest_cas
    BY <1>2, <1>9 DEF StoreOK
  <2>6. Distinct(t)
    BY <1>2, <1>9, DistinctStays DEF StoreOK
  <2> QED BY <2>1, <2>2, <2>3, <2>4, <2>5, <2>6 DEF StoreOK
<1>11. Ages(s, t)
  <2>1. s.cas_id <= t.cas_id
    BY <1>2 DEF StoreOK
  <2> QED BY <1>9, <2>1 DEF Ages
<1> QED BY <1>1, <1>2, <1>6, <1>7, <1>8, <1>10, <1>11 DEF Changed

\* The value of what is held stays, but for what one connection alone holds.
Vals(s, t) == \A j \in DOMAIN s.item : t.item[j].val = s.item[j].val \/ Net(s, j) = 0 \/ Net(t, j) = 0

\* Others' items that wait to be stored stay so.
Lones(s, t, X) ==
    \A j \in DOMAIN s.item : Lone(s, j) /\ j \notin X =>
        Lone(t, j) /\ t.item[j].key = s.item[j].key /\ t.item[j].cas = s.item[j].cas

\* A step that changes the number of references to i by x.
Goes(s, t, X) == StoreOK(t) /\ DOMAIN t.item = DOMAIN s.item /\ Vals(s, t) /\ Lones(s, t, X) /\ Ages(s, t)
Shift(s, t, i, x) == \A j \in DOMAIN s.item : Net(t, j) = Net(s, j) + (IF j = i THEN x ELSE 0)

LEMMA NetIs == ASSUME NEW s, StoreOK(s), NEW i \in DOMAIN s.item PROVE Net(s, i) \in Nat
BY DEF StoreOK, ItemOK, Net, One

LEMMA GoesNowhere == ASSUME NEW s, StoreOK(s) PROVE Goes(s, s, {}) /\ Shift(s, s, None, 0)
<1>1. \A j \in DOMAIN s.item : Net(s, j) \in Nat
  BY NetIs
<1>2. s.cas_id \in Nat
  BY DEF StoreOK
<1> QED BY <1>1, <1>2 DEF Goes, Shift, Vals, Lones, Ages

LEMMA AgesOn ==
    ASSUME NEW s, NEW t, NEW u, StoreOK(s), StoreOK(t), StoreOK(u), DOMAIN t.item = DOMAIN s.item,
           DOMAIN u.item = DOMAIN s.item, Ages(s, t), Ages(t, u)
    PROVE  Ages(s, u)
<1>1. {s.cas_id, t.cas_id, u.cas_id} \subseteq Nat
  BY DEF StoreOK
<1>2. \A j \in DOMAIN s.item : u.item[j].cas \in Nat /\ t.item[j].cas \in Nat
  BY DEF StoreOK, ItemOK
<1> QED BY <1>1, <1>2 DEF Ages

\* item_remove of an item that is held besides its link.
LEMMA RemoveGoes ==
    ASSUME NEW s, StoreOK(s), NEW i \in DOMAIN s.item, Net(s, i) >= 1
    PROVE  Goes(s, do_item_remove(s, i), {i}) /\ Shift(s, do_item_remove(s, i), i, -1)
<1>1. PICK h : h = s.item[i]
  OBVIOUS
<1>2. PICK t : t = do_item_remove(s, i)
  OBVIOUS
<1>3. ItemOK(h) /\ h.ref >= 1 /\ (Linked(s, i) => h.ref >= 2) /\ h.ref \in Nat
  BY <1>1 DEF StoreOK, ItemOK, Net, One
<1>4. t = Put(s, i, Lower(h))
  BY <1>1, <1>2, RemoveIs DEF Put
<1>5. /\ ItemOK(Lower(h)) /\ Lower(h).ref = h.ref - 1
      /\ h.ref # 1 => Lower(h).key = h.key /\ Lower(h).val = h.val /\ Lower(h).cas = h.cas
  BY <1>3, LowerIs
<1>6. Changed(s, i, Lower(h), t)
  <2>1. Linked(s, i) => /\ Lower(h).key = s.item[i].key /\ Lower(h).ref >= 1
                        /\ Lower(h).cas = s.item[i].cas /\ Lower(h).val = s.item[i].val
    BY <1>1, <1>3, <1>5
  <2> QED BY <1>4, <1>5, <2>1, PutIs
<1>7. Net(s, i) \in Nat /\ Net(t, i) = Net(s, i) - 1
  BY <1>1, <1>3, <1>5, <1>6, NetIs DEF Changed
<1>8. \A j \in DOMAIN s.item : j # i => Net(t, j) = Net(s, j) /\ t.item[j] = s.item[j] /\ Linked(t, j) = Linked(s, j)
  BY <1>6 DEF Changed
<1>9. \A j \in DOMAIN s.item : Net(s, j) \in Nat
  BY NetIs
<1>10. Shift(s, t, i, -1)
  BY <1>7, <1>8, <1>9 DEF Shift
<1>11. t.item[i].val = s.item[i].val \/ Net(t, i) = 0
  <2>1. h.ref = 1 => Net(s, i) = 1
    BY <1>1, <1>3 DEF Net, One
  <2> QED BY <1>1, <1>5, <1>6, <1>7, <2>1 DEF Changed
<1>12. Vals(s, t)
  BY <1>8, <1>11 DEF Vals
<1>13. Lones(s, t, {i})
  BY <1>8 DEF Lones, Lone
<1> QED BY <1>2, <1>6, <1>10, <1>12, <1>13 DEF Goes, Changed

\* An item is changed in what is not told apart here, or gets a reference more.
LEMMA TouchGoes ==
    ASSUME NEW s, StoreOK(s), NEW i \in DOMAIN s.item, NEW h, ItemOK(h),
           h.key = s.item[i].key, h.cas = s.item[i].cas, h.val = s.item[i].val,
           NEW x \in {0, 1}, h.ref = s.item[i].ref + x, x = 1 => Linked(s, i)
    PROVE  Goes(s, Put(s, i, h), {}) /\ Shift(s, Put(s, i, h), i, x)
<1>1. PICK t : t = Put(s, i, h)
  OBVIOUS
<1>2. s.item[i].ref \in Nat /\ (Linked(s, i) => s.item[i].ref >= 1)
  BY DEF StoreOK, ItemOK, Net, One
<1>3. Changed(s, i, h, t)
  <2>1. Linked(s, i) => h.key = s.item[i].key /\ h.ref >= 1 /\ h.cas = s.item[i].cas /\ h.val = s.item[i].val
    BY <1>2
  <2> QED BY <1>1, <2>1, PutIs
<1>4. Net(s, i) \in Nat /\ Net(t, i) = Net(s, i) + x
  BY <1>2, <1>3, NetIs DEF Changed
<1>5. \A j \in DOMAIN s.item : j # i => Net(t, j) = Net(s, j) /\ t.item[j] = s.item[j] /\ Linked(t, j) = Linked(s, j)
  BY <1>3 DEF Changed
<1>6. \A j \in DOMAIN s.item : Net(s, j) \in Nat
  BY NetIs
<1>7. Shift(s, t, i, x)
  BY <1>4, <1>5, <1>6 DEF Shift
<1>8. t.item[i] = h /\ Linked(t, i) = Linked(s, i)
  BY <1>3 DEF Changed
<1>9. Vals(s, t)
  BY <1>5, <1>8 DEF Vals
<1>10. Lone(s, i) => Lone(t, i)
  BY <1>4, <1>8 DEF Lone
<1>11. Lones(s, t, {})
  BY <1>5, <1>8, <1>10 DEF Lones, Lone
<1> QED BY <1>1, <1>3, <1>7, <1>9, <1>11 DEF Goes, Changed

LEMMA UpdateGoes ==
    ASSUME NEW s, StoreOK(s), NEW i \in DOMAIN s.item
    PROVE  /\ Goes(s, do_item_update(s, i), {}) /\ Shift(s, do_item_update(s, i), i, 0)
           /\ do_item_update(s, i).item[i].val = s.item[i].val /\ do_item_update(s, i).item[i].cas = s.item[i].cas
           /\ do_item_update(s, i).item[i].key = s.item[i].key
           /\ Linked(do_item_update(s, i), i) = Linked(s, i)
           /\ do_item_update(s, i).link = s.link
<1>1. PICK h : h = [s.item[i] EXCEPT !.time = s.now]
  OBVIOUS
<1>2. ItemOK(s.item[i])
  BY DEF StoreOK
<1>3. ItemOK(h) /\ h.key = s.item[i].key /\ h.cas = s.item[i].cas /\ h.val = s.item[i].val /\ h.ref = s.item[i].ref + 0
  BY <1>1, <1>2 DEF ItemOK, ItemFields
<1>4. Goes(s, Put(s, i, h), {}) /\ Shift(s, Put(s, i, h), i, 0)
  BY <1>3, TouchGoes
<1>5. Goes(s, s, {}) /\ Shift(s, s, i, 0)
  BY GoesNowhere DEF Shift
<1>6. do_item_update(s, i) = Put(s, i, h) \/ do_item_update(s, i) = s
  BY <1>1 DEF do_item_update, Put, StoreOK, StoreFields
<1>7. /\ DOMAIN Put(s, i, h) = StoreFields /\ DOMAIN Put(s, i, h).item = DOMAIN s.item
      /\ Put(s, i, h).item[i] = h /\ \A j \in DOMAIN s.item : j # i => Put(s, i, h).item[j] = s.item[j]
      /\ Put(s, i, h).item = [j \in DOMAIN s.item |-> Put(s, i, h).item[j]]
      /\ Put(s, i, h).link = s.link /\ Put(s, i, h).cas_id = s.cas_id /\ Put(s, i, h).now = s.now
      /\ Put(s, i, h).oldest_live = s.oldest_live /\ Put(s, i, h).oldest_cas = s.oldest_cas
  BY PutFields
<1>8. Linked(Put(s, i, h), i) = Linked(s, i)
  BY <1>3, <1>7 DEF Linked
<1> QED BY <1>3, <1>4, <1>5, <1>6, <1>7, <1>8

\* The link of an item is cut: its reference remains.
Unlinked(s, i) == [s EXCEPT !.link = [s.link EXCEPT ![s.item[i].key] = None]]

LEMMA CutIs ==
    ASSUME NEW s, StoreOK(s), NEW i \in DOMAIN s.item, Linked(s, i)
    PROVE  /\ Goes(s, Unlinked(s, i), {}) /\ Shift(s, Unlinked(s, i), i, 1)
           /\ ~Linked(Unlinked(s, i), i) /\ Unlinked(s, i).item = s.item
           /\ \A k \in Keys : Unlinked(s, i).link[k] = IF k = s.item[i].key THEN None ELSE s.link[k]
<1>1. PICK t : t = Unlinked(s, i)
  OBVIOUS
<1>2. /\ DOMAIN t = StoreFields /\ t.item = s.item /\ t.cas_id = s.cas_id /\ t.now = s.now
      /\ t.oldest_live = s.oldest_live /\ t.oldest_cas = s.oldest_cas
      /\ t.link = [s.link EXCEPT ![s.item[i].key] = None]
  BY <1>1 DEF Unlinked, StoreOK, StoreFields
<1>3. s.item[i].key \in Keys
  BY DEF StoreOK, ItemOK, Linked
<1>4. /\ t.link \in [Keys -> DOMAIN s.item \cup {None}]
      /\ \A k \in Keys : t.link[k] = IF k = s.item[i].key THEN None ELSE s.link[k]
  BY <1>2, <1>3 DEF StoreOK
<1>5. \A j \in DOMAIN s.item : s.item[j].key \in Keys \cup {None} /\ j # None
  BY StoreAssumption DEF StoreOK, ItemOK
<1>6. \A j \in DOMAIN s.item : Linked(t, j) = (Linked(s, j) /\ j # i)
  <2> SUFFICES ASSUME NEW j \in DOMAIN s.item PROVE Linked(t, j) = (Linked(s, j) /\ j # i)
    OBVIOUS
  <2>1. CASE s.item[j].key = s.item[i].key
    BY <1>2, <1>3, <1>4, <1>5, <2>1 DEF Linked
  <2>2. CASE s.item[j].key # s.item[i].key
    BY <1>2, <1>4, <1>5, <2>2 DEF Linked
  <2> QED BY <2>1, <2>2
<1>7. \A j \in DOMAIN s.item : j # i => Net(t, j) = Net(s, j)
  <2>1. \A j \in DOMAIN s.item : Linked(s, j) \in BOOLEAN /\ Linked(t, j) \in BOOLEAN
    BY DEF Linked
  <2>2. \A j \in DOMAIN s.item : j # i => Linked(t, j) = Linked(s, j)
    BY <1>6, <2>1
  <2> QED BY <1>2, <2>2 DEF Net
<1>8. Net(t, i) = Net(s, i) + 1 /\ Net(s, i) \in Nat
  <2>1. PICK r \in Nat : r = s.item[i].ref
    BY DEF StoreOK, ItemOK
  <2>2. ~Linked(t, i)
    BY <1>6
  <2>3. Net(t, i) = r - 0 /\ Net(s, i) = r - 1
    BY <1>2, <2>1, <2>2 DEF Net, One
  <2> QED BY <2>1, <2>3, NetIs
<1>9. \A j \in DOMAIN s.item : Net(s, j) \in Nat
  BY NetIs
<1>10. StoreOK(t)
  <2>1. \A j \in DOMAIN t.item : ItemOK(t.item[j]) /\ Net(t, j) >= 0
    BY <1>2, <1>7, <1>8, <1>9 DEF StoreOK
  <2>2. \A k \in Keys : t.link[k] # None => t.item[t.link[k]].key = k
    BY <1>2, <1>4 DEF StoreOK
  <2>3. \A j \in DOMAIN t.item : Linked(t, j) => t.item[j].cas \in 1 .. t.cas_id /\ t.item[j].cas # t.oldest_cas
    BY <1>2, <1>6 DEF StoreOK
  <2>4. Distinct(t)
    BY <1>2, <1>6, DistinctStays DEF StoreOK
  <2> QED BY <1>2, <1>4, <2>1, <2>2, <2>3, <2>4 DEF StoreOK
<1>11. Shift(s, t, i, 1)
  BY <1>7, <1>8, <1>9 DEF Shift
<1>12. Vals(s, t) /\ Lones(s, t, {}) /\ Ages(s, t)
  <2>1. s.cas_id <= t.cas_id
    BY <1>2 DEF StoreOK
  <2>2. Lones(s, t, {})
    BY <1>2, <1>6, <1>7 DEF Lones, Lone
  <2> QED BY <1>2, <1>6, <2>1, <2>2 DEF Vals, Ages
<1> QED BY <1>1, <1>2, <1>4, <1>6, <1>10, <1>11, <1>12 DEF Goes

\* item_unlink: nobody's references change.
LEMMA UnlinkGoes ==
    ASSUME NEW s, StoreOK(s), NEW i \in DOMAIN s.item
    PROVE  /\ Goes(s, do_item_unlink(s, i), {}) /\ Shift(s, do_item_unlink(s, i), i, 0)
           /\ ~Linked(do_item_unlink(s, i), i)
           /\ \A j \in DOMAIN s.item : j # i => do_item_unlink(s, i).item[j] = s.item[j]
           /\ Linked(s, i) => do_item_unlink(s, i).link = [s.link EXCEPT ![s.item[i].key] = None]
           /\ ~Linked(s, i) => do_item_unlink(s, i) = s
<1>1. CASE ~Linked(s, i)
  BY <1>1, GoesNowhere DEF do_item_unlink, Shift
<1>2. CASE Linked(s, i)
  <2>1. PICK t : t = Unlinked(s, i)
    OBVIOUS
  <2>2. /\ Goes(s, t, {}) /\ Shift(s, t, i, 1) /\ ~Linked(t, i) /\ t.item = s.item
    BY <1>2, <2>1, CutIs
  <2>3. PICK u : u = do_item_remove(t, i)
    OBVIOUS
  <2>4. do_item_unlink(s, i) = u
    BY <1>2, <2>1, <2>3 DEF do_item_unlink, Unlinked, StoreOK, StoreFields
  <2>5. Net(s, i) \in Nat /\ Net(t, i) = Net(s, i) + 1 /\ StoreOK(t)
    BY <2>2, NetIs DEF Goes, Shift
  <2>6. Goes(t, u, {i}) /\ Shift(t, u, i, -1)
    BY <2>2, <2>3, <2>5, RemoveGoes DEF Goes
  <2>7. u = Put(t, i, Lower(t.item[i]))
    BY <2>2, <2>3, <2>5, RemoveIs DEF Put
  <2>8. /\ u.item[i] = Lower(t.item[i]) /\ \A j \in DOMAIN s.item : j # i => u.item[j] = s.item[j]
        /\ u.link = t.link
    <3>1. PICK h : h = Lower(t.item[i])
      OBVIOUS
    <3>2. StoreOK(t) /\ i \in DOMAIN t.item /\ u = Put(t, i, h)
      BY <2>2, <2>5, <2>7, <3>1
    <3>3. /\ DOMAIN Put(t, i, h) = StoreFields /\ DOMAIN Put(t, i, h).item = DOMAIN t.item
          /\ Put(t, i, h).item[i] = h /\ \A j \in DOMAIN t.item : j # i => Put(t, i, h).item[j] = t.item[j]
          /\ Put(t, i, h).item = [j \in DOMAIN t.item |-> Put(t, i, h).item[j]]
          /\ Put(t, i, h).link = t.link /\ Put(t, i, h).cas_id = t.cas_id /\ Put(t, i, h).now = t.now
          /\ Put(t, i, h).oldest_live = t.oldest_live /\ Put(t, i, h).oldest_cas = t.oldest_cas
      BY <3>2, PutFields
    <3> QED BY <2>2, <3>1, <3>2, <3>3
  <2>9. \A j \in DOMAIN s.item : Net(s, j) \in Nat /\ Net(u, j) = Net(s, j)
    BY <2>2, <2>6, NetIs DEF Goes, Shift
  <2>10. ItemOK(s.item[i]) /\ s.item[i].ref >= 1
    BY <1>2, <2>5 DEF StoreOK, ItemOK, Net, One
  <2>11. ~Linked(u, i)
    <3>1. Lower(s.item[i]).key = s.item[i].key \/ Lower(s.item[i]).key = None
      BY <2>10, LowerIs DEF ItemOK
    <3> QED BY <2>2, <2>8, <3>1 DEF Linked
  <2>12. Vals(s, u)
    BY <2>2, <2>6, <2>9 DEF Goes, Vals, Shift
  <2>13. Lones(s, u, {})
    BY <1>2, <2>2, <2>6 DEF Goes, Lones, Lone
  <2>14. Ages(s, u)
    BY <2>2, <2>6, AgesOn DEF Goes
  <2>15. t.link = [s.link EXCEPT ![s.item[i].key] = None]
    BY <2>1 DEF Unlinked, StoreOK, StoreFields
  <2>16. Shift(s, u, i, 0)
    BY <2>9 DEF Shift
  <2>17. Goes(s, u, {})
    BY <2>2, <2>6, <2>12, <2>13, <2>14 DEF Goes
  <2> QED BY <1>2, <2>4, <2>8, <2>11, <2>15, <2>16, <2>17
<1> QED BY <1>1, <1>2

\* item_link of an item whose key is not linked: the link has a reference of its own.
LEMMA LinkGoes ==
    ASSUME NEW s, StoreOK(s), NEW i \in DOMAIN s.item, ~Linked(s, i), s.item[i].key \in Keys,
           s.link[s.item[i].key] = None
    PROVE  /\ Goes(s, do_item_link(s, i), {i}) /\ Shift(s, do_item_link(s, i), i, 0)
           /\ Linked(do_item_link(s, i), i)
           /\ \A j \in DOMAIN s.item : j # i => do_item_link(s, i).item[j] = s.item[j]
           /\ do_item_link(s, i).item[i].val = s.item[i].val /\ do_item_link(s, i).item[i].key = s.item[i].key
           /\ do_item_link(s, i).item[i].cas = s.cas_id + 1
           /\ \A j \in DOMAIN s.item : j # i => Linked(do_item_link(s, i), j) = Linked(s, j)
<1>1. PICK t : t = do_item_link(s, i)
  OBVIOUS
<1>2. PICK k \in Keys : k = s.item[i].key
  OBVIOUS
<1>3. PICK h : h = s.item[i]
  OBVIOUS
<1>4. ItemOK(h) /\ s.cas_id \in Nat /\ h.ref \in Nat
  BY <1>3 DEF StoreOK, ItemOK
<1>5. PICK g : g = [[[h EXCEPT !.ref = h.ref + 1] EXCEPT !.time = s.now] EXCEPT !.cas = s.cas_id + 1]
  OBVIOUS
<1>6. ItemOK(g) /\ g.ref = h.ref + 1 /\ g.cas = s.cas_id + 1 /\ g.key = h.key /\ g.val = h.val
  BY <1>4, <1>5 DEF ItemOK, ItemFields
<1>7. DOMAIN s = StoreFields /\ i \in DOMAIN s.item /\ DOMAIN h = ItemFields
  BY <1>4 DEF StoreOK, ItemOK
<1>8. /\ DOMAIN t = StoreFields /\ t.cas_id = s.cas_id + 1 /\ t.now = s.now
      /\ t.oldest_live = s.oldest_live /\ t.oldest_cas = s.oldest_cas
      /\ t.link = [s.link EXCEPT ![k] = i] /\ t.item = [s.item EXCEPT ![i] = g]
  <2>1. /\ DOMAIN t = StoreFields /\ t.cas_id = s.cas_id + 1 /\ t.now = s.now
        /\ t.oldest_live = s.oldest_live /\ t.oldest_cas = s.oldest_cas
        /\ t.link = [s.link EXCEPT ![k] = i]
    BY <1>1, <1>2, <1>7 DEF do_item_link, StoreFields
  <2>2. t.item = [[[s.item EXCEPT ![i].ref = h.ref + 1] EXCEPT ![i].time = s.now] EXCEPT ![i].cas = s.cas_id + 1]
    BY <1>1, <1>3, <1>7 DEF do_item_link, StoreFields
  <2>3. [[[s.item EXCEPT ![i].ref = h.ref + 1] EXCEPT ![i].time = s.now] EXCEPT ![i].cas = s.cas_id + 1]
          = [s.item EXCEPT ![i] = g]
    BY <1>3, <1>5, <1>7 DEF ItemFields
  <2> QED BY <2>1, <2>2, <2>3
<1>9. /\ DOMAIN t.item = DOMAIN s.item /\ t.item[i] = g /\ \A j \in DOMAIN s.item : j # i => t.item[j] = s.item[j]
      /\ t.item = [j \in DOMAIN t.item |-> t.item[j]]
  BY <1>8 DEF StoreOK
<1>10. /\ t.link \in [Keys -> DOMAIN s.item \cup {None}]
       /\ \A m \in Keys : t.link[m] = IF m = k THEN i ELSE s.link[m]
  BY <1>8 DEF StoreOK
<1>11. /\ \A j \in DOMAIN s.item : s.item[j].key \in Keys \cup {None} /\ j # None
       /\ k # None /\ k = g.key /\ s.link[k] = None
  BY <1>2, <1>3, <1>6, StoreAssumption DEF StoreOK, ItemOK
<1>12. Linked(t, i)
  BY <1>9, <1>10, <1>11 DEF Linked
<1>13. \A j \in DOMAIN s.item : j # i => Linked(t, j) = Linked(s, j)
  <2> SUFFICES ASSUME NEW j \in DOMAIN s.item, j # i PROVE Linked(t, j) = Linked(s, j)
    OBVIOUS
  <2>1. CASE s.item[j].key = k
    BY <1>9, <1>10, <1>11, <2>1 DEF Linked
  <2>2. CASE s.item[j].key # k
    BY <1>9, <1>10, <1>11, <2>2 DEF Linked
  <2> QED BY <2>1, <2>2
<1>14. \A j \in DOMAIN s.item : j # i => Net(t, j) = Net(s, j)
  BY <1>9, <1>13 DEF Net
<1>15. Net(t, i) = Net(s, i) /\ Net(s, i) \in Nat
  <2>1. Net(s, i) = h.ref - 0 /\ Net(t, i) = (h.ref + 1) - 1
    BY <1>3, <1>6, <1>9, <1>12 DEF Net, One
  <2> QED BY <1>4, <2>1
<1>16. \A j \in DOMAIN s.item : Net(s, j) \in Nat
  BY NetIs
<1>17. \A j \in DOMAIN s.item : Linked(t, j) => (j = i \/ (Linked(s, j) /\ t.item[j] = s.item[j]))
  BY <1>9, <1>13
<1>18. StoreOK(t)
  <2>1. \A j \in DOMAIN t.item : ItemOK(t.item[j]) /\ Net(t, j) >= 0
    BY <1>6, <1>9, <1>14, <1>15, <1>16 DEF StoreOK
  <2>2. \A m \in Keys : t.link[m] # None => t.item[t.link[m]].key = m
    <3> SUFFICES ASSUME NEW m \in Keys, t.link[m] # None PROVE t.item[t.link[m]].key = m
      OBVIOUS
    <3>1. CASE m = k
      BY <1>9, <1>10, <1>11, <3>1
    <3>2. CASE m # k
      <4>1. t.link[m] = s.link[m] /\ s.item[s.link[m]].key = m /\ s.link[m] \in DOMAIN s.item
        BY <1>10, <3>2 DEF StoreOK
      <4>2. s.link[m] # i
        BY <1>2, <3>2, <4>1
      <4> QED BY <1>9, <4>1, <4>2
    <3> QED BY <3>1, <3>2
  <2>3. ASSUME NEW j \in DOMAIN t.item, Linked(t, j) PROVE t.item[j].cas \in 1 .. t.cas_id /\ t.item[j].cas # t.oldest_cas
    <3>1. s.oldest_cas \in Nat /\ s.oldest_cas <= s.cas_id
      BY DEF StoreOK
    <3>2. CASE j = i
      BY <1>4, <1>6, <1>8, <1>9, <3>1, <3>2
    <3>3. CASE j # i
      <4>1. s.item[j].cas \in 1 .. s.cas_id /\ s.item[j].cas # s.oldest_cas
        BY <1>9, <1>17, <2>3, <3>3 DEF StoreOK
      <4> QED BY <1>4, <1>8, <1>9, <3>3, <4>1
    <3> QED BY <3>2, <3>3
  <2>4. {t.cas_id, t.now, t.oldest_live, t.oldest_cas} \subseteq Nat /\ t.now >= 2
    BY <1>8 DEF StoreOK
  <2>5. t.oldest_cas <= t.cas_id /\ (t.oldest_live = 0 => t.oldest_cas = 0)
    BY <1>8 DEF StoreOK
  <2>6. DOMAIN t.item \subseteq Items
    BY <1>9 DEF StoreOK
  <2>7. Distinct(t)
    BY <1>6, <1>9, <1>17, DistinctGrows
  <2> QED BY <1>8, <1>9, <1>10, <2>1, <2>2, <2>3, <2>4, <2>5, <2>6, <2>7 DEF StoreOK
<1>19. Shift(s, t, i, 0)
  BY <1>14, <1>15, <1>16 DEF Shift
<1>20. Vals(s, t)
  BY <1>3, <1>6, <1>9 DEF Vals
<1>21. Lones(s, t, {i})
  BY <1>9, <1>13, <1>14 DEF Lones, Lone
<1>22. Ages(s, t)
  <2>1. t.item[i].cas > s.cas_id /\ s.cas_id <= t.cas_id
    BY <1>4, <1>6, <1>8, <1>9
  <2> QED BY <1>17, <2>1 DEF Ages
<1>23. Goes(s, t, {i})
  BY <1>9, <1>18, <1>20, <1>21, <1>22 DEF Goes
<1> QED BY <1>1, <1>3, <1>6, <1>9, <1>12, <1>13, <1>19, <1>23

\* Two steps, where nothing that is held throughout is let go in between.
LEMMA GoesOn ==
    ASSUME NEW s, NEW t, NEW u, NEW X, NEW Y, StoreOK(s), Goes(s, t, X), Goes(t, u, Y),
           \A j \in DOMAIN s.item : Net(t, j) = 0 => Net(s, j) = 0 \/ Net(u, j) = 0
    PROVE  Goes(s, u, X \cup Y)
<1>1. StoreOK(t) /\ StoreOK(u) /\ DOMAIN t.item = DOMAIN s.item /\ DOMAIN u.item = DOMAIN s.item
  BY DEF Goes
<1>2. Ages(s, u)
  BY <1>1, AgesOn DEF Goes
<1>3. Vals(s, u)
  BY <1>1 DEF Goes, Vals
<1>4. Lones(s, u, X \cup Y)
  BY <1>1 DEF Goes, Lones
<1> QED BY <1>1, <1>2, <1>3, <1>4 DEF Goes

LEMMA UnlinkLeaves ==
    ASSUME NEW s, StoreOK(s), NEW i \in DOMAIN s.item, NEW j \in DOMAIN s.item, j # i
    PROVE  Linked(do_item_unlink(s, i), j) = Linked(s, j)
<1>1. /\ \A m \in DOMAIN s.item : m # i => do_item_unlink(s, i).item[m] = s.item[m]
      /\ Linked(s, i) => do_item_unlink(s, i).link = [s.link EXCEPT ![s.item[i].key] = None]
      /\ ~Linked(s, i) => do_item_unlink(s, i) = s
  BY UnlinkGoes
<1>2. CASE ~Linked(s, i)
  BY <1>1, <1>2
<1>3. CASE Linked(s, i)
  <2>1. PICK t : t = do_item_unlink(s, i)
    OBVIOUS
  <2>2. t.item[j] = s.item[j] /\ t.link = [s.link EXCEPT ![s.item[i].key] = None]
    BY <1>1, <1>3, <2>1
  <2>3. /\ s.item[i].key \in Keys /\ s.item[j].key \in Keys \cup {None} /\ j # None
        /\ s.link[s.item[i].key] = i /\ s.link \in [Keys -> DOMAIN s.item \cup {None}]
    BY <1>3, StoreAssumption DEF StoreOK, ItemOK, Linked
  <2>4. CASE s.item[j].key = s.item[i].key
    BY <2>1, <2>2, <2>3, <2>4 DEF Linked
  <2>5. CASE s.item[j].key # s.item[i].key
    BY <2>1, <2>2, <2>3, <2>5 DEF Linked
  <2> QED BY <2>4, <2>5
<1> QED BY <1>2, <1>3

\* item_replace of an item that is linked by another of its key.
LEMMA ReplaceGoes ==
    ASSUME NEW s, StoreOK(s), NEW old \in DOMAIN s.item, NEW i \in DOMAIN s.item,
           Linked(s, old), ~Linked(s, i), s.item[i].key = s.item[old].key, Net(s, old) >= 1
    PROVE  /\ Goes(s, do_item_replace(s, old, i), {i}) /\ Shift(s, do_item_replace(s, old, i), i, 0)
           /\ Linked(do_item_replace(s, old, i), i)
           /\ ~Linked(do_item_replace(s, old, i), old)
           /\ do_item_replace(s, old, i).item[i].val = s.item[i].val
           /\ do_item_replace(s, old, i).item[i].key = s.item[i].key
           /\ do_item_replace(s, old, i).item[i].cas = s.cas_id + 1
<1>1. PICK t : t = do_item_unlink(s, old)
  OBVIOUS
<1>2. PICK u : u = do_item_replace(s, old, i)
  OBVIOUS
<1>3. u = do_item_link(t, i) /\ old # i
  BY <1>1, <1>2 DEF do_item_replace
<1>4. /\ Goes(s, t, {}) /\ Shift(s, t, old, 0) /\ ~Linked(t, old)
      /\ \A j \in DOMAIN s.item : j # old => t.item[j] = s.item[j]
      /\ t.link = [s.link EXCEPT ![s.item[old].key] = None]
  BY <1>1, UnlinkGoes
<1>5. t.cas_id = s.cas_id
  <2>1. StoreOK(Unlinked(s, old)) /\ Unlinked(s, old).item = s.item /\ Unlinked(s, old).cas_id = s.cas_id
    BY CutIs DEF Goes, Unlinked, StoreOK, StoreFields
  <2>2. t = do_item_remove(Unlinked(s, old), old)
    BY <1>1 DEF do_item_unlink, Unlinked, StoreOK, StoreFields
  <2> QED BY <2>1, <2>2 DEF do_item_remove, StoreOK, StoreFields
<1>6. StoreOK(t) /\ i \in DOMAIN t.item /\ t.item[i] = s.item[i] /\ DOMAIN t.item = DOMAIN s.item
  BY <1>3, <1>4 DEF Goes
<1>7. ~Linked(t, i)
  BY <1>1, <1>3, UnlinkLeaves
<1>8. t.item[i].key \in Keys /\ t.link[t.item[i].key] = None
  <2>1. PICK h, k : h = t.item[i] /\ k = h.key
    OBVIOUS
  <2>2. h = s.item[i] /\ k = s.item[old].key
    BY <1>6, <2>1
  <2>3. k \in Keys
    <3>1. ItemOK(s.item[old]) /\ s.item[old].key # None
      BY DEF StoreOK, Linked
    <3> QED BY <2>2, <3>1 DEF ItemOK
  <2>4. t.link[k] = None
    <3>1. DOMAIN s.link = Keys
      BY DEF StoreOK
    <3> QED BY <1>4, <2>2, <2>3, <3>1
  <2> QED BY <2>1, <2>3, <2>4
<1>9. /\ Goes(t, u, {i}) /\ Shift(t, u, i, 0) /\ Linked(u, i)
      /\ \A j \in DOMAIN t.item : j # i => Linked(u, j) = Linked(t, j)
      /\ u.item[i].val = t.item[i].val /\ u.item[i].key = t.item[i].key /\ u.item[i].cas = t.cas_id + 1
  BY <1>3, <1>6, <1>7, <1>8, LinkGoes
<1>10. \A j \in DOMAIN s.item : Net(t, j) = Net(s, j) /\ Net(u, j) = Net(s, j) /\ Net(s, j) \in Nat
  BY <1>4, <1>6, <1>9, NetIs DEF Shift
<1>11. Goes(s, u, {} \cup {i})
  BY <1>4, <1>9, <1>10, GoesOn
<1>12. Goes(s, u, {i})
  BY <1>11 DEF Goes, Lones
<1>13. Shift(s, u, i, 0)
  BY <1>10 DEF Shift
<1>14. ~Linked(u, old)
  <2>1. Linked(u, old) = Linked(t, old)
    BY <1>3, <1>6, <1>9
  <2> QED BY <1>4, <2>1
<1> QED BY <1>2, <1>5, <1>6, <1>9, <1>12, <1>13, <1>14

\* What a lookup of k in s gives.
Got(s, k, g) ==
    /\ g.it \in DOMAIN s.item \cup {None} /\ StoreOK(g.s) /\ DOMAIN g.s.item = DOMAIN s.item
    /\ g.it = None => Goes(s, g.s, {}) /\ Shift(s, g.s, None, 0) /\ g.s.link[k] = None
    /\ g.it # None =>
         /\ Goes(s, g.s, {}) /\ Shift(s, g.s, g.it, 1)
         /\ s.link[k] = g.it /\ Linked(s, g.it) /\ Linked(g.s, g.it) /\ g.s.item[g.it].key = k
         /\ g.s.item[g.it].val = s.item[g.it].val /\ g.s.item[g.it].cas = s.item[g.it].cas
         /\ ~item_is_flushed(s, g.it)
    /\ g.it # None => g.it \in DOMAIN s.item

LEMMA LookedUp ==
    ASSUME NEW s, StoreOK(s), NEW k \in Keys, s.link[k] # None
    PROVE  s.link[k] \in DOMAIN s.item /\ s.item[s.link[k]].key = k /\ Linked(s, s.link[k]) /\ k # None
BY StoreAssumption DEF StoreOK, Linked

LEMMA GetIs ==
    ASSUME NEW s, StoreOK(s), NEW k \in Keys
    PROVE  Got(s, k, do_item_get(s, k))
<1>1. PICK i : i = s.link[k]
  OBVIOUS
<1>2. PICK g : g = do_item_get(s, k)
  OBVIOUS
<1>3. \A j \in DOMAIN s.item : j # None
  BY StoreAssumption DEF StoreOK
<1>4. CASE i = None
  <2>1. g = [s |-> s, it |-> None]
    BY <1>1, <1>2, <1>4 DEF do_item_get
  <2>2. g.s = s /\ g.it = None /\ s.link[k] = None
    BY <1>1, <1>4, <2>1
  <2>3. Goes(s, s, {}) /\ Shift(s, s, None, 0)
    BY GoesNowhere
  <2>4. Got(s, k, g)
    BY <2>2, <2>3 DEF Got
  <2> QED BY <1>2, <2>4
<1>5. CASE i # None
  <2>1. i \in DOMAIN s.item /\ s.item[i].key = k /\ Linked(s, i) /\ k # None
    BY <1>1, <1>5, LookedUp
  <2>2. CASE item_is_flushed(s, i) \/ Expired(s, i)
    <3>1. g = [s |-> do_item_unlink(s, i), it |-> None]
      BY <1>1, <1>2, <1>5, <2>2 DEF do_item_get
    <3>2. PICK t : t = do_item_unlink(s, i)
      OBVIOUS
    <3>3. Goes(s, t, {}) /\ Shift(s, t, i, 0) /\ t.link = [s.link EXCEPT ![s.item[i].key] = None]
      BY <2>1, <3>2, UnlinkGoes
    <3>4. Shift(s, t, None, 0)
      BY <3>3 DEF Shift
    <3>5. t.link[k] = None
      BY <2>1, <3>3 DEF StoreOK
    <3>6. g.s = t /\ g.it = None /\ StoreOK(t) /\ DOMAIN t.item = DOMAIN s.item
      BY <3>1, <3>2, <3>3 DEF Goes
    <3>7. Got(s, k, g)
      BY <3>3, <3>4, <3>5, <3>6 DEF Got
    <3> QED BY <1>2, <3>7
  <2>3. CASE ~(item_is_flushed(s, i) \/ Expired(s, i))
    <3>1. PICK h : h = [s.item[i] EXCEPT !.ref = s.item[i].ref + 1]
      OBVIOUS
    <3>2. PICK t : t = Put(s, i, h)
      OBVIOUS
    <3>3. g = [s |-> t, it |-> i]
      BY <1>1, <1>2, <1>5, <2>3, <3>1, <3>2 DEF do_item_get, Put, StoreOK, StoreFields
    <3>4. ItemOK(s.item[i])
      BY <2>1 DEF StoreOK
    <3>5. ItemOK(h) /\ h.key = s.item[i].key /\ h.cas = s.item[i].cas /\ h.val = s.item[i].val /\ h.ref = s.item[i].ref + 1
      BY <3>1, <3>4 DEF ItemOK, ItemFields
    <3>6. Goes(s, t, {}) /\ Shift(s, t, i, 1)
      BY <2>1, <3>2, <3>5, TouchGoes
    <3>7. /\ DOMAIN Put(s, i, h) = StoreFields /\ DOMAIN Put(s, i, h).item = DOMAIN s.item
          /\ Put(s, i, h).item[i] = h /\ \A j \in DOMAIN s.item : j # i => Put(s, i, h).item[j] = s.item[j]
          /\ Put(s, i, h).item = [j \in DOMAIN s.item |-> Put(s, i, h).item[j]]
          /\ Put(s, i, h).link = s.link /\ Put(s, i, h).cas_id = s.cas_id /\ Put(s, i, h).now = s.now
          /\ Put(s, i, h).oldest_live = s.oldest_live /\ Put(s, i, h).oldest_cas = s.oldest_cas
      BY <2>1, PutFields
    <3>8. t.item[i] = h /\ t.link = s.link
      BY <3>2, <3>7
    <3>9. Linked(t, i)
      BY <2>1, <3>5, <3>8 DEF Linked
    <3>10. g.s = t /\ g.it = i /\ i # None /\ StoreOK(t) /\ DOMAIN t.item = DOMAIN s.item /\ i = s.link[k]
      BY <1>1, <1>3, <2>1, <3>3, <3>6 DEF Goes
    <3>11. Got(s, k, g)
      BY <2>1, <2>3, <3>5, <3>6, <3>8, <3>9, <3>10 DEF Got
    <3> QED BY <1>2, <3>11
  <2> QED BY <2>2, <2>3
<1> QED BY <1>4, <1>5

\* A looked up item is changed in what is not told apart here.
LEMMA GotOn ==
    ASSUME NEW s, StoreOK(s), NEW k \in Keys, NEW g, Got(s, k, g), g.it # None,
           NEW u, Goes(g.s, u, {}), Shift(g.s, u, g.it, 0),
           Linked(u, g.it) = Linked(g.s, g.it), u.item[g.it].key = g.s.item[g.it].key,
           u.item[g.it].val = g.s.item[g.it].val, u.item[g.it].cas = g.s.item[g.it].cas
    PROVE  Got(s, k, [s |-> u, it |-> g.it])
<1>1. PICK t, i : t = g.s /\ i = g.it
  OBVIOUS
<1>2. PICK f : f = [s |-> u, it |-> g.it]
  OBVIOUS
<1>3. f.s = u /\ f.it = i
  BY <1>1, <1>2
<1>4. Goes(s, t, {}) /\ Shift(s, t, i, 1) /\ Goes(t, u, {}) /\ Shift(t, u, i, 0) /\ i \in DOMAIN s.item
  BY <1>1 DEF Got
<1>5. \A j \in DOMAIN s.item : Net(s, j) \in Nat /\ Net(t, j) = Net(s, j) + (IF j = i THEN 1 ELSE 0) /\ Net(u, j) = Net(t, j)
  BY <1>4, NetIs DEF Shift, Goes
<1>6. \A j \in DOMAIN s.item : Net(t, j) = 0 => Net(s, j) = 0
  BY <1>5
<1>7. Goes(s, u, {} \cup {})
  BY <1>4, <1>6, GoesOn
<1>8. Goes(s, u, {}) /\ Shift(s, u, i, 1)
  BY <1>5, <1>7 DEF Shift
<1> QED BY <1>1, <1>2, <1>3, <1>8 DEF Got, Goes

LEMMA ItemGetIs ==
    ASSUME NEW s, StoreOK(s), NEW k \in Keys
    PROVE  Got(s, k, item_get(s, k))
<1>1. PICK g : g = do_item_get(s, k)
  OBVIOUS
<1>2. Got(s, k, g)
  BY <1>1, GetIs
<1>3. CASE g.it = None
  BY <1>1, <1>2, <1>3 DEF item_get
<1>4. CASE g.it # None
  <2>1. PICK u : u = do_item_update(g.s, g.it)
    OBVIOUS
  <2>2. StoreOK(g.s) /\ g.it \in DOMAIN g.s.item
    BY <1>2, <1>4 DEF Got
  <2>3. /\ Goes(g.s, u, {}) /\ Shift(g.s, u, g.it, 0)
        /\ u.item[g.it].val = g.s.item[g.it].val /\ u.item[g.it].cas = g.s.item[g.it].cas
        /\ u.item[g.it].key = g.s.item[g.it].key /\ Linked(u, g.it) = Linked(g.s, g.it)
    BY <2>1, <2>2, UpdateGoes
  <2>4. Got(s, k, [s |-> u, it |-> g.it])
    BY <1>2, <1>4, <2>3, GotOn
  <2>5. DOMAIN g = {"s", "it"}
    BY <1>1 DEF do_item_get
  <2>6. g = [s |-> g.s, it |-> g.it]
    BY <1>1 DEF do_item_get
  <2>7. item_get(s, k) = [s |-> u, it |-> g.it]
    BY <1>1, <1>4, <2>1, <2>6 DEF item_get
  <2> QED BY <2>4, <2>7
<1> QED BY <1>3, <1>4

LEMMA GetRecord ==
    ASSUME NEW s, NEW k
    PROVE  item_get(s, k) = [s |-> item_get(s, k).s, it |-> item_get(s, k).it]
<1>1. PICK g : g = do_item_get(s, k)
  OBVIOUS
<1>2. DOMAIN g = {"s", "it"} /\ g = [s |-> g.s, it |-> g.it]
  BY <1>1 DEF do_item_get
<1>3. PICK u : u = do_item_update(g.s, g.it)
  OBVIOUS
<1>4. item_get(s, k) = g \/ item_get(s, k) = [g EXCEPT !.s = u]
  BY <1>1, <1>3 DEF item_get
<1>5. [g EXCEPT !.s = u] = [s |-> u, it |-> g.it]
  BY <1>2
<1> QED BY <1>2, <1>4, <1>5

LEMMA ItemTouchIs ==
    ASSUME NEW s, StoreOK(s), NEW k \in Keys, NEW exp
    PROVE  Got(s, k, item_touch(s, k, exp))
<1>1. PICK g : g = item_get(s, k)
  OBVIOUS
<1>2. Got(s, k, g)
  BY <1>1, ItemGetIs
<1>3. CASE g.it = None
  BY <1>1, <1>2, <1>3 DEF item_touch
<1>4. CASE g.it # None
  <2>1. PICK i, t : i = g.it /\ t = g.s
    OBVIOUS
  <2>2. StoreOK(t) /\ i \in DOMAIN t.item
    BY <1>2, <1>4, <2>1 DEF Got
  <2>3. PICK h : h = [t.item[i] EXCEPT !.exp = exp]
    OBVIOUS
  <2>4. ItemOK(t.item[i])
    BY <2>2 DEF StoreOK
  <2>5. ItemOK(h) /\ h.key = t.item[i].key /\ h.cas = t.item[i].cas /\ h.val = t.item[i].val /\ h.ref = t.item[i].ref + 0
    BY <2>3, <2>4 DEF ItemOK, ItemFields
  <2>6. PICK u : u = Put(t, i, h)
    OBVIOUS
  <2>7. Goes(t, u, {}) /\ Shift(t, u, i, 0)
    BY <2>2, <2>5, <2>6, TouchGoes
  <2>8. /\ DOMAIN Put(t, i, h) = StoreFields /\ DOMAIN Put(t, i, h).item = DOMAIN t.item
        /\ Put(t, i, h).item[i] = h /\ \A j \in DOMAIN t.item : j # i => Put(t, i, h).item[j] = t.item[j]
        /\ Put(t, i, h).item = [j \in DOMAIN t.item |-> Put(t, i, h).item[j]]
        /\ Put(t, i, h).link = t.link /\ Put(t, i, h).cas_id = t.cas_id /\ Put(t, i, h).now = t.now
        /\ Put(t, i, h).oldest_live = t.oldest_live /\ Put(t, i, h).oldest_cas = t.oldest_cas
    BY <2>2, PutFields
  <2>9. u.item[i] = h /\ u.link = t.link
    BY <2>6, <2>8
  <2>10. Linked(u, i) = Linked(t, i)
    BY <2>5, <2>9 DEF Linked
  <2>11. Got(s, k, [s |-> u, it |-> i])
    BY <1>2, <1>4, <2>1, <2>5, <2>7, <2>9, <2>10, GotOn
  <2>12. g = [s |-> t, it |-> i]
    BY <1>1, <2>1, GetRecord
  <2>13. item_touch(s, k, exp) = [s |-> u, it |-> i]
    <3>1. item_touch(s, k, exp) = [g EXCEPT !.s.item[i].exp = exp]
      BY <1>1, <1>4, <2>1 DEF item_touch
    <3>2. [g EXCEPT !.s.item[i].exp = exp] = [s |-> [t EXCEPT !.item[i].exp = exp], it |-> i]
      BY <2>12
    <3>3. [t EXCEPT !.item[i].exp = exp] = u
      BY <2>2, <2>3, <2>6 DEF Put, StoreOK, StoreFields
    <3> QED BY <3>1, <3>2, <3>3
  <2> QED BY <2>11, <2>13
<1> QED BY <1>3, <1>4

\* What an allocation gives: no item, or one that nobody had.
Given(s, k, a) ==
    /\ StoreOK(a.s) /\ DOMAIN a.s.item = DOMAIN s.item /\ a.it \in DOMAIN s.item \cup {None}
    /\ a.it = None => a.s = s
    /\ a.it # None =>
         /\ a.it \in DOMAIN s.item /\ Net(s, a.it) = 0 /\ Goes(s, a.s, {}) /\ Shift(s, a.s, a.it, 1)
         /\ Lone(a.s, a.it) /\ a.s.item[a.it].key = k /\ a.s.item[a.it].cas = 0
         /\ \A j \in DOMAIN s.item : j # a.it => a.s.item[j] = s.item[j] /\ Linked(a.s, j) = Linked(s, j)

LEMMA NewItemGoes ==
    ASSUME NEW s, StoreOK(s), NEW i \in DOMAIN s.item, Net(s, i) = 0, ~Linked(s, i),
           NEW k \in Keys, NEW room, NEW exp
    PROVE  Given(s, k, NewItem(s, i, k, room, exp))
<1>1. PICK h : h = [FreeItem EXCEPT !.ref = 1, !.key = k, !.room = room, !.exp = exp]
  OBVIOUS
<1>2. ItemOK(h) /\ h.ref = 1 /\ h.key = k /\ h.cas = 0
  BY <1>1 DEF FreeItem, ItemOK, ItemFields
<1>3. PICK t : t = Put(s, i, h)
  OBVIOUS
<1>4. NewItem(s, i, k, room, exp) = [s |-> t, it |-> i]
  BY <1>1, <1>3 DEF NewItem, Put, StoreOK, StoreFields
<1>5. Changed(s, i, h, t)
  BY <1>2, <1>3, PutIs
<1>6. s.item[i].ref = 0
  BY DEF StoreOK, ItemOK, Net, One
<1>7. Net(t, i) = 1 /\ ~Linked(t, i)
  BY <1>2, <1>5, <1>6 DEF Changed
<1>8. \A j \in DOMAIN s.item : Net(s, j) \in Nat
  BY NetIs
<1>9. Shift(s, t, i, 1)
  BY <1>5, <1>7, <1>8 DEF Changed, Shift
<1>10. Vals(s, t)
  BY <1>5 DEF Changed, Vals
<1>11. ~Lone(s, i)
  BY DEF Lone
<1>12. Lones(s, t, {})
  BY <1>5, <1>11 DEF Changed, Lones, Lone
<1>13. Goes(s, t, {})
  BY <1>5, <1>10, <1>12 DEF Changed, Goes
<1>14. Lone(t, i) /\ t.item[i] = h /\ StoreOK(t) /\ DOMAIN t.item = DOMAIN s.item
  BY <1>5, <1>7 DEF Changed, Lone
<1>15. \A j \in DOMAIN s.item : j # i => t.item[j] = s.item[j] /\ Linked(t, j) = Linked(s, j)
  BY <1>5 DEF Changed
<1>16. i # None
  BY StoreAssumption DEF StoreOK
<1>17. PICK a : a = NewItem(s, i, k, room, exp)
  OBVIOUS
<1>18. a.s = t /\ a.it = i
  BY <1>4, <1>17
<1>19. Given(s, k, a)
  BY <1>2, <1>9, <1>13, <1>14, <1>15, <1>16, <1>18 DEF Given
<1> QED BY <1>17, <1>19

LEMMA AllocIs ==
    ASSUME NEW s, StoreOK(s), NEW k \in Keys, NEW room, NEW exp, NEW a \in do_item_alloc(s, k, room, exp)
    PROVE  Given(s, k, a)
<1>1. PICK free : free = {i \in DOMAIN s.item : s.item[i].ref = 0}
  OBVIOUS
<1>2. CASE free # {}
  <2>1. PICK i \in free : a = NewItem(s, i, k, room, exp)
    BY <1>1, <1>2 DEF do_item_alloc
  <2>2. i \in DOMAIN s.item /\ Net(s, i) = 0 /\ ~Linked(s, i)
    BY <1>1 DEF StoreOK, Net, One
  <2> QED BY <2>1, <2>2, NewItemGoes
<1>3. CASE free = {}
  <2>1. CASE a = [s |-> s, it |-> None]
    BY <2>1 DEF Given
  <2>2. CASE a # [s |-> s, it |-> None]
    <3>1. PICK i \in DOMAIN s.item : Linked(s, i) /\ s.item[i].ref = 1 /\ a = NewItem(do_item_unlink(s, i), i, k, room, exp)
      BY <1>1, <1>3, <2>2 DEF do_item_alloc
    <3>2. PICK t : t = do_item_unlink(s, i)
      OBVIOUS
    <3>3. /\ Goes(s, t, {}) /\ Shift(s, t, i, 0) /\ ~Linked(t, i)
          /\ \A j \in DOMAIN s.item : j # i => t.item[j] = s.item[j]
      <4>1. i \in DOMAIN s.item
        BY <3>1
      <4>2. /\ Goes(s, do_item_unlink(s, i), {}) /\ Shift(s, do_item_unlink(s, i), i, 0)
            /\ ~Linked(do_item_unlink(s, i), i)
            /\ \A j \in DOMAIN s.item : j # i => do_item_unlink(s, i).item[j] = s.item[j]
            /\ Linked(s, i) => do_item_unlink(s, i).link = [s.link EXCEPT ![s.item[i].key] = None]
            /\ ~Linked(s, i) => do_item_unlink(s, i) = s
        BY <4>1, UnlinkGoes
      <4> QED BY <3>2, <4>2
    <3>4. \A j \in DOMAIN s.item : j # i => Linked(t, j) = Linked(s, j)
      BY <3>1, <3>2, UnlinkLeaves
    <3>5. Net(s, i) = 0 /\ Net(t, i) = 0 /\ StoreOK(t) /\ DOMAIN t.item = DOMAIN s.item
      <4>1. Net(s, i) = 0
        BY <3>1 DEF Net, One
      <4>2. Net(t, i) = Net(s, i) + 0
        BY <3>1, <3>3 DEF Shift
      <4> QED BY <3>3, <4>1, <4>2 DEF Goes
    <3>6. Given(t, k, a)
      BY <3>1, <3>2, <3>3, <3>5, NewItemGoes
    <3>7. PICK u : u = a.s
      OBVIOUS
    <3>8. a.it = i
      BY <3>1 DEF NewItem
    <3>9. i # None
      BY StoreAssumption DEF StoreOK
    <3>10. Goes(t, u, {}) /\ Shift(t, u, i, 1)
      BY <3>6, <3>7, <3>8, <3>9 DEF Given
    <3>11. \A j \in DOMAIN s.item : Net(t, j) = Net(s, j) /\ Net(s, j) \in Nat
      BY <3>3, NetIs DEF Shift
    <3>12. Goes(s, u, {} \cup {})
      BY <3>3, <3>10, <3>11, GoesOn
    <3>13. Shift(s, u, i, 1) /\ Goes(s, u, {})
      BY <3>5, <3>10, <3>11, <3>12 DEF Shift
    <3> QED BY <3>3, <3>4, <3>5, <3>6, <3>7, <3>8, <3>9, <3>13 DEF Given
  <2> QED BY <2>1, <2>2
<1> QED BY <1>2, <1>3

LEMMA GoesLess ==
    ASSUME NEW s, NEW t, NEW X, NEW x, Goes(s, t, X \cup {x}), x \in DOMAIN s.item => ~Lone(s, x)
    PROVE  Goes(s, t, X)
BY DEF Goes, Lones

LEMMA GoesMore ==
    ASSUME NEW s, NEW t, NEW X, NEW Y, Goes(s, t, X), X \subseteq Y
    PROVE  Goes(s, t, Y)
BY DEF Goes, Lones

\* An item i of key k that nobody had in s and that one connection has in t.
Fresh(s, k, t, i) ==
    /\ StoreOK(t) /\ DOMAIN t.item = DOMAIN s.item /\ i \in DOMAIN s.item /\ Net(s, i) = 0
    /\ Goes(s, t, {}) /\ Shift(s, t, i, 1) /\ Lone(t, i) /\ t.item[i].key = k
    /\ \A j \in DOMAIN s.item : j # i => t.item[j] = s.item[j] /\ Linked(t, j) = Linked(s, j)

LEMMA FreshPut ==
    ASSUME NEW s, StoreOK(s), NEW k, NEW a, Given(s, k, a), a.it # None,
           NEW h, ItemOK(h), h.ref = a.s.item[a.it].ref, h.key = k
    PROVE  Fresh(s, k, Put(a.s, a.it, h), a.it) /\ Put(a.s, a.it, h).item[a.it] = h
<1>1. PICK t, i : t = a.s /\ i = a.it
  OBVIOUS
<1>2. /\ StoreOK(t) /\ DOMAIN t.item = DOMAIN s.item /\ i \in DOMAIN s.item /\ Net(s, i) = 0
      /\ Goes(s, t, {}) /\ Shift(s, t, i, 1) /\ Lone(t, i) /\ t.item[i].key = k
      /\ \A j \in DOMAIN s.item : j # i => t.item[j] = s.item[j] /\ Linked(t, j) = Linked(s, j)
  BY <1>1 DEF Given
<1>3. PICK u : u = Put(t, i, h)
  OBVIOUS
<1>4. ~Linked(t, i) /\ Net(t, i) = 1
  BY <1>2 DEF Lone
<1>5. Changed(t, i, h, u)
  BY <1>2, <1>3, <1>4, PutIs
<1>6. t.item[i].ref \in Nat /\ h.ref = t.item[i].ref
  BY <1>1, <1>2 DEF StoreOK, ItemOK
<1>7. Net(u, i) = 1 /\ ~Linked(u, i) /\ u.item[i] = h /\ StoreOK(u) /\ DOMAIN u.item = DOMAIN s.item
  BY <1>2, <1>4, <1>5, <1>6 DEF Changed
<1>8. \A j \in DOMAIN s.item : j # i => u.item[j] = s.item[j] /\ Linked(u, j) = Linked(s, j) /\ Net(u, j) = Net(t, j)
  BY <1>2, <1>5 DEF Changed
<1>9. \A j \in DOMAIN s.item : Net(s, j) \in Nat /\ Net(t, j) = Net(s, j) + (IF j = i THEN 1 ELSE 0)
  BY <1>2, NetIs DEF Shift
<1>10. Shift(s, u, i, 1)
  BY <1>4, <1>7, <1>8, <1>9 DEF Shift
<1>11. Vals(s, u)
  BY <1>2, <1>8 DEF Vals
<1>12. Lones(s, u, {})
  BY <1>2, <1>8, <1>9 DEF Lones, Lone
<1>13. Ages(s, u)
  BY <1>2, <1>5, <1>7, AgesOn DEF Goes, Changed
<1>14. Goes(s, u, {})
  BY <1>7, <1>11, <1>12, <1>13 DEF Goes
<1>15. Lone(u, i)
  BY <1>7 DEF Lone
<1>16. Fresh(s, k, u, i)
  BY <1>2, <1>7, <1>8, <1>10, <1>14, <1>15 DEF Fresh
<1> QED BY <1>1, <1>3, <1>7, <1>16

\* A fresh item replaces the old one and its first reference is given back.
LEMMA FreshReplaces ==
    ASSUME NEW s, StoreOK(s), NEW k \in Keys, NEW old \in DOMAIN s.item, Linked(s, old), s.item[old].key = k,
           Net(s, old) >= 1, NEW t, NEW n, Fresh(s, k, t, n), NEW u, u = do_item_replace(t, old, n)
    PROVE  /\ Goes(s, u, {}) /\ Shift(s, u, n, 1) /\ ~Linked(u, old) /\ Linked(u, n)
           /\ u.item[n].val = t.item[n].val /\ u.item[n].cas = t.cas_id + 1 /\ n # old
           /\ Goes(s, do_item_remove(u, n), {}) /\ Shift(s, do_item_remove(u, n), None, 0)
<1>1. /\ StoreOK(t) /\ DOMAIN t.item = DOMAIN s.item /\ n \in DOMAIN s.item /\ Net(s, n) = 0
      /\ Goes(s, t, {}) /\ Shift(s, t, n, 1) /\ Lone(t, n) /\ t.item[n].key = k
      /\ \A j \in DOMAIN s.item : j # n => t.item[j] = s.item[j] /\ Linked(t, j) = Linked(s, j)
  BY DEF Fresh
<1>2. \A j \in DOMAIN s.item : Net(s, j) \in Nat /\ Net(t, j) = Net(s, j) + (IF j = n THEN 1 ELSE 0)
  BY <1>1, NetIs DEF Shift
<1>3. old # n /\ Linked(t, old) /\ ~Linked(t, n) /\ t.item[old].key = k /\ Net(t, old) >= 1
  BY <1>1, <1>2 DEF Lone
<1>4. old \in DOMAIN t.item /\ n \in DOMAIN t.item /\ t.item[n].key = t.item[old].key
  BY <1>1, <1>3
<1>5. /\ Goes(t, u, {n}) /\ Shift(t, u, n, 0) /\ Linked(u, n) /\ ~Linked(u, old)
      /\ u.item[n].val = t.item[n].val /\ u.item[n].cas = t.cas_id + 1
  BY <1>1, <1>3, <1>4, ReplaceGoes
<1>6. \A j \in DOMAIN s.item : Net(u, j) = Net(t, j)
  BY <1>1, <1>2, <1>5 DEF Shift
<1>7. \A j \in DOMAIN s.item : Net(t, j) = 0 => Net(s, j) = 0 \/ Net(u, j) = 0
  BY <1>6
<1>8. Goes(s, u, {} \cup {n})
  BY <1>1, <1>5, <1>7, GoesOn
<1>9. ~Lone(s, n)
  BY <1>1 DEF Lone
<1>10. Goes(s, u, {}) /\ Shift(s, u, n, 1)
  BY <1>2, <1>6, <1>8, <1>9, GoesLess DEF Shift
<1>11. PICK v : v = do_item_remove(u, n)
  OBVIOUS
<1>12. StoreOK(u) /\ DOMAIN u.item = DOMAIN s.item /\ Net(u, n) >= 1 /\ n \in DOMAIN u.item
  BY <1>1, <1>2, <1>6, <1>10 DEF Goes
<1>13. Goes(u, v, {n}) /\ Shift(u, v, n, -1)
  BY <1>11, <1>12, RemoveGoes
<1>14. \A j \in DOMAIN s.item : Net(v, j) = Net(s, j)
  BY <1>2, <1>6, <1>12, <1>13 DEF Shift
<1>15. \A j \in DOMAIN s.item : Net(u, j) = 0 => Net(s, j) = 0 \/ Net(v, j) = 0
  BY <1>2, <1>6
<1>16. Goes(s, v, {} \cup {n})
  BY <1>10, <1>13, <1>15, GoesOn
<1>17. Goes(s, v, {}) /\ Shift(s, v, None, 0)
  BY <1>2, <1>9, <1>14, <1>16, GoesLess DEF Shift
<1> QED BY <1>3, <1>5, <1>10, <1>11, <1>17

\* A command that stores i: unless the worker hangs, no reference is kept.
Kept(s, i, r) ==
    /\ r.ret # "HANG" => Goes(s, r.s, {i}) /\ Shift(s, r.s, None, 0)
    /\ r.ret = "HANG" => Goes(s, r.s, {i}) /\ \A j \in DOMAIN s.item : Net(r.s, j) >= Net(s, j)

LEMMA JoinedIs ==
    ASSUME NEW s, StoreOK(s), NEW old \in DOMAIN s.item, Linked(s, old), s.item[old].key \in Keys,
           Net(s, old) >= 1, NEW i \in DOMAIN s.item, NEW comm, NEW r \in StoreJoined(s, old, i, comm)
    PROVE  Kept(s, i, r) /\ DOMAIN r = {"s", "ret"}
<1>1. PICK k \in Keys : k = s.item[old].key
  OBVIOUS
<1>2. Goes(s, s, {i}) /\ Shift(s, s, None, 0)
  BY GoesNowhere, GoesMore
<1>3. CASE \E ret \in {"EXISTS", "NOT_STORED"} : r = [s |-> s, ret |-> ret]
  <2>1. r.s = s /\ r.ret # "HANG" /\ DOMAIN r = {"s", "ret"}
    BY <1>3
  <2> QED BY <1>2, <2>1 DEF Kept
<1>4. CASE ~\E ret \in {"EXISTS", "NOT_STORED"} : r = [s |-> s, ret |-> ret]
  <2>1. PICK v : v = Joined(comm, s.item[old].val, s.item[i].val)
    OBVIOUS
  <2>2. PICK a \in do_item_alloc(s, k, s.item[old].room + s.item[i].room, s.item[old].exp) :
          /\ a.it # None
          /\ \/ r = [s |-> do_item_remove(do_item_replace([a.s EXCEPT !.item[a.it].val = v], old, a.it), a.it),
                     ret |-> "STORED"]
             \/ r = [s |-> a.s, ret |-> "HANG"]
    <3> DEFINE Stored(q) == [s |-> do_item_remove(do_item_replace([q.s EXCEPT !.item[q.it].val = v], old, q.it), q.it),
                             ret |-> "STORED"]
               Out(q) == IF q.it = None THEN {[s |-> s, ret |-> "NOT_STORED"]}
                         ELSE {Stored(q)} \cup IF Chunked(q.s, q.it) THEN {[s |-> q.s, ret |-> "HANG"]} ELSE {}
    <3>1. \/ r = [s |-> s, ret |-> "EXISTS"]
          \/ r \in UNION {Out(q) : q \in do_item_alloc(s, k, s.item[old].room + s.item[i].room, s.item[old].exp)}
      BY <1>1, <2>1 DEF StoreJoined
    <3> HIDE DEF Out
    <3>2. PICK a \in do_item_alloc(s, k, s.item[old].room + s.item[i].room, s.item[old].exp) : r \in Out(a)
      BY <1>4, <3>1
    <3>3. a.it # None
      BY <1>4, <3>2 DEF Out
    <3>4. r = Stored(a) \/ r = [s |-> a.s, ret |-> "HANG"]
      BY <3>2, <3>3 DEF Out
    <3> QED BY <3>2, <3>3, <3>4
  <2>3. Given(s, k, a)
    BY <2>2, AllocIs
  <2>4. CASE r = [s |-> a.s, ret |-> "HANG"]
    <3>1. Goes(s, a.s, {i}) /\ Shift(s, a.s, a.it, 1) /\ r.s = a.s /\ r.ret = "HANG" /\ DOMAIN r = {"s", "ret"}
      BY <2>2, <2>3, <2>4, GoesMore DEF Given
    <3>2. \A j \in DOMAIN s.item : Net(s, j) \in Nat
      BY NetIs
    <3> QED BY <3>1, <3>2 DEF Kept, Shift
  <2>5. CASE r = [s |-> do_item_remove(do_item_replace([a.s EXCEPT !.item[a.it].val = v], old, a.it), a.it),
                  ret |-> "STORED"]
    <3>1. PICK h : h = [a.s.item[a.it] EXCEPT !.val = v]
      OBVIOUS
    <3>2. StoreOK(a.s) /\ a.it \in DOMAIN a.s.item /\ a.s.item[a.it].key = k /\ ItemOK(a.s.item[a.it])
      BY <2>2, <2>3 DEF Given, StoreOK
    <3>3. ItemOK(h) /\ h.ref = a.s.item[a.it].ref /\ h.key = k
      BY <3>1, <3>2 DEF ItemOK, ItemFields
    <3>4. PICK t : t = Put(a.s, a.it, h)
      OBVIOUS
    <3>5. Fresh(s, k, t, a.it)
      BY <2>2, <2>3, <3>3, <3>4, FreshPut
    <3>6. t = [a.s EXCEPT !.item[a.it].val = v]
      BY <3>1, <3>2, <3>4 DEF Put, StoreOK, StoreFields
    <3>7. PICK u : u = do_item_replace(t, old, a.it)
      OBVIOUS
    <3>8. Goes(s, do_item_remove(u, a.it), {}) /\ Shift(s, do_item_remove(u, a.it), None, 0)
      BY <1>1, <3>5, <3>7, FreshReplaces
    <3>9. r.s = do_item_remove(u, a.it) /\ r.ret = "STORED" /\ DOMAIN r = {"s", "ret"}
      BY <2>5, <3>6, <3>7
    <3> QED BY <3>8, <3>9, GoesMore DEF Kept
  <2> QED BY <2>2, <2>4, <2>5
<1> QED BY <1>3, <1>4

LEMMA StoreItemIs ==
    ASSUME NEW s, StoreOK(s), NEW i \in DOMAIN s.item, Lone(s, i), s.item[i].key \in Keys,
           NEW comm, NEW r \in do_store_item(s, i, comm)
    PROVE  Kept(s, i, r)
<1>1. PICK k \in Keys : k = s.item[i].key
  OBVIOUS
<1>2. PICK g, t, old : g = do_item_get(s, k) /\ t = g.s /\ old = g.it
  OBVIOUS
<1>3. Got(s, k, g)
  BY <1>2, GetIs
<1>4. StoreOK(t) /\ DOMAIN t.item = DOMAIN s.item /\ Goes(s, t, {})
  BY <1>2, <1>3 DEF Got
<1>5. Lone(t, i) /\ t.item[i].key = k
  BY <1>1, <1>4 DEF Goes, Lones
<1>6. old # None => /\ old \in DOMAIN s.item /\ Linked(s, old) /\ Linked(t, old) /\ t.item[old].key = k
                    /\ Shift(s, t, old, 1) /\ old # i
  BY <1>2, <1>3, <1>5 DEF Got, Lone
<1>7. old = None => t.link[k] = None /\ Shift(s, t, None, 0)
  BY <1>2, <1>3 DEF Got
<1>8. \A j \in DOMAIN s.item : Net(s, j) \in Nat /\ Net(t, j) >= Net(s, j)
  BY <1>6, <1>7, NetIs DEF Shift
<1>9. old # None => Net(t, old) >= 1
  BY <1>6, <1>8 DEF Shift
<1>10. PICK q : /\ Kept(t, i, q)
                /\ r = IF old = None \/ q.ret = "HANG" THEN q ELSE [q EXCEPT !.s = do_item_remove(q.s, old)]
                /\ DOMAIN q = {"s", "ret"}
  <2>1. \/ \E u : /\ u = t \/ (old # None /\ u = do_item_update(t, old)) \/ (old = None /\ u = do_item_link(t, i))
                     \/ (old # None /\ u = do_item_replace(t, old, i))
                  /\ \E ret \in {"STORED", "NOT_STORED", "EXISTS", "NOT_FOUND"} :
                       r = IF old = None THEN [s |-> u, ret |-> ret]
                           ELSE [[s |-> u, ret |-> ret] EXCEPT !.s = do_item_remove(u, old)]
        \/ /\ old # None
           /\ \E q \in StoreJoined(t, old, i, comm) :
                r = IF q.ret = "HANG" THEN q ELSE [q EXCEPT !.s = do_item_remove(q.s, old)]
    <3>1. PICK q : /\ r = IF old = None \/ q.ret = "HANG" THEN q ELSE [q EXCEPT !.s = do_item_remove(q.s, old)]
                   /\ \/ \E u : /\ u = t \/ (old # None /\ u = do_item_update(t, old)) \/ (old = None /\ u = do_item_link(t, i))
                                  \/ (old # None /\ u = do_item_replace(t, old, i))
                               /\ \E ret \in {"STORED", "NOT_STORED", "EXISTS", "NOT_FOUND"} : q = [s |-> u, ret |-> ret]
                      \/ old # None /\ q \in StoreJoined(t, old, i, comm)
      BY <1>1, <1>2 DEF do_store_item
    <3>2. ASSUME NEW u, NEW ret \in {"STORED", "NOT_STORED", "EXISTS", "NOT_FOUND"}, q = [s |-> u, ret |-> ret]
          PROVE  r = IF old = None THEN [s |-> u, ret |-> ret]
                     ELSE [[s |-> u, ret |-> ret] EXCEPT !.s = do_item_remove(u, old)]
      <4>1. q.ret # "HANG" /\ q.s = u
        BY <3>2
      <4> QED BY <3>1, <3>2, <4>1
    <3> QED BY <3>1, <3>2
  <2>2. Goes(t, t, {i}) /\ Shift(t, t, None, 0)
    BY <1>4, GoesNowhere, GoesMore
  <2>3. CASE old # None /\ \E q \in StoreJoined(t, old, i, comm) :
                              r = IF q.ret = "HANG" THEN q ELSE [q EXCEPT !.s = do_item_remove(q.s, old)]
    <3>1. PICK q \in StoreJoined(t, old, i, comm) : r = IF q.ret = "HANG" THEN q ELSE [q EXCEPT !.s = do_item_remove(q.s, old)]
      BY <2>3
    <3>2. /\ StoreOK(t) /\ old \in DOMAIN t.item /\ Linked(t, old) /\ t.item[old].key \in Keys
          /\ Net(t, old) >= 1 /\ i \in DOMAIN t.item
      BY <1>4, <1>6, <1>9, <2>3
    <3>3. Kept(t, i, q) /\ DOMAIN q = {"s", "ret"}
      BY <3>1, <3>2, JoinedIs
    <3> QED BY <2>3, <3>1, <3>3
  <2>4. CASE \E u : /\ u = t \/ (old # None /\ u = do_item_update(t, old)) \/ (old = None /\ u = do_item_link(t, i))
                       \/ (old # None /\ u = do_item_replace(t, old, i))
                    /\ \E ret \in {"STORED", "NOT_STORED", "EXISTS", "NOT_FOUND"} :
                         r = IF old = None THEN [s |-> u, ret |-> ret]
                             ELSE [[s |-> u, ret |-> ret] EXCEPT !.s = do_item_remove(u, old)]
    <3>1. PICK u : /\ u = t \/ (old # None /\ u = do_item_update(t, old)) \/ (old = None /\ u = do_item_link(t, i))
                       \/ (old # None /\ u = do_item_replace(t, old, i))
                   /\ \E ret \in {"STORED", "NOT_STORED", "EXISTS", "NOT_FOUND"} :
                         r = IF old = None THEN [s |-> u, ret |-> ret]
                             ELSE [[s |-> u, ret |-> ret] EXCEPT !.s = do_item_remove(u, old)]
      BY <2>4
    <3>2. PICK ret \in {"STORED", "NOT_STORED", "EXISTS", "NOT_FOUND"} :
                         r = IF old = None THEN [s |-> u, ret |-> ret]
                             ELSE [[s |-> u, ret |-> ret] EXCEPT !.s = do_item_remove(u, old)]
      BY <3>1
    <3>3. PICK q : q = [s |-> u, ret |-> ret]
      OBVIOUS
    <3>4. q.s = u /\ q.ret # "HANG" /\ DOMAIN q = {"s", "ret"}
      BY <3>2, <3>3
    <3>5. Goes(t, u, {i}) /\ Shift(t, u, None, 0)
      <4>1. CASE u = t
        BY <2>2, <4>1
      <4>2. CASE old # None /\ u = do_item_update(t, old)
        <5>1. old \in DOMAIN t.item
          BY <1>4, <1>6, <4>2
        <5>2. Goes(t, u, {}) /\ Shift(t, u, old, 0)
          BY <1>4, <4>2, <5>1, UpdateGoes
        <5> QED BY <5>2, GoesMore DEF Shift
      <4>3. CASE old = None /\ u = do_item_link(t, i)
        <5>1. i \in DOMAIN t.item /\ ~Linked(t, i) /\ t.item[i].key \in Keys /\ t.link[t.item[i].key] = None
          BY <1>4, <1>5, <1>7, <4>3 DEF Lone
        <5>2. Goes(t, u, {i}) /\ Shift(t, u, i, 0)
          BY <1>4, <4>3, <5>1, LinkGoes
        <5> QED BY <5>2 DEF Shift
      <4>4. CASE old # None /\ u = do_item_replace(t, old, i)
        <5>1. /\ i \in DOMAIN t.item /\ old \in DOMAIN t.item /\ Linked(t, old) /\ ~Linked(t, i)
              /\ t.item[i].key = t.item[old].key /\ Net(t, old) >= 1
          BY <1>4, <1>5, <1>6, <1>9, <4>4 DEF Lone
        <5>2. Goes(t, u, {i}) /\ Shift(t, u, i, 0)
          BY <1>4, <4>4, <5>1, ReplaceGoes
        <5> QED BY <5>2 DEF Shift
      <4> QED BY <3>1, <4>1, <4>2, <4>3, <4>4
    <3>6. Kept(t, i, q)
      BY <3>4, <3>5 DEF Kept
    <3>7. r = IF old = None \/ q.ret = "HANG" THEN q ELSE [q EXCEPT !.s = do_item_remove(q.s, old)]
      BY <3>2, <3>3, <3>4
    <3> QED BY <3>4, <3>6, <3>7
  <2> QED BY <2>1, <2>3, <2>4
<1>11. \A j \in DOMAIN s.item : Net(t, j) \in Nat
  BY <1>4, NetIs
<1>12. \A j \in DOMAIN s.item : Net(t, j) = 0 => Net(s, j) = 0
  BY <1>8, <1>11
<1>13. Goes(t, q.s, {i}) /\ StoreOK(q.s) /\ DOMAIN q.s.item = DOMAIN s.item
  BY <1>4, <1>10 DEF Kept, Goes
<1>14. Goes(s, q.s, {} \cup {i})
  BY <1>4, <1>12, <1>13, GoesOn
<1>15. Goes(s, q.s, {i})
  BY <1>14, GoesMore
<1>16. CASE q.ret = "HANG"
  <2>1. r = q
    BY <1>10, <1>16
  <2>2. \A j \in DOMAIN s.item : Net(q.s, j) \in Nat /\ Net(q.s, j) >= Net(t, j)
    BY <1>4, <1>10, <1>13, <1>16, NetIs DEF Kept
  <2> QED BY <1>8, <1>11, <1>15, <1>16, <2>1, <2>2 DEF Kept
<1>17. CASE q.ret # "HANG" /\ old = None
  <2>1. r = q
    BY <1>10, <1>17
  <2>2. Shift(t, q.s, None, 0)
    BY <1>10, <1>17 DEF Kept
  <2>3. Shift(s, q.s, None, 0)
    BY <1>4, <1>7, <1>8, <1>17, <2>2 DEF Shift
  <2> QED BY <1>15, <1>17, <2>1, <2>3 DEF Kept
<1>18. CASE q.ret # "HANG" /\ old # None
  <2>1. PICK u, w : u = q.s /\ w = do_item_remove(u, old)
    OBVIOUS
  <2>2. r.s = w /\ r.ret = q.ret
    BY <1>10, <1>18, <2>1
  <2>3. Shift(t, u, None, 0) /\ StoreOK(u) /\ DOMAIN u.item = DOMAIN s.item /\ Goes(s, u, {i})
    BY <1>10, <1>13, <1>15, <1>18, <2>1 DEF Kept
  <2>4. \A j \in DOMAIN s.item : Net(u, j) = Net(s, j) + (IF j = old THEN 1 ELSE 0)
    BY <1>4, <1>6, <1>8, <1>18, <2>3 DEF Shift
  <2>5. old \in DOMAIN u.item /\ Net(u, old) >= 1
    BY <1>6, <1>8, <1>18, <2>3, <2>4
  <2>6. Goes(u, w, {old}) /\ Shift(u, w, old, -1)
    BY <2>1, <2>3, <2>5, RemoveGoes
  <2>7. \A j \in DOMAIN s.item : Net(w, j) = Net(s, j)
    BY <1>8, <2>3, <2>4, <2>6 DEF Shift
  <2>8. \A j \in DOMAIN s.item : Net(u, j) = 0 => Net(s, j) = 0 \/ Net(w, j) = 0
    BY <1>8, <2>4
  <2>9. Goes(s, w, {i} \cup {old})
    BY <2>3, <2>6, <2>8, GoesOn
  <2>10. ~Lone(s, old)
    BY <1>6, <1>18 DEF Lone
  <2>11. Goes(s, w, {i}) /\ Shift(s, w, None, 0)
    BY <1>8, <2>7, <2>9, <2>10, GoesLess DEF Shift
  <2> QED BY <1>18, <2>2, <2>11 DEF Kept
<1> QED BY <1>16, <1>17, <1>18

\* A looked up item is given back.
LEMMA GivenBack ==
    ASSUME NEW s, StoreOK(s), NEW k \in Keys, NEW g, Got(s, k, g), g.it # None,
           NEW u, Goes(g.s, u, {g.it}), Shift(g.s, u, g.it, -1)
    PROVE  Goes(s, u, {}) /\ Shift(s, u, None, 0)
<1>1. PICK t, i : t = g.s /\ i = g.it
  OBVIOUS
<1>2. Goes(s, t, {}) /\ Shift(s, t, i, 1) /\ Goes(t, u, {i}) /\ Shift(t, u, i, -1) /\ Linked(s, i)
  BY <1>1 DEF Got
<1>3. \A j \in DOMAIN s.item : Net(s, j) \in Nat /\ Net(t, j) = Net(s, j) + (IF j = i THEN 1 ELSE 0) /\ Net(u, j) = Net(s, j)
  BY <1>2, NetIs DEF Shift, Goes
<1>4. \A j \in DOMAIN s.item : Net(t, j) = 0 => Net(s, j) = 0
  BY <1>3
<1>5. Goes(s, u, {} \cup {i})
  BY <1>2, <1>4, GoesOn
<1>6. ~Lone(s, i)
  BY <1>2 DEF Lone
<1> QED BY <1>3, <1>5, <1>6, GoesLess DEF Shift

\* A linked item is written over and gets a new cas id.
Write(s, i, h) == [s EXCEPT !.cas_id = s.cas_id + 1, !.item = [s.item EXCEPT ![i] = h]]

LEMMA WriteIs ==
    ASSUME NEW s, StoreOK(s), NEW i \in DOMAIN s.item, Linked(s, i), NEW h, ItemOK(h),
           h.ref = s.item[i].ref, h.key = s.item[i].key, h.cas = s.cas_id + 1,
           NEW t, t = Write(s, i, h)
    PROVE  /\ StoreOK(t) /\ DOMAIN t.item = DOMAIN s.item /\ Shift(s, t, i, 0) /\ Lones(s, t, {}) /\ Ages(s, t)
           /\ t.item[i] = h /\ \A j \in DOMAIN s.item : j # i => t.item[j] = s.item[j]
           /\ \A j \in DOMAIN s.item : Linked(t, j) = Linked(s, j)
<1>1. /\ DOMAIN t = StoreFields /\ DOMAIN t.item = DOMAIN s.item
      /\ t.item[i] = h /\ \A j \in DOMAIN s.item : j # i => t.item[j] = s.item[j]
      /\ t.item = [j \in DOMAIN s.item |-> t.item[j]]
      /\ t.link = s.link /\ t.cas_id = s.cas_id + 1 /\ t.now = s.now
      /\ t.oldest_live = s.oldest_live /\ t.oldest_cas = s.oldest_cas
  BY DEF Write, StoreOK, StoreFields
<1>2. \A j \in DOMAIN s.item : t.item[j].key = s.item[j].key /\ t.item[j].ref = s.item[j].ref
  BY <1>1
<1>3. \A j \in DOMAIN s.item : Linked(t, j) = Linked(s, j)
  BY <1>1, <1>2 DEF Linked
<1>4. \A j \in DOMAIN s.item : Net(t, j) = Net(s, j)
  BY <1>2, <1>3 DEF Net
<1>5. {s.cas_id, s.oldest_cas} \subseteq Nat /\ s.oldest_cas <= s.cas_id
  BY DEF StoreOK
<1>6. StoreOK(t)
  <2>1. \A j \in DOMAIN t.item : ItemOK(t.item[j]) /\ Net(t, j) >= 0
    <3> SUFFICES ASSUME NEW j \in DOMAIN s.item PROVE ItemOK(t.item[j]) /\ Net(s, j) >= 0
      BY <1>1, <1>4
    <3>1. ItemOK(s.item[j]) /\ Net(s, j) >= 0
      BY DEF StoreOK
    <3>2. t.item[j] = h \/ t.item[j] = s.item[j]
      BY <1>1
    <3> QED BY <3>1, <3>2
  <2>2. \A m \in Keys : t.link[m] # None => t.item[t.link[m]].key = m
    BY <1>1, <1>2 DEF StoreOK
  <2>3. \A j \in DOMAIN t.item : Linked(t, j) => t.item[j].cas \in 1 .. t.cas_id /\ t.item[j].cas # t.oldest_cas
    <3> SUFFICES ASSUME NEW j \in DOMAIN s.item, Linked(s, j) PROVE t.item[j].cas \in 1 .. t.cas_id /\ t.item[j].cas # t.oldest_cas
      BY <1>1, <1>3
    <3>1. CASE j = i
      BY <1>1, <1>5, <3>1
    <3>2. CASE j # i
      <4>1. s.item[j].cas \in 1 .. s.cas_id /\ s.item[j].cas # s.oldest_cas
        BY DEF StoreOK
      <4> QED BY <1>1, <1>5, <3>2, <4>1
    <3> QED BY <3>1, <3>2
  <2>4. /\ {t.cas_id, t.now, t.oldest_live, t.oldest_cas} \subseteq Nat /\ t.now >= 2
        /\ t.oldest_cas <= t.cas_id /\ (t.oldest_live = 0 => t.oldest_cas = 0)
    BY <1>1 DEF StoreOK
  <2>5. DOMAIN t.item \subseteq Items /\ t.link \in [Keys -> DOMAIN t.item \cup {None}]
    BY <1>1 DEF StoreOK
  <2>6. Distinct(t)
    <3>1. \A j \in DOMAIN s.item : Linked(t, j) => j = i \/ (Linked(s, j) /\ t.item[j].cas = s.item[j].cas)
      BY <1>1, <1>3
    <3>2. DOMAIN t.item = DOMAIN s.item /\ t.item[i].cas = s.cas_id + 1
      BY <1>1
    <3> QED BY <3>1, <3>2, DistinctGrows
  <2> QED BY <1>1, <2>1, <2>2, <2>3, <2>4, <2>5, <2>6 DEF StoreOK
<1>7. \A j \in DOMAIN s.item : Net(s, j) \in Nat
  BY NetIs
<1>8. Shift(s, t, i, 0)
  BY <1>4, <1>7 DEF Shift
<1>9. Lones(s, t, {})
  BY <1>1, <1>3, <1>4 DEF Lones, Lone
<1>10. Ages(s, t)
  <2>1. s.cas_id <= t.cas_id /\ t.item[i].cas > s.cas_id
    BY <1>1, <1>5
  <2>2. \A j \in DOMAIN s.item : j # i => t.item[j] = s.item[j]
    BY <1>1
  <2> QED BY <1>3, <2>1, <2>2 DEF Ages
<1> QED BY <1>1, <1>3, <1>6, <1>8, <1>9, <1>10

LEMMA InPlaceGoes ==
    ASSUME NEW s, StoreOK(s), NEW k \in Keys, NEW g, Got(s, k, g), NEW i, i = g.it, i # None,
           NEW v, InPlace(g.s, i, v), NEW u, u = do_item_remove(UpdateInPlace(g.s, i, v), i)
    PROVE  Goes(s, u, {}) /\ Shift(s, u, None, 0)
<1>1. PICK t : t = g.s
  OBVIOUS
<1>2. /\ StoreOK(t) /\ DOMAIN t.item = DOMAIN s.item /\ i \in DOMAIN s.item /\ Goes(s, t, {})
      /\ Shift(s, t, i, 1) /\ Linked(s, i) /\ Linked(t, i) /\ t.item[i].ref = 2
  BY <1>1 DEF Got, InPlace
<1>3. PICK h : h = [[t.item[i] EXCEPT !.cas = t.cas_id + 1] EXCEPT !.val = v]
  OBVIOUS
<1>4. ItemOK(t.item[i]) /\ t.cas_id \in Nat
  BY <1>2 DEF StoreOK
<1>5. ItemOK(h) /\ h.ref = t.item[i].ref /\ h.key = t.item[i].key /\ h.cas = t.cas_id + 1
  BY <1>3, <1>4 DEF ItemOK, ItemFields
<1>6. PICK w : w = Write(t, i, h)
  OBVIOUS
<1>7. w = [t EXCEPT !.cas_id = t.cas_id + 1, !.item[i].cas = t.cas_id + 1, !.item[i].val = v]
  <2>1. DOMAIN t = StoreFields /\ DOMAIN t.item[i] = ItemFields
    BY <1>2, <1>4 DEF StoreOK, ItemOK
  <2>2. [[t.item EXCEPT ![i].cas = t.cas_id + 1] EXCEPT ![i].val = v] = [t.item EXCEPT ![i] = h]
    BY <1>2, <1>3, <2>1 DEF ItemFields
  <2> QED BY <1>6, <2>1, <2>2 DEF Write, StoreFields
<1>8. UpdateInPlace(t, i, v) = do_item_update(w, i)
  BY <1>4, <1>7 DEF UpdateInPlace
<1>9. /\ StoreOK(w) /\ DOMAIN w.item = DOMAIN s.item /\ Shift(t, w, i, 0) /\ Lones(t, w, {}) /\ Ages(t, w)
      /\ w.item[i] = h /\ \A j \in DOMAIN s.item : j # i => w.item[j] = t.item[j]
  BY <1>2, <1>5, <1>6, WriteIs
<1>10. \A j \in DOMAIN s.item : Net(s, j) \in Nat
  BY NetIs
<1>11. Net(t, i) = 1 /\ Net(s, i) = 0
  <2>1. Net(t, i) = 1
    BY <1>2 DEF Net, One
  <2> QED BY <1>2, <1>10, <2>1 DEF Shift
<1>12. \A j \in DOMAIN s.item : Net(w, j) = Net(s, j) + (IF j = i THEN 1 ELSE 0)
  BY <1>2, <1>9, <1>10 DEF Shift
<1>13. Goes(s, w, {})
  <2>1. Vals(s, w)
    <3> SUFFICES ASSUME NEW j \in DOMAIN s.item PROVE w.item[j].val = s.item[j].val \/ Net(s, j) = 0 \/ Net(w, j) = 0
      BY DEF Vals
    <3>1. CASE j = i
      BY <1>11, <3>1
    <3>2. CASE j # i
      <4>1. t.item[j].val = s.item[j].val \/ Net(s, j) = 0 \/ Net(t, j) = 0
        BY <1>2 DEF Goes, Vals
      <4>2. Net(t, j) = Net(s, j)
        BY <1>2, <1>10, <3>2 DEF Shift
      <4> QED BY <1>9, <3>2, <4>1, <4>2
    <3> QED BY <3>1, <3>2
  <2>2. Lones(s, w, {})
    BY <1>2, <1>9 DEF Goes, Lones
  <2>3. Ages(s, w)
    BY <1>2, <1>9, AgesOn DEF Goes
  <2> QED BY <1>9, <2>1, <2>2, <2>3 DEF Goes
<1>14. PICK x : x = do_item_update(w, i)
  OBVIOUS
<1>15. Goes(w, x, {}) /\ Shift(w, x, i, 0)
  BY <1>2, <1>9, <1>14, UpdateGoes
<1>16. \A j \in DOMAIN s.item : Net(x, j) = Net(w, j)
  BY <1>9, <1>10, <1>12, <1>15 DEF Shift
<1>17. \A j \in DOMAIN s.item : Net(w, j) = 0 => Net(s, j) = 0
  BY <1>10, <1>12
<1>18. Goes(s, x, {} \cup {})
  BY <1>13, <1>15, <1>17, GoesOn
<1>19. Goes(s, x, {}) /\ StoreOK(x) /\ DOMAIN x.item = DOMAIN s.item /\ Net(x, i) >= 1
  BY <1>2, <1>11, <1>12, <1>16, <1>18 DEF Goes
<1>20. u = do_item_remove(x, i)
  BY <1>1, <1>8, <1>14
<1>21. Goes(x, u, {i}) /\ Shift(x, u, i, -1)
  BY <1>2, <1>19, <1>20, RemoveGoes
<1>22. \A j \in DOMAIN s.item : Net(u, j) = Net(s, j)
  BY <1>10, <1>12, <1>16, <1>19, <1>21 DEF Shift
<1>23. Goes(s, u, {} \cup {i})
  <2>1. \A j \in DOMAIN s.item : Net(x, j) = 0 => Net(s, j) = 0 \/ Net(u, j) = 0
    BY <1>16, <1>17
  <2> QED BY <1>19, <1>21, <2>1, GoesOn
<1>24. ~Lone(s, i)
  BY <1>2 DEF Lone
<1> QED BY <1>10, <1>22, <1>23, <1>24, GoesLess DEF Shift

\* incr or decr with a fresh item: n takes the place of i, and both references are given back.
LEMMA MovedGoes ==
    ASSUME NEW s, StoreOK(s), NEW k \in Keys, NEW g, Got(s, k, g), NEW i, i = g.it, i # None,
           NEW t, NEW n, Fresh(g.s, k, t, n), NEW c \in Nat,
           NEW u, u = do_item_replace(t, i, n), c = u.item[n].cas,
           NEW w, w = Put(u, i, [u.item[i] EXCEPT !.cas = c]),
           NEW y, y = do_item_remove(do_item_remove(w, n), i)
    PROVE  Goes(s, y, {}) /\ Shift(s, y, None, 0)
<1>1. PICK r : r = g.s
  OBVIOUS
<1>2. /\ StoreOK(r) /\ DOMAIN r.item = DOMAIN s.item /\ i \in DOMAIN s.item /\ Goes(s, r, {})
      /\ Shift(s, r, i, 1) /\ Linked(s, i) /\ Linked(r, i) /\ r.item[i].key = k
  BY <1>1 DEF Got
<1>3. \A j \in DOMAIN s.item : Net(s, j) \in Nat /\ Net(r, j) = Net(s, j) + (IF j = i THEN 1 ELSE 0)
  BY <1>2, NetIs DEF Shift
<1>4. Net(r, i) >= 1 /\ i \in DOMAIN r.item
  BY <1>2, <1>3
<1>5. Fresh(r, k, t, n)
  BY <1>1
<1>6. /\ Goes(r, u, {}) /\ Shift(r, u, n, 1) /\ ~Linked(u, i) /\ Linked(u, n)
      /\ u.item[n].val = t.item[n].val /\ u.item[n].cas = t.cas_id + 1 /\ n # i
      /\ Goes(r, do_item_remove(u, n), {}) /\ Shift(r, do_item_remove(u, n), None, 0)
  BY <1>2, <1>4, <1>5, FreshReplaces
<1>7. n \in DOMAIN s.item /\ Net(r, n) = 0
  BY <1>2, <1>5 DEF Fresh
<1>8. StoreOK(u) /\ DOMAIN u.item = DOMAIN s.item
  BY <1>2, <1>6 DEF Goes
<1>9. PICK h : h = [u.item[i] EXCEPT !.cas = c]
  OBVIOUS
<1>10. ItemOK(u.item[i])
  BY <1>2, <1>8 DEF StoreOK
<1>11. ItemOK(h) /\ h.ref = u.item[i].ref /\ h.val = u.item[i].val
  BY <1>9, <1>10 DEF ItemOK, ItemFields
<1>12. Changed(u, i, h, w)
  BY <1>2, <1>6, <1>8, <1>9, <1>11, PutIs
<1>13. \A j \in DOMAIN s.item : Net(u, j) = Net(r, j) + (IF j = n THEN 1 ELSE 0)
  BY <1>2, <1>6 DEF Shift
<1>14. StoreOK(w) /\ DOMAIN w.item = DOMAIN s.item /\ \A j \in DOMAIN s.item : Net(w, j) = Net(u, j)
  <2>1. StoreOK(w) /\ DOMAIN w.item = DOMAIN s.item
    BY <1>8, <1>12 DEF Changed
  <2>2. \A j \in DOMAIN s.item : j # i => Net(w, j) = Net(u, j)
    BY <1>8, <1>12 DEF Changed
  <2>3. Net(w, i) = Net(u, i) + (u.item[i].ref - u.item[i].ref)
    BY <1>11, <1>12 DEF Changed
  <2>4. Net(u, i) \in Nat /\ u.item[i].ref \in Nat
    BY <1>2, <1>8, <1>10, NetIs DEF ItemOK
  <2>5. Net(w, i) = Net(u, i)
    BY <2>3, <2>4
  <2> QED BY <2>1, <2>2, <2>5
<1>15. Goes(u, w, {i})
  <2>1. Vals(u, w)
    BY <1>11, <1>12 DEF Changed, Vals
  <2>2. Lones(u, w, {i})
    BY <1>12 DEF Changed, Lones, Lone
  <2> QED BY <1>12, <2>1, <2>2 DEF Changed, Goes
<1>16. PICK x : x = do_item_remove(w, n)
  OBVIOUS
<1>17. Net(w, n) >= 1 /\ n \in DOMAIN w.item
  BY <1>7, <1>13, <1>14
<1>18. Goes(w, x, {n}) /\ Shift(w, x, n, -1)
  BY <1>14, <1>16, <1>17, RemoveGoes
<1>19. StoreOK(x) /\ DOMAIN x.item = DOMAIN s.item /\ \A j \in DOMAIN s.item : Net(x, j) = Net(r, j)
  <2>1. StoreOK(x) /\ DOMAIN x.item = DOMAIN s.item
    BY <1>14, <1>18 DEF Goes
  <2> SUFFICES ASSUME NEW j \in DOMAIN s.item PROVE Net(x, j) = Net(r, j)
    BY <2>1
  <2>2. Net(x, j) = Net(w, j) + (IF j = n THEN -1 ELSE 0)
    BY <1>14, <1>18 DEF Shift
  <2>3. Net(w, j) = Net(r, j) + (IF j = n THEN 1 ELSE 0)
    BY <1>13, <1>14
  <2>4. Net(r, j) \in Int
    BY <1>2, NetIs
  <2> QED BY <2>2, <2>3, <2>4
<1>20. Net(x, i) >= 1 /\ i \in DOMAIN x.item
  BY <1>2, <1>4, <1>19
<1>21. y = do_item_remove(x, i)
  BY <1>16
<1>22. Goes(x, y, {i}) /\ Shift(x, y, i, -1)
  BY <1>19, <1>20, <1>21, RemoveGoes
<1>23. Goes(r, w, {} \cup {i})
  <2>1. \A j \in DOMAIN r.item : Net(u, j) = 0 => Net(r, j) = 0 \/ Net(w, j) = 0
    BY <1>2, <1>14
  <2> QED BY <1>2, <1>6, <1>15, <2>1, GoesOn
<1>24. Goes(r, x, ({} \cup {i}) \cup {n})
  <2>1. \A j \in DOMAIN r.item : Net(w, j) = 0 => Net(r, j) = 0 \/ Net(x, j) = 0
    BY <1>2, <1>3, <1>13, <1>14
  <2> QED BY <1>2, <1>18, <1>23, <2>1, GoesOn
<1>25. Goes(r, y, (({} \cup {i}) \cup {n}) \cup {i})
  <2>1. \A j \in DOMAIN r.item : Net(x, j) = 0 => Net(r, j) = 0 \/ Net(y, j) = 0
    BY <1>2, <1>19
  <2> QED BY <1>2, <1>22, <1>24, <2>1, GoesOn
<1>26. Goes(r, y, {i} \cup {n})
  BY <1>25, GoesMore
<1>27. n \in DOMAIN r.item => ~Lone(r, n)
  BY <1>7 DEF Lone
<1>28. Goes(r, y, {i})
  BY <1>26, <1>27, GoesLess
<1>29. Shift(r, y, i, -1)
  BY <1>2, <1>3, <1>19, <1>22 DEF Shift
<1> QED BY <1>1, <1>28, <1>29, GivenBack

\* do_add_delta keeps the reference of the items that Leaks names, and no other.
LEMMA DeltaIs ==
    ASSUME NEW s, StoreOK(s), NEW k \in Keys, NEW incr, NEW delta, NEW cas,
           NEW a \in do_add_delta(s, k, incr, delta, cas)
    PROVE  /\ Goes(s, a.s, {})
           /\ \A j \in DOMAIN s.item : Net(a.s, j) = Net(s, j) + (IF j \in Leaks(s, k) THEN 1 ELSE 0)
<1> DEFINE g == do_item_get(s, k)
           t == g.s
           i == g.it
           v == Digits(Delta(Number(t.item[i].val), incr, delta))
<1>1. g = do_item_get(s, k) /\ t = g.s /\ i = g.it
  OBVIOUS
<1>2. Got(s, k, g)
  BY GetIs
<1> HIDE DEF g, t, i, v
<1>4. \A j \in DOMAIN s.item : Net(s, j) \in Nat /\ j # None
  BY NetIs, StoreAssumption DEF StoreOK
<1>5. Leaks(s, k) = {j \in DOMAIN s.item : j = i /\ (t.item[j].room = 0 \/ Chunked(t, j))}
  BY <1>1 DEF Leaks
<1>6. CASE i = None
  <2>1. a.s = t
    <3>1. do_add_delta(s, k, incr, delta, cas) = {[s |-> t, ret |-> "NOT_FOUND", val |-> <<>>]}
      BY <1>1, <1>6, Zenon DEF do_add_delta
    <3> QED BY <3>1
  <2>2. Goes(s, t, {}) /\ Shift(s, t, None, 0)
    BY <1>1, <1>2, <1>6 DEF Got
  <2> QED BY <1>4, <1>5, <1>6, <2>1, <2>2 DEF Shift
<1>7. CASE i # None /\ (t.item[i].room = 0 \/ Chunked(t, i))
  <2>1. a.s = t
    <3>1. do_add_delta(s, k, incr, delta, cas) = {[s |-> t, ret |-> "NON_NUMERIC", val |-> <<>>]}
      BY <1>1, <1>7, Zenon DEF do_add_delta
    <3> QED BY <3>1
  <2>2. Goes(s, t, {}) /\ Shift(s, t, i, 1) /\ i \in DOMAIN s.item
    BY <1>1, <1>2, <1>7 DEF Got
  <2>3. \A j \in DOMAIN s.item : j \in Leaks(s, k) <=> j = i
    BY <1>5, <1>7, <2>2
  <2> QED BY <2>1, <2>2, <2>3 DEF Shift
<1>8. CASE i # None /\ ~(t.item[i].room = 0 \/ Chunked(t, i))
  <2>1. Leaks(s, k) = {}
    BY <1>5, <1>8
  <2> SUFFICES Goes(s, a.s, {}) /\ Shift(s, a.s, None, 0)
    BY <1>4, <2>1 DEF Shift
  <2>2. StoreOK(t) /\ DOMAIN t.item = DOMAIN s.item /\ i \in DOMAIN t.item /\ i \in DOMAIN s.item
    BY <1>1, <1>2, <1>8 DEF Got
  <2>3. Shift(s, t, i, 1) /\ Linked(t, i) /\ t.item[i].key = k
    BY <1>1, <1>2, <1>8 DEF Got
  <2>4. Net(t, i) >= 1
    BY <1>4, <2>2, <2>3 DEF Shift
  <2>5. DOMAIN t = StoreFields
    BY <2>2 DEF StoreOK
  <2>6. \/ a.s = do_item_remove(t, i)
        \/ InPlace(t, i, v) /\ a.s = do_item_remove(UpdateInPlace(t, i, v), i)
        \/ \E r \in do_item_alloc(t, k, Len(v), t.item[i].exp) :
             IF r.it = None THEN a.s = do_item_remove(r.s, i)
             ELSE LET u == do_item_replace([r.s EXCEPT !.item[r.it].val = v], i, r.it)
                  IN  a.s = do_item_remove(do_item_remove([u EXCEPT !.item[i].cas = u.item[r.it].cas], r.it), i)
    <3> DEFINE GivenUp(x) == [x EXCEPT !.s = do_item_remove(x.s, i)]
               Grown(r) == do_item_replace([r.s EXCEPT !.item[r.it].val = v], i, r.it)
               Moved(r) == IF r.it = None THEN [s |-> t, ret |-> "EOM", val |-> <<>>]
                           ELSE [s |-> do_item_remove([Grown(r) EXCEPT !.item[i].cas = Grown(r).item[r.it].cas], r.it),
                                 ret |-> "OK", val |-> v]
    <3>1. \/ \E ret : a = GivenUp([s |-> t, ret |-> ret, val |-> <<>>])
          \/ InPlace(t, i, v) /\ a = GivenUp([s |-> UpdateInPlace(t, i, v), ret |-> "OK", val |-> v])
          \/ \E r \in do_item_alloc(t, k, Len(v), t.item[i].exp) : a = GivenUp(Moved(r))
      <4> DEFINE Plainly(ret) == GivenUp([s |-> t, ret |-> ret, val |-> <<>>])
                 Written == GivenUp([s |-> UpdateInPlace(t, i, v), ret |-> "OK", val |-> v])
                 Copied == {GivenUp(Moved(r)) : r \in do_item_alloc(t, k, Len(v), t.item[i].exp)}
      <4>1. do_add_delta(s, k, incr, delta, cas) =
              IF i = None THEN {[s |-> t, ret |-> "NOT_FOUND", val |-> <<>>]}
              ELSE IF t.item[i].room = 0 \/ Chunked(t, i)
                     THEN {[s |-> t, ret |-> "NON_NUMERIC", val |-> <<>>]}
              ELSE IF cas # 0 /\ t.item[i].cas # cas THEN {Plainly("CAS_MISMATCH")}
              ELSE IF ~Numeric(t.item[i].val) THEN {Plainly("NON_NUMERIC")}
              ELSE IF InPlace(t, i, v) THEN {Written}
              ELSE Copied
        BY Zenon DEF do_add_delta, g, t, i, v
      <4>2. \A x : x \in Copied <=> \E r \in do_item_alloc(t, k, Len(v), t.item[i].exp) : x = GivenUp(Moved(r))
        OBVIOUS
      <4> HIDE DEF GivenUp, Moved, Copied, Written
      <4>3. a \in {Plainly("CAS_MISMATCH")} \/ a \in {Plainly("NON_NUMERIC")} \/ (InPlace(t, i, v) /\ a \in {Written}) \/ a \in Copied
        <5> HIDE DEF Plainly
        <5> QED BY <1>8, <4>1
      <4> QED BY <4>2, <4>3 DEF Written
    <3>2. \A u, ret, val : GivenUp([s |-> u, ret |-> ret, val |-> val]).s = do_item_remove(u, i)
      OBVIOUS
    <3>3. CASE \E ret : a = GivenUp([s |-> t, ret |-> ret, val |-> <<>>])
      BY <3>2, <3>3
    <3>4. CASE InPlace(t, i, v) /\ a = GivenUp([s |-> UpdateInPlace(t, i, v), ret |-> "OK", val |-> v])
      BY <3>2, <3>4
    <3>5. ASSUME NEW r \in do_item_alloc(t, k, Len(v), t.item[i].exp), a = GivenUp(Moved(r)), r.it = None
          PROVE  a.s = do_item_remove(t, i)
      BY <3>2, <3>5
    <3>6. ASSUME NEW r \in do_item_alloc(t, k, Len(v), t.item[i].exp), a = GivenUp(Moved(r)), r.it # None
          PROVE  a.s = do_item_remove(do_item_remove([Grown(r) EXCEPT !.item[i].cas = Grown(r).item[r.it].cas], r.it), i)
      BY <3>2, <3>6
    <3> QED BY <3>1, <3>3, <3>4, <3>5, <3>6
  <2>7. CASE a.s = do_item_remove(t, i)
    <3>1. Goes(t, a.s, {i}) /\ Shift(t, a.s, i, -1)
      BY <2>2, <2>4, <2>7, RemoveGoes
    <3> QED BY <1>1, <1>2, <1>8, <3>1, GivenBack
  <2>8. CASE InPlace(t, i, v) /\ a.s = do_item_remove(UpdateInPlace(t, i, v), i)
    BY <1>1, <1>2, <1>8, <2>8, InPlaceGoes
  <2>9. ASSUME NEW r \in do_item_alloc(t, k, Len(v), t.item[i].exp),
             IF r.it = None THEN a.s = do_item_remove(r.s, i)
             ELSE LET u == do_item_replace([r.s EXCEPT !.item[r.it].val = v], i, r.it)
                  IN  a.s = do_item_remove(do_item_remove([u EXCEPT !.item[i].cas = u.item[r.it].cas], r.it), i)
        PROVE Goes(s, a.s, {}) /\ Shift(s, a.s, None, 0)
    <3>1. Given(t, k, r)
      BY <2>2, AllocIs
    <3>2. CASE r.it = None
      <4>1. r.s = t
        BY <3>1, <3>2 DEF Given
      <4> QED BY <2>7, <2>9, <3>2, <4>1
    <3>3. CASE r.it # None
      <4>1. PICK n, q, h : n = r.it /\ q = r.s /\ h = [q.item[n] EXCEPT !.val = v]
        OBVIOUS
      <4>2. StoreOK(q) /\ n \in DOMAIN q.item /\ q.item[n].key = k /\ ItemOK(q.item[n])
        BY <3>1, <3>3, <4>1 DEF Given, StoreOK
      <4>3. ItemOK(h) /\ h.ref = q.item[n].ref /\ h.key = k
        BY <4>1, <4>2 DEF ItemOK, ItemFields
      <4>4. PICK f : f = Put(q, n, h)
        OBVIOUS
      <4>5. Fresh(t, k, f, n)
        <5>1. h.ref = r.s.item[r.it].ref
          BY <4>1, <4>3
        <5>2. Fresh(t, k, Put(r.s, r.it, h), r.it)
          BY <2>2, <3>1, <3>3, <4>3, <5>1, FreshPut
        <5> QED BY <4>1, <4>4, <5>2
      <4>6. f = [q EXCEPT !.item[n].val = v]
        BY <4>1, <4>2, <4>4 DEF Put, StoreOK, StoreFields
      <4>7. PICK u, c : u = do_item_replace(f, i, n) /\ c = u.item[n].cas
        OBVIOUS
      <4>8. /\ Goes(t, u, {}) /\ Shift(t, u, n, 1) /\ ~Linked(u, i) /\ Linked(u, n)
            /\ u.item[n].val = f.item[n].val /\ u.item[n].cas = f.cas_id + 1 /\ n # i
            /\ Goes(t, do_item_remove(u, n), {}) /\ Shift(t, do_item_remove(u, n), None, 0)
        BY <2>2, <2>3, <2>4, <4>5, <4>7, FreshReplaces
      <4>9. StoreOK(u) /\ i \in DOMAIN u.item /\ n \in DOMAIN u.item
        BY <2>2, <4>5, <4>8 DEF Goes, Fresh
      <4>10. c \in Nat
        BY <4>7, <4>9 DEF StoreOK, ItemOK
      <4>11. PICK w : w = Put(u, i, [u.item[i] EXCEPT !.cas = c])
        OBVIOUS
      <4>12. w = [u EXCEPT !.item[i].cas = u.item[n].cas]
        BY <4>7, <4>9, <4>11 DEF Put, StoreOK, StoreFields
      <4>13. a.s = do_item_remove(do_item_remove(w, n), i)
        BY <2>9, <3>3, <4>1, <4>6, <4>7, <4>12
      <4>14. PICK y : y = do_item_remove(do_item_remove(w, n), i)
        OBVIOUS
      <4>15. Fresh(g.s, k, f, n) /\ i = g.it /\ i # None
        BY <1>1, <1>8, <4>5
      <4>16. Goes(s, y, {}) /\ Shift(s, y, None, 0)
        BY <1>2, <4>7, <4>10, <4>11, <4>14, <4>15, MovedGoes
      <4> QED BY <4>13, <4>14, <4>16
    <3> QED BY <3>2, <3>3
  <2> QED BY <2>6, <2>7, <2>8, <2>9
<1> QED BY <1>6, <1>7, <1>8

\* A step that leaves the items and their links alone.
LEMMA SameItems ==
    ASSUME NEW s, StoreOK(s), NEW t, DOMAIN t = StoreFields, t.item = s.item, t.link = s.link,
           {t.cas_id, t.now, t.oldest_live, t.oldest_cas} \subseteq Nat, t.now >= 2, t.cas_id >= s.cas_id,
           t.oldest_cas <= t.cas_id, t.oldest_live = 0 => t.oldest_cas = 0,
           t.oldest_cas = s.oldest_cas \/ t.oldest_cas > s.cas_id
    PROVE  Goes(s, t, {}) /\ Shift(s, t, None, 0)
<1>1. \A j \in DOMAIN s.item : Linked(t, j) = Linked(s, j) /\ Net(t, j) = Net(s, j) /\ Net(s, j) \in Nat
  BY NetIs DEF Linked, Net
<1>2. {s.cas_id, s.oldest_cas} \subseteq Nat
  BY DEF StoreOK
<1>3. \A j \in DOMAIN t.item : Linked(t, j) => t.item[j].cas \in 1 .. t.cas_id /\ t.item[j].cas # t.oldest_cas
  <2> SUFFICES ASSUME NEW j \in DOMAIN s.item, Linked(s, j) PROVE t.item[j].cas \in 1 .. t.cas_id /\ t.item[j].cas # t.oldest_cas
    BY <1>1
  <2>1. s.item[j].cas \in 1 .. s.cas_id /\ s.item[j].cas # s.oldest_cas
    BY DEF StoreOK
  <2>2. t.cas_id \in Nat /\ t.oldest_cas \in Nat
    OBVIOUS
  <2> QED BY <1>2, <2>1, <2>2
<1>4. \A j \in DOMAIN t.item : ItemOK(t.item[j]) /\ Net(t, j) >= 0
  BY <1>1 DEF StoreOK
<1>5. StoreOK(t)
  <2>1. Distinct(t)
    BY <1>1, DistinctStays DEF StoreOK
  <2> QED BY <1>3, <1>4, <2>1 DEF StoreOK
<1>6. Vals(s, t) /\ Ages(s, t)
  BY <1>1, <1>2 DEF Vals, Ages
<1>7. Lones(s, t, {})
  BY <1>1 DEF Lones, Lone
<1> QED BY <1>1, <1>5, <1>6, <1>7 DEF Goes, Shift

LEMMA FlushGoes ==
    ASSUME NEW s, StoreOK(s), NEW exptime \in Nat
    PROVE  Goes(s, Flush(s, exptime), {}) /\ Shift(s, Flush(s, exptime), None, 0)
<1>1. PICK live : live = (IF exptime > 0 THEN realtime(s, exptime) ELSE s.now) - 1
  OBVIOUS
<1>2. {s.cas_id, s.now, s.oldest_live, s.oldest_cas} \subseteq Nat /\ s.now >= 2 /\ DOMAIN s = StoreFields /\ s.oldest_cas <= s.cas_id
  BY DEF StoreOK
<1>3. live \in Nat /\ live >= 1
  BY <1>1, <1>2 DEF realtime
<1>4. PICK t : t = Flush(s, exptime)
  OBVIOUS
<1>5. CASE live <= s.now
  <2>1. t = [s EXCEPT !.oldest_live = live, !.cas_id = s.cas_id + 1, !.oldest_cas = s.cas_id + 1]
    BY <1>1, <1>2, <1>4, <1>5 DEF Flush, StoreFields
  <2>2. /\ DOMAIN t = StoreFields /\ t.item = s.item /\ t.link = s.link /\ t.cas_id = s.cas_id + 1 /\ t.now = s.now
        /\ t.oldest_live = live /\ t.oldest_cas = s.cas_id + 1
    BY <1>2, <2>1 DEF StoreFields
  <2>3. /\ {t.cas_id, t.now, t.oldest_live, t.oldest_cas} \subseteq Nat /\ t.now >= 2 /\ t.cas_id >= s.cas_id
        /\ t.oldest_cas <= t.cas_id /\ t.oldest_live # 0 /\ t.oldest_cas > s.cas_id
    BY <1>2, <1>3, <2>2
  <2>4. Goes(s, t, {}) /\ Shift(s, t, None, 0)
    BY <2>2, <2>3, SameItems
  <2> QED BY <1>4, <2>4
<1>6. CASE ~(live <= s.now)
  <2>1. t = [s EXCEPT !.oldest_live = live]
    BY <1>1, <1>2, <1>4, <1>6 DEF Flush, StoreFields
  <2>2. /\ DOMAIN t = StoreFields /\ t.item = s.item /\ t.link = s.link /\ t.cas_id = s.cas_id /\ t.now = s.now
        /\ t.oldest_live = live /\ t.oldest_cas = s.oldest_cas
    BY <1>2, <2>1 DEF StoreFields
  <2>3. /\ {t.cas_id, t.now, t.oldest_live, t.oldest_cas} \subseteq Nat /\ t.now >= 2 /\ t.cas_id >= s.cas_id
        /\ t.oldest_cas <= t.cas_id /\ t.oldest_live # 0
    BY <1>2, <1>3, <2>2
  <2>4. Goes(s, t, {}) /\ Shift(s, t, None, 0)
    BY <2>2, <2>3, SameItems
  <2> QED BY <1>4, <2>4
<1> QED BY <1>5, <1>6

LEMMA TickGoes ==
    ASSUME NEW s, StoreOK(s), NEW t, t = [s EXCEPT !.now = s.now + 1]
    PROVE  Goes(s, t, {}) /\ Shift(s, t, None, 0)
<1>1. /\ {s.cas_id, s.now, s.oldest_live, s.oldest_cas} \subseteq Nat /\ s.now >= 2 /\ DOMAIN s = StoreFields /\ s.oldest_cas <= s.cas_id
      /\ s.oldest_live = 0 => s.oldest_cas = 0
  BY DEF StoreOK
<1>2. /\ DOMAIN t = StoreFields /\ t.item = s.item /\ t.link = s.link /\ t.cas_id = s.cas_id /\ t.now = s.now + 1
      /\ t.oldest_live = s.oldest_live /\ t.oldest_cas = s.oldest_cas
  BY <1>1 DEF StoreFields
<1>3. /\ {t.cas_id, t.now, t.oldest_live, t.oldest_cas} \subseteq Nat /\ t.now >= 2 /\ t.cas_id >= s.cas_id
      /\ t.oldest_cas <= t.cas_id /\ (t.oldest_live = 0 => t.oldest_cas = 0)
  BY <1>1, <1>2
<1> QED BY <1>2, <1>3, SameItems

Times(c, places, j) == Cardinality({n \in places : RefAt(c, n) = j})

LEMMA RemoveAllGoes ==
    ASSUME NEW s, StoreOK(s), NEW c, NEW places,
           \A j \in DOMAIN s.item : Times(c, places, j) \in Nat /\ Times(c, places, j) <= Net(s, j),
           NEW X, \A j \in DOMAIN s.item : Times(c, places, j) > 0 => j \in X
    PROVE  /\ Goes(s, RemoveAll(s, c, places), X)
           /\ \A j \in DOMAIN s.item : Net(RemoveAll(s, c, places), j) = Net(s, j) - Times(c, places, j)
           /\ RemoveAll(s, c, places).link = s.link
<1>1. PICK t : t = RemoveAll(s, c, places)
  OBVIOUS
<1>2. PICK f : f = [j \in DOMAIN s.item |-> Times(c, places, j)]
  OBVIOUS
<1>3. \A j \in DOMAIN s.item : f[j] \in Nat /\ f[j] <= Net(s, j) /\ f[j] = Times(c, places, j) /\ (f[j] > 0 => j \in X)
  BY <1>2
<1>4. /\ DOMAIN t = StoreFields /\ DOMAIN t.item = DOMAIN s.item /\ t.item = [j \in DOMAIN s.item |-> t.item[j]]
      /\ t.link = s.link /\ t.cas_id = s.cas_id /\ t.now = s.now
      /\ t.oldest_live = s.oldest_live /\ t.oldest_cas = s.oldest_cas
      /\ \A j \in DOMAIN s.item :
           t.item[j] = IF f[j] = 0 THEN s.item[j]
                       ELSE [IF s.item[j].ref <= f[j] THEN FreeItem ELSE s.item[j] EXCEPT !.ref = s.item[j].ref - f[j]]
  BY <1>1, <1>3 DEF RemoveAll, Times, StoreOK, StoreFields
<1>5. \A j \in DOMAIN s.item : ItemOK(s.item[j]) /\ Net(s, j) \in Nat /\ s.item[j].ref \in Nat
  BY NetIs DEF StoreOK, ItemOK
<1>6. ASSUME NEW j \in DOMAIN s.item
      PROVE  /\ ItemOK(t.item[j]) /\ t.item[j].ref = s.item[j].ref - f[j]
             /\ Linked(t, j) = Linked(s, j) /\ Net(t, j) = Net(s, j) - f[j]
             /\ Linked(t, j) \/ Net(t, j) > 0 => t.item[j].key = s.item[j].key /\ t.item[j].cas = s.item[j].cas /\ t.item[j].val = s.item[j].val
             /\ f[j] = 0 => t.item[j] = s.item[j]
  <2>1. PICK r \in Nat, m \in Nat, h \in {s.item[j]} : r = s.item[j].ref /\ m = f[j] /\ h = s.item[j]
    BY <1>3, <1>5
  <2>2. PICK o \in {0, 1} : o = One(Linked(s, j))
    BY DEF One
  <2>3. Net(s, j) = r - o
    BY <2>1, <2>2 DEF Net
  <2>4. m <= r - o
    BY <1>3, <2>1, <2>3
  <2>5. CASE m = 0
    <3>1. t.item[j] = s.item[j]
      BY <1>4, <2>1, <2>5
    <3>2. Linked(t, j) = Linked(s, j)
      BY <1>4, <3>1 DEF Linked
    <3>3. Net(t, j) = Net(s, j)
      BY <3>1, <3>2 DEF Net
    <3> QED BY <1>5, <2>1, <2>5, <3>1, <3>2, <3>3
  <2>6. CASE m # 0 /\ r <= m
    <3>1. o = 0 /\ r = m
      BY <2>4, <2>6
    <3>2. ~Linked(s, j)
      BY <2>2, <3>1 DEF One
    <3>3. t.item[j] = [FreeItem EXCEPT !.ref = r - m]
      BY <1>4, <2>1, <2>6
    <3>4. ItemOK(t.item[j]) /\ t.item[j].ref = r - m /\ t.item[j].key = None
      BY <3>1, <3>3 DEF ItemOK, FreeItem, ItemFields
    <3>5. ~Linked(t, j)
      BY <3>4 DEF Linked
    <3>6. Net(t, j) = (r - m) - 0
      BY <3>4, <3>5 DEF Net, One
    <3>7. Net(t, j) = 0 /\ Net(t, j) = Net(s, j) - f[j]
      BY <2>1, <2>3, <3>1, <3>6
    <3>8. Linked(t, j) = Linked(s, j)
      BY <3>2, <3>5 DEF Linked
    <3> QED BY <2>1, <2>6, <3>4, <3>5, <3>7, <3>8
  <2>7. CASE m # 0 /\ ~(r <= m)
    <3>1. t.item[j] = [h EXCEPT !.ref = r - m]
      BY <1>4, <2>1, <2>7
    <3>2. /\ ItemOK(t.item[j]) /\ t.item[j].ref = r - m /\ t.item[j].key = h.key
          /\ t.item[j].cas = h.cas /\ t.item[j].val = h.val
      BY <1>5, <2>1, <2>7, <3>1 DEF ItemOK, ItemFields
    <3>3. Linked(t, j) = Linked(s, j)
      BY <1>4, <2>1, <3>2 DEF Linked
    <3>4. Net(t, j) = (r - m) - o
      BY <2>2, <3>2, <3>3 DEF Net
    <3>5. Net(t, j) = Net(s, j) - f[j]
      BY <2>1, <2>3, <3>4
    <3> QED BY <2>1, <2>7, <3>2, <3>3, <3>5
  <2> QED BY <2>5, <2>6, <2>7
<1>7. \A j \in DOMAIN s.item : Net(t, j) = Net(s, j) - f[j] /\ Net(t, j) \in Nat
  BY <1>3, <1>5, <1>6
<1>8. StoreOK(t)
  <2>1. \A j \in DOMAIN t.item : ItemOK(t.item[j]) /\ Net(t, j) >= 0
    <3>1. \A j \in DOMAIN s.item : ItemOK(t.item[j])
      BY <1>6
    <3>2. \A j \in DOMAIN s.item : Net(t, j) >= 0
      BY <1>7
    <3> QED BY <1>4, <3>1, <3>2
  <2>2. \A m \in Keys : t.link[m] # None => t.item[t.link[m]].key = m
    <3> SUFFICES ASSUME NEW m \in Keys, s.link[m] # None PROVE t.item[s.link[m]].key = m
      BY <1>4
    <3>1. s.link[m] \in DOMAIN s.item /\ s.item[s.link[m]].key = m /\ Linked(s, s.link[m])
      BY LookedUp
    <3>2. Linked(t, s.link[m])
      BY <1>6, <3>1
    <3> QED BY <1>6, <3>1, <3>2
  <2>3. \A j \in DOMAIN t.item : Linked(t, j) => t.item[j].cas \in 1 .. t.cas_id /\ t.item[j].cas # t.oldest_cas
    <3> SUFFICES ASSUME NEW j \in DOMAIN s.item, Linked(t, j) PROVE t.item[j].cas \in 1 .. t.cas_id /\ t.item[j].cas # t.oldest_cas
      BY <1>4
    <3>1. Linked(s, j) /\ t.item[j].cas = s.item[j].cas
      BY <1>6
    <3> QED BY <1>4, <3>1 DEF StoreOK
  <2>4. /\ {t.cas_id, t.now, t.oldest_live, t.oldest_cas} \subseteq Nat /\ t.now >= 2
        /\ t.oldest_cas <= t.cas_id /\ (t.oldest_live = 0 => t.oldest_cas = 0)
    BY <1>4 DEF StoreOK
  <2>5. DOMAIN t.item \subseteq Items /\ t.link \in [Keys -> DOMAIN t.item \cup {None}]
    BY <1>4 DEF StoreOK
  <2>6. Distinct(t)
    <3>1. \A j \in DOMAIN s.item : Linked(t, j) => Linked(s, j) /\ t.item[j].cas = s.item[j].cas
      BY <1>6
    <3> QED BY <1>4, <3>1, DistinctStays DEF StoreOK
  <2> QED BY <1>4, <2>1, <2>2, <2>3, <2>4, <2>5, <2>6 DEF StoreOK
<1>9. Vals(s, t)
  BY <1>6, <1>7 DEF Vals
<1>10. Lones(s, t, X)
  <2> SUFFICES ASSUME NEW j \in DOMAIN s.item, Lone(s, j), j \notin X
               PROVE  Lone(t, j) /\ t.item[j].key = s.item[j].key /\ t.item[j].cas = s.item[j].cas
    BY DEF Lones
  <2>1. f[j] = 0
    BY <1>3
  <2> QED BY <1>6, <2>1 DEF Lone
<1>11. Ages(s, t)
  <2>1. s.cas_id <= t.cas_id
    BY <1>4 DEF StoreOK
  <2> QED BY <1>6, <2>1 DEF Ages
<1> QED BY <1>1, <1>3, <1>4, <1>7, <1>8, <1>9, <1>10, <1>11 DEF Goes

-----------------------------------------------------------------------------
(* The references of connections.                                          *)

Held(d, j) == {n \in Places(d) : RefAt(d, n) = j}
Mine(d, j) == Cardinality(Held(d, j))
Holders(cn, j) == UNION {{d} \X Held(cn[d], j) : d \in Conns}
Others(cn, c, j) == UNION {{d} \X Held(cn[d], j) : d \in Conns \ {c}}

\* A connection whose places can be counted.
Counted(d) == IsFiniteSet(Places(d))

LEMMA HeldIs ==
    ASSUME NEW d, Counted(d), NEW j
    PROVE  /\ IsFiniteSet(Held(d, j)) /\ Mine(d, j) \in Nat
           /\ \A n \in Places(d) : RefAt(d, n) = j => Mine(d, j) >= 1
           /\ Mine(d, j) = 0 => \A n \in Places(d) : RefAt(d, n) # j
<1>1. Held(d, j) \in SUBSET Places(d)
  BY DEF Held
<1>2. IsFiniteSet(Held(d, j))
  BY <1>1, FS_Subset DEF Counted
<1>3. Mine(d, j) \in Nat
  BY <1>2, FS_CardinalityType DEF Mine
<1>4. ASSUME NEW n \in Places(d), RefAt(d, n) = j PROVE Mine(d, j) # 0
  <2>1. n \in Held(d, j)
    BY <1>4 DEF Held
  <2> QED BY <1>2, <2>1, FS_EmptySet DEF Mine
<1> QED BY <1>2, <1>3, <1>4

\* The pairs {c} \X S are as many as S.
LEMMA TaggedIs ==
    ASSUME NEW c, NEW S, IsFiniteSet(S)
    PROVE  IsFiniteSet({c} \X S) /\ Cardinality({c} \X S) = Cardinality(S)
<1>1. PICK f : f = [x \in S |-> <<c, x>>]
  OBVIOUS
<1>2. f \in Bijection(S, {c} \X S)
  <2>1. f \in [S -> {c} \X S] /\ \A x \in S : f[x] = <<c, x>>
    BY <1>1
  <2>2. \A x, y \in S : f[x] = f[y] => x = y
    BY <2>1
  <2>3. \A p \in {c} \X S : \E x \in S : f[x] = p
    BY <2>1
  <2> QED BY <2>1, <2>2, <2>3 DEF Bijection, Injection, Surjection, IsInjective
<1>3. ExistsBijection(S, {c} \X S)
  BY <1>2 DEF ExistsBijection
<1> QED BY <1>3, FS_Bijection

LEMMA HoldersAre ==
    ASSUME NEW cn, NEW c \in Conns, NEW j, \A d \in Conns : Counted(cn[d])
    PROVE  /\ IsFiniteSet(Others(cn, c, j)) /\ Cardinality(Others(cn, c, j)) \in Nat
           /\ IsFiniteSet(Holders(cn, j)) /\ Cardinality(Holders(cn, j)) \in Nat
           /\ Cardinality(Holders(cn, j)) = Cardinality(Others(cn, c, j)) + Mine(cn[c], j)
           /\ \A d \in Conns \ {c} : Cardinality(Others(cn, c, j)) >= Mine(cn[d], j)
<1>1. PICK D : D = Conns \ {c}
  OBVIOUS
<1>2. IsFiniteSet(D)
  BY <1>1, ConnsAssumption, FS_RemoveElement
<1>3. PICK f : f = [d \in D |-> {d} \X Held(cn[d], j)]
  OBVIOUS
<1>4. PICK T : T = {f[d] : d \in D}
  OBVIOUS
<1>5. f \in Surjection(D, T)
  BY <1>3, <1>4 DEF Surjection
<1>6. IsFiniteSet(T)
  BY <1>2, <1>5, FS_Surjection
<1>7. \A d \in Conns : IsFiniteSet(Held(cn[d], j)) /\ Mine(cn[d], j) \in Nat
  BY HeldIs
<1>8. \A d \in Conns : IsFiniteSet({d} \X Held(cn[d], j)) /\ Cardinality({d} \X Held(cn[d], j)) = Mine(cn[d], j)
  BY <1>7, TaggedIs DEF Mine
<1>9. \A S \in T : IsFiniteSet(S)
  BY <1>1, <1>3, <1>4, <1>8
<1>10. IsFiniteSet(UNION T)
  BY <1>6, <1>9, FS_UNION
<1>11. Others(cn, c, j) = UNION T
  BY <1>1, <1>3, <1>4 DEF Others
<1>12. PICK R, P : R = Others(cn, c, j) /\ P = {c} \X Held(cn[c], j)
  OBVIOUS
<1>13. IsFiniteSet(R) /\ IsFiniteSet(P) /\ Cardinality(P) = Mine(cn[c], j)
  BY <1>8, <1>10, <1>11, <1>12
<1>14. Holders(cn, j) = R \cup P
  BY <1>12 DEF Holders, Others
<1>15. R \cap P = {}
  BY <1>12 DEF Others
<1>16. IsFiniteSet(R \cup P) /\ Cardinality(R \cup P) = Cardinality(R) + Cardinality(P) - Cardinality(R \cap P)
  BY <1>13, FS_Union
<1>17. Cardinality(R) \in Nat /\ Cardinality(P) \in Nat /\ Cardinality(R \cap P) = 0
  BY <1>13, <1>15, FS_CardinalityType, FS_EmptySet
<1>18. ASSUME NEW d \in Conns \ {c} PROVE Cardinality(R) >= Mine(cn[d], j)
  <2>1. {d} \X Held(cn[d], j) \in SUBSET R
    BY <1>12 DEF Others
  <2>2. Cardinality({d} \X Held(cn[d], j)) <= Cardinality(R)
    BY <1>13, <2>1, FS_Subset
  <2> QED BY <1>7, <1>8, <1>17, <2>2
<1> QED BY <1>12, <1>13, <1>14, <1>16, <1>17, <1>18

LEMMA OthersStay ==
    ASSUME NEW cn, NEW c \in Conns, NEW j, DOMAIN cn = Conns, NEW e, NEW dn, dn = [cn EXCEPT ![c] = e]
    PROVE  Others(dn, c, j) = Others(cn, c, j) /\ dn[c] = e /\ \A d \in Conns \ {c} : dn[d] = cn[d]
<1>1. \A d \in Conns \ {c} : dn[d] = cn[d]
  OBVIOUS
<1>2. {{d} \X Held(dn[d], j) : d \in Conns \ {c}} = {{d} \X Held(cn[d], j) : d \in Conns \ {c}}
  BY <1>1
<1> QED BY <1>1, <1>2 DEF Others

LEMMA KnownStays ==
    ASSUME NEW s, NEW t, StoreOK(s), StoreOK(t), DOMAIN t.item = DOMAIN s.item, Ages(s, t), NEW v, Known(s, v)
    PROVE  Known(t, v)
<1>1. s.cas_id \in Nat /\ t.cas_id \in Nat /\ s.cas_id <= t.cas_id
  BY DEF Ages, StoreOK
<1>2. v.cas \in 0 .. s.cas_id
  BY DEF Known
<1>3. ASSUME NEW i \in DOMAIN t.item, Linked(t, i), t.item[i].cas = v.cas PROVE t.item[i].val = v.val
  <2>1. ~(t.item[i].cas > s.cas_id)
    BY <1>1, <1>2, <1>3
  <2>2. Linked(s, i) /\ t.item[i].cas = s.item[i].cas /\ t.item[i].val = s.item[i].val
    BY <1>3, <2>1 DEF Ages
  <2> QED BY <1>3, <2>2 DEF Known
<1> QED BY <1>1, <1>2, <1>3 DEF Known

LEMMA FineCounts ==
    ASSUME NEW d, NEW s, NEW rs, NEW sn, Fine(d, s, rs, sn)
    PROVE  /\ Counted(d) /\ -1 \in Places(d) /\ 0 \in Places(d) /\ Places(d) \subseteq Int
           /\ \A n \in Places(d) \ {-1, 0} : n \in DOMAIN d.ilist
<1>1. PICK h : h = IF Collecting(d) THEN d.hits ELSE d.ileft
  OBVIOUS
<1>2. h \in 0 .. Len(d.ilist) /\ Len(d.ilist) \in Nat /\ DOMAIN d.ilist = 1 .. Len(d.ilist)
  <2>1. d.ilist \in Seq(DOMAIN s.item) /\ d.ileft \in 0 .. Len(d.ilist) /\ (Collecting(d) => d.hits \in 0 .. Len(d.ilist))
    BY DEF Fine
  <2> QED BY <1>1, <2>1
<1>3. Places(d) = -1 .. h
  BY <1>1 DEF Places
<1>4. IsFiniteSet(-1 .. h)
  BY <1>2, FS_Interval
<1> QED BY <1>2, <1>3, <1>4 DEF Counted

\* Whatever others do, what d holds keeps its value and its place.
LEMMA FineStays ==
    ASSUME NEW d, NEW s, NEW t, NEW rs, NEW sn, Fine(d, s, rs, sn), StoreOK(s), StoreOK(t),
           DOMAIN t.item = DOMAIN s.item, Ages(s, t),
           \A j \in DOMAIN s.item : Mine(d, j) >= 1 =>
              /\ t.item[j].val = s.item[j].val
              /\ Lone(s, j) => Lone(t, j) /\ t.item[j].key = s.item[j].key /\ t.item[j].cas = s.item[j].cas
    PROVE  Fine(d, t, rs, sn)
<1>1. /\ Counted(d) /\ -1 \in Places(d) /\ 0 \in Places(d) /\ Places(d) \subseteq Int
      /\ \A n \in Places(d) \ {-1, 0} : n \in DOMAIN d.ilist
  BY FineCounts
<1>2. \A j : \A n \in Places(d) : RefAt(d, n) = j => Mine(d, j) >= 1
  BY <1>1, HeldIs
<1>3. d.state = "nread" /\ d.item # None =>
          /\ Lone(t, d.item) /\ t.item[d.item].key \in Keys
          /\ d.cmd = "cas" => t.item[d.item].cas \in {0, sn.cas}
  <2> SUFFICES ASSUME d.state = "nread", d.item # None
               PROVE  /\ Lone(t, d.item) /\ t.item[d.item].key \in Keys
                      /\ d.cmd = "cas" => t.item[d.item].cas \in {0, sn.cas}
    OBVIOUS
  <2>1. /\ Lone(s, d.item) /\ s.item[d.item].key \in Keys /\ d.item \in DOMAIN s.item
        /\ d.cmd = "cas" => s.item[d.item].cas \in {0, sn.cas}
    BY DEF Fine
  <2>2. RefAt(d, 0) = d.item
    BY DEF RefAt
  <2> QED BY <1>1, <1>2, <2>1, <2>2
<1>4. \A v : Known(s, v) => Known(t, v)
  BY KnownStays
<1>5. ASSUME NEW n \in DOMAIN d.iov PROVE PieceOK(d.iov[n], d, t)
  <2>1. PICK p : p = d.iov[n]
    OBVIOUS
  <2>2. PieceOK(p, d, s)
    BY <2>1 DEF Fine
  <2>3. CASE p.it = None
    BY <2>1, <2>3 DEF PieceOK
  <2>4. CASE p.it # None /\ d.state \in {"closing", "closed"}
    BY <1>4, <2>1, <2>2, <2>4 DEF PieceOK
  <2>5. CASE p.it # None /\ d.state \notin {"closing", "closed"}
    <3>1. /\ Known(s, p) /\ (d.state = "mwrite" \/ Collecting(d))
          /\ p.it \in DOMAIN s.item /\ s.item[p.it].val = p.val
          /\ \E m \in Places(d) \ {-1} : RefAt(d, m) = p.it
      BY <2>2, <2>5 DEF PieceOK
    <3>2. Mine(d, p.it) >= 1
      BY <1>2, <3>1
    <3>3. t.item[p.it].val = p.val
      BY <3>1, <3>2
    <3> QED BY <1>4, <2>1, <3>1, <3>3 DEF PieceOK
  <2> QED BY <2>3, <2>4, <2>5
<1> QED BY <1>3, <1>5 DEF Fine

\* The step of one connection: what it may change of the store.
Moves(s, t, X) ==
    /\ StoreOK(t) /\ DOMAIN t.item = DOMAIN s.item /\ Lones(s, t, X) /\ Ages(s, t)
    /\ \A j \in DOMAIN s.item : t.item[j].val = s.item[j].val \/ Net(s, j) = 0 \/ Net(t, j) = 0 \/ (Lone(s, j) /\ j \in X)

\* The references it takes and gives back are those of the connection, or are lost.
Balance(s, t, l, m, d, e) ==
    \A j \in DOMAIN s.item :
      /\ Net(t, j) >= Net(s, j) + (m[j] - l[j]) + (Mine(e, j) - Mine(d, j))
      /\ e.state # "hung" => /\ d.state # "hung"
                             /\ Net(t, j) = Net(s, j) + (m[j] - l[j]) + (Mine(e, j) - Mine(d, j))

Only(f, g, c, x) == DOMAIN g = Conns /\ \A d \in Conns : g[d] = IF d = c THEN x ELSE f[d]

LEMMA OnlyIs ==
    ASSUME NEW f, DOMAIN f = Conns, NEW c \in Conns
    PROVE  Only(f, f, c, f[c]) /\ \A x : Only(f, [f EXCEPT ![c] = x], c, x)
BY DEF Only

LEMMA HoldersStep ==
    ASSUME NEW cn, NEW dn, NEW c \in Conns, NEW e, Only(cn, dn, c, e), NEW j,
           \A d \in Conns : Counted(cn[d]) /\ Counted(dn[d])
    PROVE  /\ {Cardinality(Holders(cn, j)), Cardinality(Holders(dn, j)), Mine(cn[c], j), Mine(e, j)} \subseteq Nat
           /\ Cardinality(Holders(dn, j)) = Cardinality(Holders(cn, j)) + (Mine(e, j) - Mine(cn[c], j))
           /\ \A d \in Conns : d # c => Cardinality(Holders(dn, j)) >= Mine(cn[d], j) + Mine(e, j)
           /\ \A d \in Conns : d # c => Cardinality(Holders(cn, j)) >= Mine(cn[d], j) + Mine(cn[c], j)
<1>1. dn[c] = e /\ \A d \in Conns \ {c} : dn[d] = cn[d]
  BY DEF Only
<1>2. {{d} \X Held(dn[d], j) : d \in Conns \ {c}} = {{d} \X Held(cn[d], j) : d \in Conns \ {c}}
  BY <1>1
<1>3. Others(dn, c, j) = Others(cn, c, j)
  BY <1>2 DEF Others
<1>4. /\ Cardinality(Others(cn, c, j)) \in Nat
      /\ Cardinality(Holders(cn, j)) = Cardinality(Others(cn, c, j)) + Mine(cn[c], j)
      /\ \A d \in Conns \ {c} : Cardinality(Others(cn, c, j)) >= Mine(cn[d], j)
  BY HoldersAre
<1>5. Cardinality(Holders(dn, j)) = Cardinality(Others(dn, c, j)) + Mine(dn[c], j)
  BY HoldersAre
<1>6. \A d \in Conns : Mine(cn[d], j) \in Nat /\ Mine(dn[d], j) \in Nat
  BY HeldIs
<1> QED BY <1>1, <1>3, <1>4, <1>5, <1>6

UnitsOf(rs) == [req : DOMAIN rs, part : {"frag", "line", "hdr", "key", "data"}]

LEMMA RefsAre == \A j : References(j) = Holders(conn, j)
BY DEF References, Holders, Held

\* The step of one connection leaves everything in order if it leaves that connection in order,
\* disturbs only what it alone holds, and keeps its books.
LEMMA Frame ==
    ASSUME Clean, lost \in [Items -> Nat], lost' \in [Items -> Nat], NEW c \in Conns, NEW e, NEW X, NEW sn, NEW q,
           Only(conn, conn', c, e), Only(seen, seen', c, sn), Only(sock, sock', c, q), reqs' = reqs, script' = script,
           Moves(store, store', X), \A j \in DOMAIN store.item : j \in X => Mine(conn[c], j) >= 1,
           Balance(store, store', lost, lost', conn[c], e),
           Fine(e, store', reqs[c], sn), Known(store', sn), {e.rbuf, q} \subseteq Seq(UnitsOf(reqs[c]))
    PROVE  Clean'
<1>1. PICK s, t, cn, dn : s = store /\ t = store' /\ cn = conn /\ dn = conn'
  OBVIOUS
<1>2. StoreOK(s) /\ StoreOK(t) /\ DOMAIN t.item = DOMAIN s.item /\ Ages(s, t) /\ DOMAIN s.item \subseteq Items
  BY <1>1 DEF Clean, Moves, StoreOK
<1>3. /\ DOMAIN conn = Conns /\ DOMAIN reqs = Conns /\ DOMAIN seen = Conns /\ DOMAIN sock = Conns /\ DOMAIN script = Conns
      /\ DOMAIN conn' = Conns /\ DOMAIN seen' = Conns /\ DOMAIN sock' = Conns
  BY DEF Clean, Only
<1>4. conn'[c] = e /\ seen'[c] = sn /\ sock'[c] = q
  BY DEF Only
<1>5. \A d \in Conns : d # c => conn'[d] = conn[d] /\ seen'[d] = seen[d] /\ sock'[d] = sock[d]
  BY DEF Only
<1>6. \A d \in Conns : Fine(conn[d], store, reqs[d], seen[d]) /\ Known(store, seen[d]) /\ StreamOK(d)
  BY DEF Clean
<1>7. \A d \in Conns : Counted(cn[d])
  BY <1>1, <1>6, FineCounts
<1>8. \A d \in Conns : Counted(dn[d])
  <2>1. Counted(e)
    BY FineCounts
  <2> QED BY <1>1, <1>4, <1>5, <1>7, <2>1
<1>9. \A j : /\ {Cardinality(Holders(cn, j)), Cardinality(Holders(dn, j)), Mine(cn[c], j), Mine(e, j)} \subseteq Nat
             /\ Cardinality(Holders(dn, j)) = Cardinality(Holders(cn, j)) + (Mine(e, j) - Mine(cn[c], j))
             /\ \A d \in Conns : d # c => Cardinality(Holders(dn, j)) >= Mine(cn[d], j) + Mine(e, j)
             /\ \A d \in Conns : d # c => Cardinality(Holders(cn, j)) >= Mine(cn[d], j) + Mine(cn[c], j)
  <2>1. Only(cn, dn, c, e)
    BY <1>1
  <2> QED BY <1>7, <1>8, <2>1, HoldersStep
<1>10. \A j \in DOMAIN s.item : lost[j] \in Nat /\ lost'[j] \in Nat /\ Net(s, j) \in Nat /\ Net(t, j) \in Nat
  BY <1>2, NetIs
<1>11. ASSUME NEW j \in DOMAIN s.item
       PROVE  /\ Net(s, j) >= lost[j] + Cardinality(Holders(cn, j))
              /\ (\A d \in Conns : cn[d].state # "hung") => Net(s, j) = lost[j] + Cardinality(Holders(cn, j))
  BY <1>1, RefsAre DEF Clean, Exact
<1>12. ASSUME NEW j \in DOMAIN s.item
       PROVE  /\ Net(t, j) >= lost'[j] + Cardinality(Holders(dn, j))
              /\ (\A d \in Conns : dn[d].state # "hung") => Net(t, j) = lost'[j] + Cardinality(Holders(dn, j))
  <2>1. /\ Net(t, j) >= Net(s, j) + (lost'[j] - lost[j]) + (Mine(e, j) - Mine(cn[c], j))
        /\ e.state # "hung" => /\ cn[c].state # "hung"
                               /\ Net(t, j) = Net(s, j) + (lost'[j] - lost[j]) + (Mine(e, j) - Mine(cn[c], j))
    BY <1>1 DEF Balance
  <2>2. PICK m, n, k, l : m = Net(s, j) /\ n = Net(t, j) /\ k = lost[j] /\ l = lost'[j]
    OBVIOUS
  <2>3. PICK h, g, a, b : /\ h = Cardinality(Holders(cn, j)) /\ g = Cardinality(Holders(dn, j))
                          /\ a = Mine(cn[c], j) /\ b = Mine(e, j)
    OBVIOUS
  <2>4. /\ m \in Int /\ n \in Int /\ k \in Int /\ l \in Int
        /\ h \in Int /\ g \in Int /\ a \in Int /\ b \in Int /\ g = h + (b - a)
    <3>1. m \in Int /\ n \in Int /\ k \in Int /\ l \in Int
      BY <1>10, <2>2
    <3>2. h \in Int /\ g \in Int /\ a \in Int /\ b \in Int /\ g = h + (b - a)
      BY <1>9, <2>3
    <3> QED BY <3>1, <3>2
  <2>5. n >= l + g
    <3>1. m >= k + h
      BY <1>11, <2>2, <2>3
    <3>2. n >= m + (l - k) + (b - a)
      BY <2>1, <2>2, <2>3
    <3> QED BY <2>4, <3>1, <3>2
  <2>6. ASSUME \A d \in Conns : dn[d].state # "hung" PROVE n = l + g
    <3>1. e.state # "hung" /\ \A d \in Conns : cn[d].state # "hung"
      BY <1>1, <1>4, <1>5, <2>1, <2>6
    <3>2. m = k + h
      BY <1>11, <2>2, <2>3, <3>1
    <3>3. n = m + (l - k) + (b - a)
      BY <2>1, <2>2, <2>3, <3>1
    <3> QED BY <2>4, <3>2, <3>3
  <2> QED BY <2>2, <2>3, <2>5, <2>6
<1>13. \A j \in DOMAIN store'.item : Exact(j)'
  <2>1. \A j : References(j)' = Holders(conn', j)
    BY DEF References, Holders, Held
  <2> QED BY <1>1, <1>2, <1>12, <2>1 DEF Exact
<1>14. \A v : Known(s, v) => Known(t, v)
  BY <1>2, KnownStays
<1>15. ASSUME NEW d \in Conns, d # c PROVE Fine(conn[d], t, reqs[d], seen[d])
  <2>1. ASSUME NEW j \in DOMAIN s.item, Mine(conn[d], j) >= 1
        PROVE  /\ t.item[j].val = s.item[j].val
               /\ Lone(s, j) => Lone(t, j) /\ t.item[j].key = s.item[j].key /\ t.item[j].cas = s.item[j].cas
    <3>1. Mine(conn[d], j) \in Nat
      BY <1>1, <1>7, HeldIs
    <3> DEFINE m == Mine(cn[d], j)
               h == Cardinality(Holders(cn, j))
               g == Cardinality(Holders(dn, j))
               a == Mine(cn[c], j)
               b == Mine(e, j)
    <3>a. m \in Nat /\ m >= 1 /\ h \in Nat /\ g \in Nat /\ a \in Nat /\ b \in Nat /\ g >= m + b /\ h >= m + a
      BY <1>1, <1>9, <1>15, <2>1, <3>1
    <3>b. Net(s, j) >= lost[j] + h /\ Net(t, j) >= lost'[j] + g
      BY <1>11, <1>12
    <3> HIDE DEF m, h, g, a, b
    <3>2. Net(s, j) >= 1 /\ Net(t, j) >= 1 /\ Net(s, j) >= m + a
      <4>1. {lost[j], lost'[j], Net(s, j), Net(t, j)} \subseteq Nat
        BY <1>10, <2>1
      <4>2. Net(s, j) >= h /\ Net(t, j) >= g
        BY <3>a, <3>b, <4>1
      <4> QED BY <3>a, <4>1, <4>2
    <3>3. ~(Lone(s, j) /\ j \in X)
      <4>1. SUFFICES ASSUME Lone(s, j), j \in X PROVE FALSE
        OBVIOUS
      <4>2. Net(s, j) = 1 /\ Mine(cn[c], j) >= 1
        BY <1>1, <4>1 DEF Lone
      <4>3. a >= 1
        BY <4>2 DEF a
      <4> QED BY <3>2, <3>a, <4>2, <4>3
    <3>4. t.item[j].val = s.item[j].val
      BY <1>1, <3>2, <3>3 DEF Moves
    <3> QED BY <1>1, <3>3, <3>4 DEF Moves, Lones
  <2>2. Fine(conn[d], s, reqs[d], seen[d])
    BY <1>1, <1>6
  <2> QED BY <1>2, <2>1, <2>2, FineStays
<1>16. \A d \in Conns : Fine(conn'[d], store', reqs'[d], seen'[d]) /\ Known(store', seen'[d])
  <2> SUFFICES ASSUME NEW d \in Conns PROVE Fine(conn'[d], store', reqs'[d], seen'[d]) /\ Known(store', seen'[d])
    OBVIOUS
  <2>1. CASE d = c
    BY <1>4, <2>1
  <2>2. CASE d # c
    BY <1>1, <1>5, <1>6, <1>14, <1>15, <2>2
  <2> QED BY <2>1, <2>2
<1>17. \A d \in Conns : StreamOK(d)'
  <2> SUFFICES ASSUME NEW d \in Conns PROVE StreamOK(d)'
    OBVIOUS
  <2>1. /\ reqs[d] \in Seq(Requests) /\ {conn[d].rbuf, sock[d], script[d]} \subseteq Seq(UnitsOf(reqs[d]))
    BY <1>6 DEF StreamOK, UnitsOf
  <2>2. /\ reqs'[d] \in Seq(Requests) /\ {conn'[d].rbuf, sock'[d], script'[d]} \subseteq Seq(UnitsOf(reqs'[d]))
    BY <1>4, <1>5, <2>1
  <2> QED BY <2>2 DEF StreamOK, UnitsOf
<1> QED BY <1>1, <1>2, <1>3, <1>13, <1>16, <1>17 DEF Clean

-----------------------------------------------------------------------------
(* The shapes of a connection.                                             *)

LEMMA SeqIs ==
    ASSUME NEW T, NEW q \in Seq(T)
    PROVE  IsSeq(q)
<1>1. PICK n \in Nat : q \in [1 .. n -> T]
  BY SeqDef
<1>2. q \in [1 .. n -> {q[m] : m \in DOMAIN q}]
  BY <1>1
<1> QED BY <1>2, SeqDef DEF IsSeq

LEMMA IsSeqs ==
    /\ IsSeq(<<>>) /\ \A x : IsSeq(<<x>>)
    /\ \A q, x : IsSeq(q) => IsSeq(Append(q, x))
<1>1. IsSeq(<<>>)
  <2>1. <<>> \in Seq({})
    OBVIOUS
  <2> QED BY <2>1, SeqIs
<1>2. \A x : IsSeq(<<x>>)
  <2> SUFFICES ASSUME NEW x PROVE IsSeq(<<x>>)
    OBVIOUS
  <2>1. <<x>> \in Seq({x})
    OBVIOUS
  <2> QED BY <2>1, SeqIs
<1>3. ASSUME NEW q, NEW x, IsSeq(q) PROVE IsSeq(Append(q, x))
  <2>1. PICK T : T = {q[n] : n \in DOMAIN q}
    OBVIOUS
  <2>2. q \in Seq(T \cup {x})
    BY <1>3, <2>1 DEF IsSeq
  <2>3. Append(q, x) \in Seq(T \cup {x})
    BY <2>2
  <2> QED BY <2>3, SeqIs
<1> QED BY <1>1, <1>2, <1>3

LEMMA SeqFacts ==
    ASSUME NEW q, IsSeq(q)
    PROVE  /\ Len(q) \in Nat /\ DOMAIN q = 1 .. Len(q)
           /\ \A x : /\ DOMAIN Append(q, x) = 1 .. Len(q) + 1 /\ Append(q, x)[Len(q) + 1] = x
                     /\ \A n \in 1 .. Len(q) : Append(q, x)[n] = q[n]
<1>1. PICK T : T = {q[n] : n \in DOMAIN q}
  OBVIOUS
<1>2. q \in Seq(T)
  BY <1>1 DEF IsSeq
<1>3. \A x : q \in Seq(T \cup {x})
  BY <1>2
<1>4. Len(q) \in Nat /\ DOMAIN q = 1 .. Len(q)
  BY <1>2
<1>5. ASSUME NEW x
      PROVE  /\ DOMAIN Append(q, x) = 1 .. Len(q) + 1 /\ Append(q, x)[Len(q) + 1] = x
             /\ \A n \in 1 .. Len(q) : Append(q, x)[n] = q[n]
  <2>1. q \in Seq(T \cup {x})
    BY <1>3
  <2> QED BY <2>1
<1> QED BY <1>4, <1>5

\* No reference is kept, and none of the pieces to send is a value.
Plain(q) == IsSeq(q) /\ \A n \in DOMAIN q : q[n].it = None

Loose(e, D) ==
    /\ DOMAIN e = ConnFields /\ e.ilist \in Seq(D) /\ e.item = None /\ e.purge = None /\ e.ileft = 0 /\ Plain(e.iov)
    /\ e.write_and_go \in {"new_cmd", "swallow", "closing"} /\ {e.sbytes, e.rlbytes} \subseteq Nat

Bare(e, D) ==
    /\ Loose(e, D) /\ ~Collecting(e) /\ e.state # "nread" /\ (e.state \in {"waiting", "read"} => e.cmd = "none")
    /\ e.noreply /\ e.proto # "binary" => e.state \in {"closing", "closed", "hung"}

LEMMA PlainIs ==
    /\ Plain(<<>>) /\ \A c, what : Plain(<<Piece(c, what)>>)
    /\ \A q, c, what : Plain(q) => Plain(Append(q, Piece(c, what)))
<1>1. Plain(<<>>)
  BY IsSeqs DEF Plain
<1>2. ASSUME NEW c, NEW what PROVE Plain(<<Piece(c, what)>>)
  <2>1. Piece(c, what).it = None
    BY DEF Piece
  <2>2. \A n \in DOMAIN <<Piece(c, what)>> : n = 1
    OBVIOUS
  <2> QED BY <2>1, <2>2, IsSeqs DEF Plain
<1>3. ASSUME NEW q, NEW c, NEW what, Plain(q) PROVE Plain(Append(q, Piece(c, what)))
  <2>1. PICK x : x = Piece(c, what)
    OBVIOUS
  <2>2. x.it = None
    BY <2>1 DEF Piece
  <2>3. /\ Len(q) \in Nat /\ DOMAIN q = 1 .. Len(q)
        /\ DOMAIN Append(q, x) = 1 .. Len(q) + 1 /\ Append(q, x)[Len(q) + 1] = x
        /\ \A n \in 1 .. Len(q) : Append(q, x)[n] = q[n]
    BY <1>3, SeqFacts DEF Plain
  <2>4. ASSUME NEW n \in DOMAIN Append(q, x) PROVE Append(q, x)[n].it = None
    <3>1. n \in 1 .. Len(q) \/ n = Len(q) + 1
      BY <2>3
    <3> QED BY <1>3, <2>2, <2>3, <3>1 DEF Plain
  <2> QED BY <1>3, <2>1, <2>4, IsSeqs DEF Plain
<1> QED BY <1>1, <1>2, <1>3

LEMMA LooseHolds ==
    ASSUME NEW s, StoreOK(s), NEW e, Loose(e, DOMAIN s.item), ~Collecting(e), NEW j \in DOMAIN s.item
    PROVE  Mine(e, j) = 0
<1>1. j # None
  BY StoreAssumption DEF StoreOK
<1>2. Places(e) = -1 .. 0
  BY DEF Places, Loose
<1>3. \A n \in Places(e) : RefAt(e, n) = None
  BY <1>2 DEF RefAt, Loose
<1>4. Held(e, j) = {}
  BY <1>1, <1>3 DEF Held
<1> QED BY <1>4, FS_EmptySet DEF Mine

LEMMA BareIs ==
    ASSUME NEW s, StoreOK(s), NEW e, Bare(e, DOMAIN s.item), NEW rs, NEW sn
    PROVE  Fine(e, s, rs, sn) /\ \A j \in DOMAIN s.item : Mine(e, j) = 0
<1>1. \A j \in DOMAIN s.item : Mine(e, j) = 0
  BY LooseHolds DEF Bare
<1>2. Len(e.ilist) \in Nat
  BY DEF Bare, Loose
<1>3. \A n \in DOMAIN e.iov : PieceOK(e.iov[n], e, s)
  BY DEF Bare, Loose, Plain, PieceOK
<1> QED BY <1>1, <1>2, <1>3 DEF Fine, Bare, Loose, Plain

\* A connection that serves no request, or has only begun.
LEMMA BareState ==
    ASSUME NEW s, NEW d, NEW rs, NEW sn, Fine(d, s, rs, sn), d.purge = None, d.item = None, ~Collecting(d),
           d.state \notin {"nread", "mwrite", "closing", "closed", "hung"}
    PROVE  Bare(d, DOMAIN s.item)
<1>1. d.ileft = 0
  BY DEF Fine
<1>2. Plain(d.iov)
  <2>1. \A n \in DOMAIN d.iov : d.iov[n].it = None
    BY DEF Fine, PieceOK
  <2> QED BY <2>1 DEF Fine, Plain
<1> QED BY <1>1, <1>2 DEF Fine, Bare, Loose

LEMMA OutIs ==
    ASSUME NEW D, NEW d, Loose(d, D), NEW str
    PROVE  /\ Bare(out_string(d, str), D) /\ out_string(d, str).rbuf = d.rbuf
           /\ out_string(d, str).state \in {"new_cmd", "write"} /\ ~out_string(d, str).noreply
<1>1. PICK e : e = out_string(d, str)
  OBVIOUS
<1>2. DOMAIN d = ConnFields
  BY DEF Loose
<1>3. CASE d.noreply
  <2>1. e = [d EXCEPT !.noreply = FALSE, !.state = "new_cmd"]
    BY <1>1, <1>3 DEF out_string
  <2>2. /\ DOMAIN e = ConnFields /\ e.ilist = d.ilist /\ e.item = d.item /\ e.purge = d.purge /\ e.ileft = d.ileft /\ e.write_and_go = d.write_and_go /\ e.sbytes = d.sbytes /\ e.rlbytes = d.rlbytes
        /\ e.iov = d.iov /\ e.rbuf = d.rbuf /\ e.noreply = FALSE /\ e.state = "new_cmd"
    BY <1>2, <2>1 DEF ConnFields
  <2> QED BY <1>1, <2>2 DEF Loose, Bare, Collecting
<1>4. CASE ~d.noreply
  <2>1. e = [d EXCEPT !.iov = <<>>, !.wbuf = str, !.state = "write", !.write_and_go = "new_cmd"]
    BY <1>1, <1>4 DEF out_string
  <2>2. /\ DOMAIN e = ConnFields /\ e.ilist = d.ilist /\ e.item = d.item /\ e.purge = d.purge /\ e.ileft = d.ileft /\ e.write_and_go \in {"new_cmd", "swallow", "closing"} /\ e.sbytes = d.sbytes /\ e.rlbytes = d.rlbytes
        /\ e.iov = <<>> /\ e.rbuf = d.rbuf /\ e.noreply = d.noreply /\ e.state = "write"
    BY <1>2, <2>1 DEF ConnFields
  <2> QED BY <1>1, <1>4, <2>2, PlainIs DEF Loose, Bare, Collecting
<1> QED BY <1>3, <1>4

LEMMA BinErrorIs ==
    ASSUME NEW D, NEW d, Loose(d, D), d.proto = "binary", NEW err, NEW swallow \in Nat
    PROVE  /\ Bare(write_bin_error(d, err, swallow), D) /\ write_bin_error(d, err, swallow).rbuf = d.rbuf
           /\ write_bin_error(d, err, swallow).proto = "binary"
<1>1. PICK e, b : e = write_bin_error(d, err, swallow) /\ b = add_bin_header(d, err)
  OBVIOUS
<1>2. DOMAIN d = ConnFields
  BY DEF Loose
<1>3. b = [d EXCEPT !.iov = <<Piece(d, err)>>]
  BY <1>1 DEF add_bin_header
<1>4. DOMAIN b = ConnFields
  BY <1>2, <1>3 DEF ConnFields
<1>5. /\ DOMAIN e = ConnFields /\ e.ilist = d.ilist /\ e.item = d.item /\ e.purge = d.purge /\ e.ileft = d.ileft /\ e.write_and_go \in {"new_cmd", "swallow", "closing"} /\ e.rlbytes = d.rlbytes /\ e.sbytes \in {d.sbytes, swallow}
      /\ e.iov = <<Piece(d, err)>> /\ e.rbuf = d.rbuf /\ e.noreply = d.noreply /\ e.state = "mwrite" /\ e.proto = d.proto
  BY <1>1, <1>2, <1>3, <1>4 DEF write_bin_error, ConnFields
<1> QED BY <1>1, <1>5, PlainIs DEF Loose, Bare, Collecting

LEMMA BinResponseIs ==
    ASSUME NEW D, NEW d, Loose(d, D), d.proto = "binary", NEW what
    PROVE  /\ Bare(write_bin_response(d, what), D) /\ write_bin_response(d, what).rbuf = d.rbuf
           /\ write_bin_response(d, what).proto = "binary"
<1>1. PICK e, b : e = write_bin_response(d, what) /\ b = add_bin_header(d, what)
  OBVIOUS
<1>2. DOMAIN d = ConnFields
  BY DEF Loose
<1>3. CASE ~d.noreply \/ d.cmd \in {"get", "getk"}
  <2>1. b = [d EXCEPT !.iov = <<Piece(d, what)>>]
    BY <1>1 DEF add_bin_header
  <2>2. DOMAIN b = ConnFields
    BY <1>2, <2>1 DEF ConnFields
  <2>3. e = [b EXCEPT !.state = "mwrite", !.write_and_go = "new_cmd"]
    BY <1>1, <1>3 DEF write_bin_response
  <2>4. /\ DOMAIN e = ConnFields /\ e.ilist = d.ilist /\ e.item = d.item /\ e.purge = d.purge /\ e.ileft = d.ileft /\ e.write_and_go \in {"new_cmd", "swallow", "closing"} /\ e.sbytes = d.sbytes /\ e.rlbytes = d.rlbytes
        /\ e.iov = <<Piece(d, what)>> /\ e.rbuf = d.rbuf /\ e.state = "mwrite" /\ e.proto = d.proto
    BY <1>2, <2>1, <2>2, <2>3 DEF ConnFields
  <2> QED BY <1>1, <2>4, PlainIs DEF Loose, Bare, Collecting
<1>4. CASE ~(~d.noreply \/ d.cmd \in {"get", "getk"})
  <2>1. e = [d EXCEPT !.state = "new_cmd"]
    BY <1>1, <1>4 DEF write_bin_response, conn_set_state
  <2>2. /\ DOMAIN e = ConnFields /\ e.ilist = d.ilist /\ e.item = d.item /\ e.purge = d.purge /\ e.ileft = d.ileft /\ e.write_and_go = d.write_and_go /\ e.sbytes = d.sbytes /\ e.rlbytes = d.rlbytes
        /\ e.iov = d.iov /\ e.rbuf = d.rbuf /\ e.state = "new_cmd" /\ e.proto = d.proto
    BY <1>2, <2>1 DEF ConnFields
  <2> QED BY <1>1, <2>2 DEF Loose, Bare, Collecting
<1> QED BY <1>3, <1>4

-----------------------------------------------------------------------------
(* The steps.                                                              *)

Counts == lost \in [Items -> Nat] /\ ooms = 0

LEMMA GoesMoves == \A s, t, X : Goes(s, t, X) => Moves(s, t, X)
BY DEF Goes, Moves, Vals

\* A step that reads nothing from the socket and sends nothing.
LEMMA StepOn ==
    ASSUME Clean, Counts, lost' \in [Items -> Nat], NEW c \in Conns, NEW e, NEW X,
           Only(conn, conn', c, e), UNCHANGED <<seen, sock, reqs, script>>,
           Moves(store, store', X), \A j \in DOMAIN store.item : j \in X => Mine(conn[c], j) >= 1,
           Balance(store, store', lost, lost', conn[c], e),
           Fine(e, store', reqs[c], seen[c]), e.rbuf \in Seq(UnitsOf(reqs[c]))
    PROVE  Clean'
<1>1. DOMAIN seen = Conns /\ DOMAIN sock = Conns
  BY DEF Clean
<1>2. Only(seen, seen', c, seen[c]) /\ Only(sock, sock', c, sock[c]) /\ reqs' = reqs /\ script' = script
  BY <1>1 DEF Only
<1>3. StoreOK(store) /\ Known(store, seen[c]) /\ StreamOK(c)
  BY DEF Clean
<1>4. Known(store', seen[c])
  BY <1>3, KnownStays DEF Moves
<1>5. {e.rbuf, sock[c]} \subseteq Seq(UnitsOf(reqs[c]))
  BY <1>3 DEF StreamOK, UnitsOf
<1> QED BY <1>2, <1>4, <1>5, Frame DEF Counts

\* A connection that holds nothing before and after.
LEMMA BareStep ==
    ASSUME Clean, Counts, NEW c \in Conns, NEW e, Only(conn, conn', c, e), UNCHANGED <<seen, sock, reqs, script, lost>>,
           Goes(store, store', {}), Shift(store, store', None, 0), conn[c].state # "hung",
           Bare(conn[c], DOMAIN store.item), Bare(e, DOMAIN store.item), e.rbuf \in Seq(UnitsOf(reqs[c]))
    PROVE  Clean'
<1>1. PICK s, t, d : s = store /\ t = store' /\ d = conn[c]
  OBVIOUS
<1>2. StoreOK(s) /\ StoreOK(t) /\ DOMAIN t.item = DOMAIN s.item
  BY <1>1 DEF Clean, Goes
<1>3. \A j \in DOMAIN s.item : Mine(d, j) = 0 /\ Mine(e, j) = 0
  BY <1>1, <1>2, BareIs
<1>4. \A j \in DOMAIN s.item : Net(t, j) = Net(s, j) /\ Net(s, j) \in Nat /\ lost[j] \in Nat
  <2>1. \A j \in DOMAIN s.item : Net(s, j) \in Nat
    BY <1>2, NetIs
  <2>2. \A j \in DOMAIN s.item : lost[j] \in Nat
    BY <1>2 DEF Counts, StoreOK
  <2> QED BY <1>1, <2>1, <2>2 DEF Shift
<1>5. Balance(store, store', lost, lost', conn[c], e)
  BY <1>1, <1>3, <1>4 DEF Balance
<1>6. Fine(e, store', reqs[c], seen[c])
  BY <1>1, <1>2, BareIs
<1> QED BY <1>5, <1>6, GoesMoves, StepOn DEF Counts

\* The same, and the cache stays as it is.
LEMMA BareStays ==
    ASSUME Clean, Counts, NEW c \in Conns, NEW e, Only(conn, conn', c, e),
           UNCHANGED <<store, seen, sock, reqs, script, lost>>, conn[c].state # "hung",
           Bare(conn[c], DOMAIN store.item), Bare(e, DOMAIN store.item), e.rbuf \in Seq(UnitsOf(reqs[c]))
    PROVE  Clean'
<1>1. Goes(store, store, {}) /\ Shift(store, store, None, 0)
  BY GoesNowhere DEF Clean
<1> QED BY <1>1, BareStep

-----------------------------------------------------------------------------
(* The requests and the read buffer.                                       *)

LEMMA LessIs == \A x, y \in Nat : <<x, y>> \in OpToRel(<, Nat) <=> x < y
BY DEF OpToRel

LEMMA LeastOf ==
    ASSUME NEW T, T \subseteq Nat, T # {}
    PROVE  \E x \in T : \A y \in T : ~(y < x)
<1>1. \E x \in T : \A y \in T : ~(<<y, x>> \in OpToRel(<, Nat))
  BY NatLessThanWellFounded, WFMin, Zenon
<1> QED BY <1>1, LessIs, Zenon

LEMMA DropIs ==
    ASSUME NEW T, NEW q \in Seq(T), NEW n \in Nat
    PROVE  Drop(q, n) \in Seq(T)
<1>1. \A i \in n + 1 .. Len(q) : q[i] \in T
  OBVIOUS
<1> QED BY <1>1, SubSeqProperties DEF Drop

LEMMA BufferIs ==
    ASSUME Clean, NEW c \in Conns
    PROVE  /\ conn[c].rbuf \in Seq(UnitsOf(reqs[c])) /\ sock[c] \in Seq(UnitsOf(reqs[c]))
           /\ script[c] \in Seq(UnitsOf(reqs[c])) /\ reqs[c] \in Seq(Requests)
BY DEF Clean, StreamOK, UnitsOf

LEMMA RequestIs ==
    ASSUME Clean, NEW c \in Conns, conn[c].rbuf # <<>>
    PROVE  First(c).req \in DOMAIN reqs[c] /\ Request(c) \in Requests
<1>1. conn[c].rbuf \in Seq(UnitsOf(reqs[c])) /\ reqs[c] \in Seq(Requests)
  BY BufferIs
<1>2. First(c) \in UnitsOf(reqs[c])
  BY <1>1 DEF First
<1> QED BY <1>1, <1>2 DEF UnitsOf, Request

LEMMA LineEndIs ==
    ASSUME Clean, NEW c \in Conns, Newlines(c) # {}
    PROVE  conn[c].rbuf # <<>> /\ LineEnd(c) \in Nat
<1>1. conn[c].rbuf \in Seq(UnitsOf(reqs[c]))
  BY BufferIs
<1>2. Newlines(c) \subseteq Nat /\ conn[c].rbuf # <<>>
  BY <1>1 DEF Newlines
<1>3. \E n \in Newlines(c) : \A m \in Newlines(c) : n <= m
  BY <1>2, LeastOf
<1> QED BY <1>2, <1>3 DEF LineEnd

\* A connection that is about to look at a command.
LEMMA Parses ==
    ASSUME Clean, NEW c \in Conns, InState(c, "parse_cmd"), conn[c].cmd = "none"
    PROVE  Bare(conn[c], DOMAIN store.item)
<1>1. Fine(conn[c], store, reqs[c], seen[c])
  BY DEF Clean
<1>2. conn[c].state = "parse_cmd" /\ conn[c].purge = None
  BY DEF InState, Driving
<1>3. conn[c].item = None /\ ~Collecting(conn[c])
  BY <1>1, <1>2 DEF Fine, Collecting
<1> QED BY <1>1, <1>2, <1>3, BareState

LEMMA LineIs ==
    ASSUME Clean, NEW c \in Conns, AtLine(c)
    PROVE  /\ Bare(conn[c], DOMAIN store.item) /\ conn[c].state = "parse_cmd" /\ Request(c) \in Requests
           /\ Loose(Line(c), DOMAIN store.item) /\ Line(c).rbuf \in Seq(UnitsOf(reqs[c]))
           /\ ~Line(c).noreply /\ Line(c).state = "parse_cmd" /\ Line(c).cmd = "none" /\ Line(c).proto = "ascii"
<1>1. /\ InState(c, "parse_cmd") /\ conn[c].cmd = "none" /\ Protocol(c) = "ascii" /\ Newlines(c) # {}
      /\ conn[c].state = "parse_cmd" /\ conn[c].purge = None
  BY DEF AtLine, Parsing, InState, Driving
<1>2. Bare(conn[c], DOMAIN store.item)
  BY <1>1, Parses
<1>3. conn[c].proto # "binary"
  BY <1>1 DEF Protocol
<1>4. ~conn[c].noreply
  BY <1>1, <1>2, <1>3 DEF Bare
<1>5. PICK d, e, n, m : d = conn[c] /\ e = Line(c) /\ n = LineEnd(c) /\ m = First(c).req
  OBVIOUS
<1>6. e = [d EXCEPT !.proto = "ascii", !.req = m, !.iov = <<>>, !.rbuf = Drop(d.rbuf, n)]
  BY <1>5 DEF Line
<1>7. DOMAIN d = ConnFields
  BY <1>2, <1>5 DEF Bare, Loose
<1>8. /\ DOMAIN e = ConnFields /\ e.ilist = d.ilist /\ e.item = d.item /\ e.purge = d.purge /\ e.ileft = d.ileft /\ e.write_and_go = d.write_and_go /\ e.sbytes = d.sbytes /\ e.rlbytes = d.rlbytes
      /\ e.iov = <<>> /\ e.rbuf = Drop(d.rbuf, n) /\ e.noreply = d.noreply /\ e.state = d.state /\ e.proto = "ascii"
      /\ e.cmd = d.cmd
  BY <1>6, <1>7 DEF ConnFields
<1>9. d.rbuf \in Seq(UnitsOf(reqs[c])) /\ n \in Nat /\ Request(c) \in Requests
  BY <1>1, <1>5, BufferIs, LineEndIs, RequestIs
<1>10. Drop(d.rbuf, n) \in Seq(UnitsOf(reqs[c]))
  BY <1>9, DropIs
<1>11. Loose(e, DOMAIN store.item)
  BY <1>2, <1>5, <1>8, PlainIs DEF Bare, Loose
<1> QED BY <1>1, <1>2, <1>4, <1>5, <1>8, <1>9, <1>10, <1>11

LEMMA NoreplyIs ==
    ASSUME Clean, NEW c \in Conns, AtLine(c)
    PROVE  /\ Loose(set_noreply_maybe(c), DOMAIN store.item) /\ set_noreply_maybe(c).rbuf = Line(c).rbuf
           /\ set_noreply_maybe(c).state = "parse_cmd" /\ set_noreply_maybe(c).cmd = "none"
           /\ set_noreply_maybe(c).proto = "ascii"
<1>1. PICK d, e, n : d = Line(c) /\ e = set_noreply_maybe(c) /\ n = (d.noreply \/ Request(c).quiet)
  OBVIOUS
<1>2. Loose(d, DOMAIN store.item) /\ d.state = "parse_cmd" /\ d.cmd = "none" /\ d.proto = "ascii"
  BY <1>1, LineIs
<1>3. e = [d EXCEPT !.noreply = n]
  BY <1>1 DEF set_noreply_maybe
<1>4. /\ DOMAIN e = ConnFields /\ e.ilist = d.ilist /\ e.item = d.item /\ e.purge = d.purge /\ e.ileft = d.ileft /\ e.write_and_go = d.write_and_go /\ e.sbytes = d.sbytes /\ e.rlbytes = d.rlbytes
      /\ e.iov = d.iov /\ e.rbuf = d.rbuf /\ e.state = d.state /\ e.proto = d.proto /\ e.cmd = d.cmd
  BY <1>2, <1>3 DEF ConnFields, Loose
<1> QED BY <1>1, <1>2, <1>4 DEF Loose

-----------------------------------------------------------------------------
(* Steps that take or give back a reference, or none.                      *)

LEMMA ShiftStep ==
    ASSUME Clean, Counts, NEW c \in Conns, NEW e, Only(conn, conn', c, e), UNCHANGED <<seen, sock, reqs, script, lost>>,
           NEW X, NEW i, NEW x \in Int, Goes(store, store', X), Shift(store, store', i, x), conn[c].state # "hung",
           \A j \in DOMAIN store.item : j \in X => Mine(conn[c], j) >= 1,
           \A j \in DOMAIN store.item : Mine(e, j) = Mine(conn[c], j) + (IF j = i THEN x ELSE 0),
           Fine(e, store', reqs[c], seen[c]), e.rbuf \in Seq(UnitsOf(reqs[c]))
    PROVE  Clean'
<1>1. PICK s, t, d : s = store /\ t = store' /\ d = conn[c]
  OBVIOUS
<1>2. StoreOK(s) /\ StoreOK(t) /\ DOMAIN t.item = DOMAIN s.item /\ Fine(d, s, reqs[c], seen[c])
  BY <1>1 DEF Clean, Goes
<1>3. Counted(d)
  BY <1>2, FineCounts
<1>4. \A j \in DOMAIN s.item : Mine(d, j) \in Nat /\ Net(s, j) \in Nat /\ lost[j] \in Nat
  <2>1. \A j \in DOMAIN s.item : Net(s, j) \in Nat
    BY <1>2, NetIs
  <2>2. \A j \in DOMAIN s.item : lost[j] \in Nat
    BY <1>2 DEF Counts, StoreOK
  <2>3. \A j \in DOMAIN s.item : Mine(d, j) \in Nat
    BY <1>3, HeldIs
  <2> QED BY <2>1, <2>2, <2>3
<1>5. ASSUME NEW j \in DOMAIN s.item PROVE Net(t, j) = Net(s, j) + (lost'[j] - lost[j]) + (Mine(e, j) - Mine(d, j))
  <2>1. PICK y \in Int : y = IF j = i THEN x ELSE 0
    OBVIOUS
  <2>2. Net(t, j) = Net(s, j) + y /\ Mine(e, j) = Mine(d, j) + y
    BY <1>1, <2>1 DEF Shift
  <2> QED BY <1>4, <2>2
<1>6. \A j \in DOMAIN s.item : Net(t, j) \in Int
  BY <1>2, NetIs
<1>7. Balance(store, store', lost, lost', conn[c], e)
  BY <1>1, <1>5, <1>6 DEF Balance
<1> QED BY <1>7, GoesMoves, StepOn DEF Counts

\* A connection that holds nothing before and nothing after.
LEMMA LooseStep ==
    ASSUME Clean, Counts, NEW c \in Conns, NEW e, Only(conn, conn', c, e), UNCHANGED <<seen, sock, reqs, script, lost>>,
           Goes(store, store', {}), Shift(store, store', None, 0), conn[c].state # "hung",
           Loose(conn[c], DOMAIN store.item), ~Collecting(conn[c]), \A j \in DOMAIN store.item : Mine(e, j) = 0,
           Fine(e, store', reqs[c], seen[c]), e.rbuf \in Seq(UnitsOf(reqs[c]))
    PROVE  Clean'
<1>1. StoreOK(store)
  BY DEF Clean
<1>2. \A j \in DOMAIN store.item : Mine(conn[c], j) = 0
  BY <1>1, LooseHolds
<1>3. \A j \in DOMAIN store.item : Mine(e, j) = Mine(conn[c], j) + (IF j = None THEN 0 ELSE 0)
  BY <1>2
<1> QED BY <1>3, ShiftStep

\* A connection that takes the only reference it has then.
LEMMA TakeStep ==
    ASSUME Clean, Counts, NEW c \in Conns, NEW e, Only(conn, conn', c, e), UNCHANGED <<seen, sock, reqs, script, lost>>,
           NEW i, Goes(store, store', {}), Shift(store, store', i, 1), conn[c].state # "hung",
           Loose(conn[c], DOMAIN store.item), ~Collecting(conn[c]),
           \A j \in DOMAIN store.item : Mine(e, j) = IF j = i THEN 1 ELSE 0,
           Fine(e, store', reqs[c], seen[c]), e.rbuf \in Seq(UnitsOf(reqs[c]))
    PROVE  Clean'
<1>1. StoreOK(store)
  BY DEF Clean
<1>2. \A j \in DOMAIN store.item : Mine(conn[c], j) = 0
  BY <1>1, LooseHolds
<1>3. \A j \in DOMAIN store.item : Mine(e, j) = Mine(conn[c], j) + (IF j = i THEN 1 ELSE 0)
  BY <1>2
<1> QED BY <1>3, ShiftStep

\* A connection that gives back the only reference it has.
LEMMA GiveStep ==
    ASSUME Clean, Counts, NEW c \in Conns, NEW e, Only(conn, conn', c, e), UNCHANGED <<seen, sock, reqs, script, lost>>,
           NEW i, Goes(store, store', {i}), Shift(store, store', i, -1), conn[c].state # "hung",
           \A j \in DOMAIN store.item : Mine(conn[c], j) = IF j = i THEN 1 ELSE 0,
           Bare(e, DOMAIN store.item), e.rbuf \in Seq(UnitsOf(reqs[c]))
    PROVE  Clean'
<1>1. StoreOK(store') /\ DOMAIN store'.item = DOMAIN store.item
  BY DEF Goes
<1>2. PICK t : t = store'
  OBVIOUS
<1>3. Fine(e, t, reqs[c], seen[c]) /\ \A j \in DOMAIN t.item : Mine(e, j) = 0
  BY <1>1, <1>2, BareIs
<1>4. \A j \in DOMAIN store.item : j \in {i} => Mine(conn[c], j) >= 1
  OBVIOUS
<1>5. \A j \in DOMAIN store.item : Mine(e, j) = Mine(conn[c], j) + (IF j = i THEN -1 ELSE 0)
  BY <1>1, <1>2, <1>3
<1> QED BY <1>2, <1>3, <1>4, <1>5, ShiftStep

\* A connection that keeps what it holds while the cache stays as it is.
LEMMA KeepStep ==
    ASSUME Clean, Counts, NEW c \in Conns, NEW e, Only(conn, conn', c, e),
           UNCHANGED <<store, seen, sock, reqs, script, lost>>, conn[c].state # "hung",
           \A j \in DOMAIN store.item : Mine(e, j) = Mine(conn[c], j),
           Fine(e, store, reqs[c], seen[c]), e.rbuf \in Seq(UnitsOf(reqs[c]))
    PROVE  Clean'
<1>1. StoreOK(store) /\ Fine(conn[c], store, reqs[c], seen[c])
  BY DEF Clean
<1>2. Goes(store, store, {}) /\ Shift(store, store, None, 0)
  BY <1>1, GoesNowhere
<1>3. \A j \in DOMAIN store.item : Mine(conn[c], j) \in Nat
  BY <1>1, FineCounts, HeldIs
<1>4. \A j \in DOMAIN store.item : Mine(e, j) = Mine(conn[c], j) + (IF j = None THEN 0 ELSE 0)
  BY <1>3
<1> QED BY <1>2, <1>4, ShiftStep

\* The same places with the same contents.
LEMMA SameHands ==
    ASSUME NEW d, NEW e, Places(e) = Places(d), \A n \in Places(d) : RefAt(e, n) = RefAt(d, n)
    PROVE  \A j : Mine(e, j) = Mine(d, j)
BY DEF Mine, Held

\* One reference, in c->item or about to be unlinked.
Hand(d, i) ==
    d.ileft = 0 /\ ~Collecting(d) /\ i # None /\ ((d.item = i /\ d.purge = None) \/ (d.purge = i /\ d.item = None))

LEMMA OneHeld ==
    ASSUME NEW d, NEW i, Hand(d, i)
    PROVE  \A j : j # None => Mine(d, j) = IF j = i THEN 1 ELSE 0
<1>1. Places(d) = -1 .. 0
  BY DEF Places, Hand
<1>2. RefAt(d, -1) = d.purge /\ RefAt(d, 0) = d.item
  BY DEF RefAt
<1>3. PICK n \in {-1, 0} : \A m \in {-1, 0} : IF m = n THEN RefAt(d, m) = i ELSE RefAt(d, m) = None
  BY <1>2 DEF Hand
<1>4. \A m : m \in Places(d) <=> m \in {-1, 0}
  BY <1>1
<1>5. \A j : j # None => Held(d, j) = IF j = i THEN {n} ELSE {}
  BY <1>3, <1>4 DEF Held, Hand
<1> QED BY <1>5, FS_EmptySet, FS_Singleton DEF Mine

-----------------------------------------------------------------------------
(* The commands of the text protocol that keep no reference.               *)

LEMMA SetIs ==
    ASSUME Clean, NEW c \in Conns, NEW e, Set(c, e)
    PROVE  Only(conn, conn', c, e)
BY OnlyIs DEF Clean, Set

LEMMA LineStep ==
    ASSUME Clean, Counts, NEW c \in Conns, AtLine(c), NEW e, Set(c, e), UNCHANGED <<seen, sock, reqs, script, lost>>,
           Goes(store, store', {}), Shift(store, store', None, 0),
           Bare(e, DOMAIN store.item), e.rbuf = Line(c).rbuf
    PROVE  Clean'
<1>1. Bare(conn[c], DOMAIN store.item) /\ conn[c].state # "hung" /\ e.rbuf \in Seq(UnitsOf(reqs[c]))
  BY LineIs
<1>2. Only(conn, conn', c, e)
  BY SetIs
<1> QED BY <1>1, <1>2, BareStep

LEMMA LineStays ==
    ASSUME Clean, Counts, NEW c \in Conns, AtLine(c), NEW e, Set(c, e), UNCHANGED <<store, seen, sock, reqs, script, lost>>,
           Bare(e, DOMAIN store.item), e.rbuf = Line(c).rbuf
    PROVE  Clean'
<1>1. Goes(store, store, {}) /\ Shift(store, store, None, 0)
  BY GoesNowhere DEF Clean
<1> QED BY <1>1, LineStep

\* An answer with out_string.
LEMMA AnswerStays ==
    ASSUME Clean, Counts, NEW c \in Conns, AtLine(c), NEW d, Loose(d, DOMAIN store.item), d.rbuf = Line(c).rbuf,
           NEW str, Set(c, out_string(d, str)), UNCHANGED <<store, seen, sock, reqs, script, lost>>
    PROVE  Clean'
<1>1. Bare(out_string(d, str), DOMAIN store.item) /\ out_string(d, str).rbuf = d.rbuf
  BY OutIs
<1> QED BY <1>1, LineStays

LEMMA AnswerStep ==
    ASSUME Clean, Counts, NEW c \in Conns, AtLine(c), NEW d, Loose(d, DOMAIN store.item), d.rbuf = Line(c).rbuf,
           NEW str, Set(c, out_string(d, str)), UNCHANGED <<seen, sock, reqs, script, lost>>,
           Goes(store, store', {}), Shift(store, store', None, 0)
    PROVE  Clean'
<1>1. Bare(out_string(d, str), DOMAIN store.item) /\ out_string(d, str).rbuf = d.rbuf
  BY OutIs
<1> QED BY <1>1, LineStep

LEMMA QuitClean == ASSUME Clean, Counts, NEW c \in Conns, Quit(c) PROVE Clean'
<1>1. PICK d, e : d = Line(c) /\ e = conn_set_state(d, "closing")
  OBVIOUS
<1>2. AtLine(c) /\ Set(c, e) /\ UNCHANGED <<store, seen, sock, reqs, script, lost>>
  BY <1>1 DEF Quit, Reply, net, client
<1>3. Loose(d, DOMAIN store.item) /\ ~d.noreply
  BY <1>1, <1>2, LineIs
<1>4. e = [d EXCEPT !.state = "closing"]
  BY <1>1 DEF conn_set_state
<1>5. /\ DOMAIN e = ConnFields /\ e.ilist = d.ilist /\ e.item = d.item /\ e.purge = d.purge /\ e.ileft = d.ileft /\ e.write_and_go = d.write_and_go /\ e.sbytes = d.sbytes /\ e.rlbytes = d.rlbytes
      /\ e.iov = d.iov /\ e.rbuf = d.rbuf /\ e.noreply = d.noreply /\ e.state = "closing"
  BY <1>3, <1>4 DEF ConnFields, Loose
<1>6. Bare(e, DOMAIN store.item) /\ e.rbuf = Line(c).rbuf
  BY <1>1, <1>3, <1>5 DEF Bare, Loose, Collecting
<1> QED BY <1>2, <1>6, LineStays

LEMMA PlainAnswerClean == ASSUME Clean, Counts, NEW c \in Conns, PlainAnswer(c) PROVE Clean'
<1>1. PICK str : str = Answered[Command(c)]
  OBVIOUS
<1>2. AtLine(c) /\ Set(c, out_string(Line(c), str)) /\ UNCHANGED <<store, seen, sock, reqs, script, lost>>
  BY <1>1 DEF PlainAnswer, Reply, net, client
<1>3. Loose(Line(c), DOMAIN store.item)
  BY <1>2, LineIs
<1> QED BY <1>2, <1>3, AnswerStays

LEMMA AskThreadClean == ASSUME Clean, Counts, NEW c \in Conns, AskThread(c) PROVE Clean'
<1>1. AtLine(c) /\ \E str : Set(c, out_string(Line(c), str)) /\ UNCHANGED <<store, seen, sock, reqs, script, lost>>
  BY DEF AskThread, Reply, net, client
<1>2. Loose(Line(c), DOMAIN store.item)
  BY <1>1, LineIs
<1> QED BY <1>1, <1>2, AnswerStays

LEMMA SettingCommandClean == ASSUME Clean, Counts, NEW c \in Conns, SettingCommand(c) PROVE Clean'
<1>1. PICK d : d \in {Line(c), set_noreply_maybe(c)} /\ \E str : Set(c, out_string(d, str))
  BY DEF SettingCommand
<1>2. AtLine(c) /\ UNCHANGED <<store, seen, sock, reqs, script, lost>>
  BY DEF SettingCommand, net, client
<1>3. Loose(d, DOMAIN store.item) /\ d.rbuf = Line(c).rbuf
  BY <1>1, <1>2, LineIs, NoreplyIs
<1> QED BY <1>1, <1>2, <1>3, AnswerStays

LEMMA HandoverClean == ASSUME Clean, Counts, NEW c \in Conns, Handover(c) PROVE Clean'
<1>1. AtLine(c) /\ UNCHANGED <<store, seen, sock, reqs, script, lost>>
  BY DEF Handover, Reply, net, client
<1>2. CASE Set(c, out_string(set_noreply_maybe(c), "BUSY"))
  <2>1. Loose(set_noreply_maybe(c), DOMAIN store.item) /\ set_noreply_maybe(c).rbuf = Line(c).rbuf
    BY <1>1, NoreplyIs
  <2> QED BY <1>1, <1>2, <2>1, AnswerStays
<1>3. CASE Set(c, [Line(c) EXCEPT !.cmd = Command(c), !.state = "watch", !.ev = "none"])
  <2>1. PICK d, e, m : d = Line(c) /\ m = Command(c) /\ e = [d EXCEPT !.cmd = m, !.state = "watch", !.ev = "none"]
    OBVIOUS
  <2>2. Loose(d, DOMAIN store.item) /\ ~d.noreply
    BY <1>1, <2>1, LineIs
  <2>3. /\ DOMAIN e = ConnFields /\ e.ilist = d.ilist /\ e.item = d.item /\ e.purge = d.purge /\ e.ileft = d.ileft /\ e.write_and_go = d.write_and_go /\ e.sbytes = d.sbytes /\ e.rlbytes = d.rlbytes
        /\ e.iov = d.iov /\ e.rbuf = d.rbuf /\ e.noreply = d.noreply /\ e.state = "watch"
    BY <2>1, <2>2 DEF ConnFields, Loose
  <2>4. Bare(e, DOMAIN store.item) /\ e.rbuf = Line(c).rbuf
    BY <2>1, <2>2, <2>3 DEF Bare, Loose, Collecting
  <2>5. Set(c, e)
    BY <1>3, <2>1
  <2> QED BY <1>1, <2>4, <2>5, LineStays
<1> QED BY <1>2, <1>3 DEF Handover, Reply

LEMMA FlushClean == ASSUME Clean, Counts, NEW c \in Conns, flush_all(c) PROVE Clean'
<1>1. AtLine(c) /\ UNCHANGED <<seen, sock, reqs, script, lost>> /\ \E str : Set(c, out_string(set_noreply_maybe(c), str))
  BY DEF flush_all, net, client
<1>2. Loose(set_noreply_maybe(c), DOMAIN store.item) /\ set_noreply_maybe(c).rbuf = Line(c).rbuf
  BY <1>1, NoreplyIs
<1>3. Request(c).exp \in Nat /\ StoreOK(store)
  BY <1>1, LineIs, MenusAssumption DEF Clean
<1>4. Goes(store, store', {}) /\ Shift(store, store', None, 0)
  <2>1. CASE store' = store
    BY <1>3, <2>1, GoesNowhere
  <2>2. CASE store' = Flush(store, Request(c).exp)
    BY <1>3, <2>2, FlushGoes
  <2> QED BY <2>1, <2>2 DEF flush_all
<1> QED BY <1>1, <1>2, <1>4, AnswerStep

LEMMA NoLineClean == ASSUME Clean, Counts, NEW c \in Conns, NoLine(c) PROVE Clean'
<1>1. PICK d, x, e : d = conn[c] /\ x \in {"closing", "waiting"} /\ e = [d EXCEPT !.proto = "ascii", !.state = x] /\ Set(c, e)
  BY DEF NoLine
<1>2. UNCHANGED <<store, seen, sock, reqs, script, lost>> /\ InState(c, "parse_cmd") /\ d.cmd = "none" /\ Protocol(c) = "ascii" /\ d.state = "parse_cmd"
  BY <1>1 DEF NoLine, Parsing, InState, net, client
<1>3. Bare(d, DOMAIN store.item) /\ d.proto # "binary"
  BY <1>1, <1>2, Parses DEF Protocol
<1>4. DOMAIN d = ConnFields /\ ~d.noreply
  BY <1>2, <1>3 DEF Bare, Loose
<1>5. /\ DOMAIN e = ConnFields /\ e.ilist = d.ilist /\ e.item = d.item /\ e.purge = d.purge /\ e.ileft = d.ileft /\ e.write_and_go = d.write_and_go /\ e.sbytes = d.sbytes /\ e.rlbytes = d.rlbytes
      /\ e.iov = d.iov /\ e.rbuf = d.rbuf /\ e.noreply = d.noreply /\ e.state = x /\ e.cmd = d.cmd
  BY <1>1, <1>4 DEF ConnFields
<1>6. Bare(e, DOMAIN store.item) /\ e.rbuf \in Seq(UnitsOf(reqs[c]))
  BY <1>1, <1>2, <1>3, <1>4, <1>5, BufferIs DEF Bare, Loose, Collecting
<1> QED BY <1>1, <1>2, <1>3, <1>6, SetIs, BareStays

LEMMA GetBeginClean == ASSUME Clean, Counts, NEW c \in Conns, GetBegin(c) PROVE Clean'
<1>1. PICK d, e, q : d = Line(c) /\ q = Request(c).keys /\ e = [d EXCEPT !.cmd = "get", !.todo = q, !.hits = 0]
  OBVIOUS
<1>2. AtLine(c) /\ Set(c, e) /\ UNCHANGED <<store, seen, sock, reqs, script, lost>>
  BY <1>1 DEF GetBegin, Reply, net, client
<1>3. /\ Bare(conn[c], DOMAIN store.item) /\ conn[c].state = "parse_cmd" /\ Request(c) \in Requests
      /\ Loose(d, DOMAIN store.item) /\ d.rbuf \in Seq(UnitsOf(reqs[c]))
      /\ ~d.noreply /\ d.state = "parse_cmd" /\ d.proto = "ascii"
  BY <1>1, <1>2, LineIs
<1>4. /\ DOMAIN e = ConnFields /\ e.ilist = d.ilist /\ e.item = d.item /\ e.purge = d.purge /\ e.ileft = d.ileft /\ e.write_and_go = d.write_and_go /\ e.sbytes = d.sbytes /\ e.rlbytes = d.rlbytes
      /\ e.iov = d.iov /\ e.rbuf = d.rbuf /\ e.noreply = d.noreply /\ e.state = d.state /\ e.proto = d.proto
      /\ e.cmd = "get" /\ e.todo = q /\ e.hits = 0
  BY <1>1, <1>3 DEF ConnFields, Loose
<1>5. q \in Seq(Keys \cup {LongKey})
  BY <1>1, <1>3, MenusAssumption
<1>6. StoreOK(store) /\ Len(e.ilist) \in Nat
  BY <1>3, <1>4 DEF Clean, Loose
<1>7. \A n \in DOMAIN e.iov : PieceOK(e.iov[n], e, store)
  BY <1>3, <1>4 DEF Loose, Plain, PieceOK
<1>8. Fine(e, store, reqs[c], seen[c])
  BY <1>3, <1>4, <1>5, <1>6, <1>7 DEF Fine, Loose, Plain
<1>9. \A j \in DOMAIN store.item : Mine(e, j) = 0 /\ Mine(conn[c], j) = 0
  <2>1. \A j \in DOMAIN store.item : Mine(conn[c], j) = 0
    BY <1>3, <1>6, LooseHolds DEF Bare
  <2>2. Collecting(e)
    BY <1>3, <1>4 DEF Collecting
  <2>3. Places(e) = -1 .. 0
    BY <1>4, <2>2 DEF Places
  <2>4. \A n \in Places(e) : RefAt(e, n) = None
    BY <1>3, <1>4, <2>3 DEF RefAt, Loose
  <2>5. \A j \in DOMAIN store.item : Held(e, j) = {}
    BY <1>6, <2>4, StoreAssumption DEF Held, StoreOK
  <2> QED BY <2>1, <2>5, FS_EmptySet DEF Mine
<1>10. \A j \in DOMAIN store.item : Mine(e, j) = Mine(conn[c], j)
  BY <1>9
<1> QED BY <1>2, <1>3, <1>4, <1>8, <1>10, SetIs, KeepStep

LEMMA StatClean == ASSUME Clean, Counts, NEW c \in Conns, process_stat(c), ooms' = 0 PROVE Clean'
<1>1. PICK d, e, str : d = Line(c) /\ Set(c, e) /\ (e = write_and_free(d, str) \/ e = out_string(d, str))
  <2>1. ~NoMemory
    BY DEF NoMemory, Counts
  <2>2. \E str : Set(c, write_and_free(Line(c), str)) \/ Set(c, out_string(Line(c), str))
    BY <2>1 DEF process_stat, Reply
  <2> QED BY <2>2
<1>2. AtLine(c) /\ UNCHANGED <<store, seen, sock, reqs, script, lost>>
  BY DEF process_stat, Reply, net, client
<1>3. Loose(d, DOMAIN store.item) /\ ~d.noreply
  BY <1>1, <1>2, LineIs
<1>4. CASE e = out_string(d, str)
  BY <1>1, <1>2, <1>3, <1>4, AnswerStays
<1>5. CASE e = write_and_free(d, str)
  <2>1. e = [d EXCEPT !.wbuf = str, !.state = "write", !.write_and_go = "new_cmd"]
    BY <1>5 DEF write_and_free
  <2>2. /\ DOMAIN e = ConnFields /\ e.ilist = d.ilist /\ e.item = d.item /\ e.purge = d.purge /\ e.ileft = d.ileft /\ e.write_and_go \in {"new_cmd", "swallow", "closing"} /\ {e.sbytes, e.rlbytes} \subseteq Nat
        /\ e.iov = d.iov /\ e.rbuf = d.rbuf /\ e.noreply = d.noreply /\ e.state = "write"
    BY <1>3, <2>1 DEF ConnFields, Loose
  <2>3. Bare(e, DOMAIN store.item) /\ e.rbuf = Line(c).rbuf
    BY <1>1, <1>3, <2>2 DEF Bare, Loose, Collecting
  <2> QED BY <1>1, <1>2, <2>3, LineStays
<1> QED BY <1>1, <1>4, <1>5

LEMMA FirstKey ==
    ASSUME NEW r \in Requests, r.keys[1] # LongKey
    PROVE  r.keys[1] \in Keys
<1>1. r.keys \in Seq(Keys \cup {LongKey}) /\ r.keys # <<>>
  BY MenusAssumption
<1>2. r.keys[1] \in Keys \cup {LongKey}
  BY <1>1
<1> QED BY <1>2

\* An item is looked up, and given back at once.
LEMMA GotReturned ==
    ASSUME NEW s, StoreOK(s), NEW k \in Keys, NEW g, Got(s, k, g), g.it # None
    PROVE  Goes(s, do_item_remove(g.s, g.it), {}) /\ Shift(s, do_item_remove(g.s, g.it), None, 0)
<1>1. PICK t, i : t = g.s /\ i = g.it
  OBVIOUS
<1>2. StoreOK(t) /\ i \in DOMAIN t.item /\ i \in DOMAIN s.item /\ Shift(s, t, i, 1)
  BY <1>1 DEF Got
<1>3. Net(s, i) \in Nat /\ Net(t, i) = Net(s, i) + 1
  BY <1>2, NetIs DEF Shift
<1>4. Net(t, i) >= 1
  BY <1>3
<1>5. Goes(t, do_item_remove(t, i), {i}) /\ Shift(t, do_item_remove(t, i), i, -1)
  BY <1>2, <1>4, RemoveGoes
<1> QED BY <1>1, <1>5, GivenBack

LEMMA TouchClean == ASSUME Clean, Counts, NEW c \in Conns, process_touch_command(c) PROVE Clean'
<1>1. PICK r, d, k, x, g : r = Request(c) /\ d = set_noreply_maybe(c) /\ k = r.keys[1] /\ x = realtime(store, r.exp) /\ g = item_touch(store, k, x)
  OBVIOUS
<1>2. AtLine(c) /\ UNCHANGED <<seen, sock, reqs, script, lost>> /\ \E str : Set(c, out_string(d, str))
  BY <1>1 DEF process_touch_command, Reply, net, client
<1>3. Loose(d, DOMAIN store.item) /\ d.rbuf = Line(c).rbuf /\ r \in Requests /\ StoreOK(store)
  BY <1>1, <1>2, NoreplyIs, LineIs DEF Clean
<1>4. CASE store' = store
  BY <1>2, <1>3, <1>4, AnswerStays
<1>5. CASE k # LongKey /\ store' = IF g.it = None THEN g.s ELSE do_item_remove(g.s, g.it)
  <2>1. k \in Keys
    BY <1>1, <1>3, <1>5, FirstKey
  <2>2. Got(store, k, g)
    BY <1>1, <1>3, <2>1, ItemTouchIs
  <2>3. Goes(store, store', {}) /\ Shift(store, store', None, 0)
    <3>1. CASE g.it = None
      BY <1>5, <2>2, <3>1 DEF Got
    <3>2. CASE g.it # None
      <4>1. store' = do_item_remove(g.s, g.it)
        BY <1>5, <3>2
      <4> QED BY <1>3, <2>1, <2>2, <3>2, <4>1, GotReturned
    <3> QED BY <3>1, <3>2
  <2> QED BY <1>2, <1>3, <2>3, AnswerStep
<1> QED BY <1>1, <1>4, <1>5 DEF process_touch_command, Reply

LEMMA LostIs ==
    ASSUME Counts, NEW S, lost' = Forget(S)
    PROVE  lost' \in [Items -> Nat] /\ \A j \in Items : lost'[j] = lost[j] + (IF j \in S THEN 1 ELSE 0)
BY DEF Counts, Forget

\* do_add_delta, by either protocol, for a connection that holds nothing.
LEMMA DeltaStep ==
    ASSUME Clean, Counts, NEW c \in Conns, NEW e, Only(conn, conn', c, e), UNCHANGED <<seen, sock, reqs, script>>,
           NEW k \in Keys, NEW incr, NEW delta, NEW cas, NEW a \in do_add_delta(store, k, incr, delta, cas),
           store' = a.s, lost' = Forget(Leaks(store, k)), conn[c].state # "hung",
           Loose(conn[c], DOMAIN store.item), ~Collecting(conn[c]), \A j \in DOMAIN store.item : Mine(e, j) = 0,
           Fine(e, store', reqs[c], seen[c]), e.rbuf \in Seq(UnitsOf(reqs[c]))
    PROVE  Clean'
<1>1. PICK s, t, d, L : s = store /\ t = store' /\ d = conn[c] /\ L = Leaks(s, k)
  OBVIOUS
<1>2. StoreOK(s) /\ Loose(d, DOMAIN s.item) /\ ~Collecting(d)
  BY <1>1 DEF Clean
<1>3. Goes(s, t, {}) /\ \A j \in DOMAIN s.item : Net(t, j) = Net(s, j) + (IF j \in L THEN 1 ELSE 0)
  BY <1>1, <1>2, DeltaIs
<1>4. \A j \in DOMAIN s.item : Mine(d, j) = 0 /\ Mine(e, j) = 0
  BY <1>1, <1>2, LooseHolds
<1>5. lost' \in [Items -> Nat] /\ \A j \in Items : lost'[j] = lost[j] + (IF j \in L THEN 1 ELSE 0)
  BY <1>1, LostIs
<1>6. \A j \in DOMAIN s.item : Net(s, j) \in Nat /\ lost[j] \in Nat /\ j \in Items
  <2>1. \A j \in DOMAIN s.item : Net(s, j) \in Nat
    BY <1>2, NetIs
  <2>2. DOMAIN s.item \subseteq Items
    BY <1>2 DEF StoreOK
  <2> QED BY <2>1, <2>2 DEF Counts
<1>7. Balance(store, store', lost, lost', conn[c], e)
  <2>1. ASSUME NEW j \in DOMAIN s.item PROVE Net(t, j) = Net(s, j) + (lost'[j] - lost[j]) + (Mine(e, j) - Mine(d, j))
    <3>1. PICK y \in {0, 1} : y = IF j \in L THEN 1 ELSE 0
      OBVIOUS
    <3>2. Net(t, j) = Net(s, j) + y /\ lost'[j] = lost[j] + y
      BY <1>3, <1>5, <1>6, <3>1
    <3> QED BY <1>4, <1>6, <3>2
  <2>2. \A j \in DOMAIN s.item : Net(t, j) \in Int
    BY <1>3, <1>6
  <2> QED BY <1>1, <2>1, <2>2 DEF Balance
<1>8. Moves(store, store', {})
  BY <1>1, <1>3, GoesMoves
<1> QED BY <1>5, <1>7, <1>8, StepOn

LEMMA ArithmeticClean == ASSUME Clean, Counts, NEW c \in Conns, process_arithmetic_command(c) PROVE Clean'
<1>1. PICK r, d, k : r = Request(c) /\ d = set_noreply_maybe(c) /\ k = r.keys[1]
  OBVIOUS
<1>2. AtLine(c)
  BY DEF process_arithmetic_command
<1>3. /\ Bare(conn[c], DOMAIN store.item) /\ conn[c].state = "parse_cmd" /\ Line(c).rbuf \in Seq(UnitsOf(reqs[c]))
      /\ Loose(d, DOMAIN store.item) /\ d.rbuf = Line(c).rbuf /\ r \in Requests /\ StoreOK(store)
  BY <1>1, <1>2, NoreplyIs, LineIs DEF Clean
<1>4. CASE Reply(c, out_string(d, "CLIENT_ERROR"))
  <2>1. Set(c, out_string(d, "CLIENT_ERROR")) /\ UNCHANGED <<store, seen, sock, reqs, script, lost>>
    BY <1>4 DEF Reply, net, client
  <2> QED BY <1>2, <1>3, <2>1, AnswerStays
<1>5. CASE /\ k # LongKey
           /\ \E a \in do_add_delta(store, k, r.op = "incr", r.delta, 0) : store' = a.s /\ Set(c, out_string(d, DeltaReply[a.ret]))
           /\ lost' = Forget(Leaks(store, k)) /\ UNCHANGED <<driven, net, client, faults, ooms, settings>>
  <2>1. k \in Keys
    BY <1>1, <1>3, <1>5, FirstKey
  <2>2. PICK a \in do_add_delta(store, k, r.op = "incr", r.delta, 0) : store' = a.s /\ Set(c, out_string(d, DeltaReply[a.ret]))
    BY <1>5
  <2>3. PICK e : e = out_string(d, DeltaReply[a.ret])
    OBVIOUS
  <2>4. Bare(e, DOMAIN store.item) /\ e.rbuf \in Seq(UnitsOf(reqs[c]))
    BY <1>3, <2>3, OutIs
  <2>5. Only(conn, conn', c, e)
    BY <2>2, <2>3, SetIs
  <2>6. StoreOK(store') /\ DOMAIN store'.item = DOMAIN store.item
    BY <1>3, <2>1, <2>2, DeltaIs DEF Goes
  <2>7. PICK t : t = store'
    OBVIOUS
  <2>8. Fine(e, t, reqs[c], seen[c]) /\ \A j \in DOMAIN t.item : Mine(e, j) = 0
    BY <2>4, <2>6, <2>7, BareIs
  <2>9. /\ Loose(conn[c], DOMAIN store.item) /\ ~Collecting(conn[c]) /\ conn[c].state # "hung"
        /\ UNCHANGED <<seen, sock, reqs, script>> /\ lost' = Forget(Leaks(store, k))
    BY <1>3, <1>5 DEF Bare, net, client
  <2>10. Fine(e, store', reqs[c], seen[c]) /\ \A j \in DOMAIN store.item : Mine(e, j) = 0
    BY <2>6, <2>7, <2>8
  <2> QED BY <2>1, <2>2, <2>4, <2>5, <2>9, <2>10, DeltaStep
<1> QED BY <1>1, <1>4, <1>5 DEF process_arithmetic_command

\* A command has looked up the item it will unlink.
Purged(d, i) == [d EXCEPT !.purge = i]

LEMMA PurgeIs ==
    ASSUME NEW s, StoreOK(s), NEW d, Loose(d, DOMAIN s.item), ~Collecting(d), NEW i \in DOMAIN s.item,
           NEW e, e = Purged(d, i), NEW rs, NEW sn,
           d.state = "nread" => Fine(d, s, rs, sn),
           d.cmd # "delete" => ~(d.noreply /\ d.proto # "binary"),
           d.state \in (IF d.cmd = "delete" THEN {"parse_cmd", "nread"} ELSE {"new_cmd", "write", "mwrite"})
    PROVE  /\ Fine(e, s, rs, sn) /\ e.rbuf = d.rbuf
           /\ \A j \in DOMAIN s.item : Mine(e, j) = IF j = i THEN 1 ELSE 0
<1>1. DOMAIN d = ConnFields
  BY DEF Loose
<1>2. /\ DOMAIN e = ConnFields /\ e.ilist = d.ilist /\ e.item = d.item /\ e.purge = i /\ e.ileft = d.ileft /\ e.write_and_go = d.write_and_go /\ e.sbytes = d.sbytes /\ e.rlbytes = d.rlbytes
      /\ e.iov = d.iov /\ e.rbuf = d.rbuf /\ e.noreply = d.noreply /\ e.state = d.state /\ e.cmd = d.cmd /\ e.proto = d.proto
      /\ e.substate = d.substate /\ e.req = d.req
  BY <1>1 DEF ConnFields, Purged
<1>3. ~Collecting(e)
  BY <1>2 DEF Collecting
<1>4. \A j \in DOMAIN s.item : j # None
  BY StoreAssumption DEF StoreOK
<1>5. \A j \in DOMAIN s.item : Mine(e, j) = IF j = i THEN 1 ELSE 0
  <2>1. Hand(e, i)
    BY <1>2, <1>3, <1>4 DEF Loose, Hand
  <2>2. \A j : j # None => Mine(e, j) = IF j = i THEN 1 ELSE 0
    BY <2>1, OneHeld
  <2> QED BY <1>4, <2>2
<1>6. \A n \in DOMAIN e.iov : PieceOK(e.iov[n], e, s)
  BY <1>2 DEF Loose, Plain, PieceOK
<1>7. Len(e.ilist) \in Nat
  BY <1>2 DEF Loose
<1>8. e.state = "nread" =>
         /\ e.proto \in {"ascii", "binary"} /\ (e.item # None <=> Filling(e))
         /\ e.proto = "binary" /\ e.substate # "flush_exptime" => e.req \in DOMAIN rs /\ rs[e.req].keys[1] \in Keys
  BY <1>2 DEF Fine, Filling
<1> QED BY <1>2, <1>3, <1>4, <1>5, <1>6, <1>7, <1>8 DEF Fine, Loose, Plain

LEMMA DeleteClean == ASSUME Clean, Counts, NEW c \in Conns, process_delete_command(c) PROVE Clean'
<1>1. PICK r, n, d, k, g : r = Request(c) /\ n = set_noreply_maybe(c) /\ d = [n EXCEPT !.cmd = "delete"] /\ k = r.keys[1] /\ g = do_item_get(store, k)
  OBVIOUS
<1>2. AtLine(c)
  BY DEF process_delete_command
<1>3. /\ Bare(conn[c], DOMAIN store.item) /\ conn[c].state = "parse_cmd" /\ Line(c).rbuf \in Seq(UnitsOf(reqs[c]))
      /\ Loose(n, DOMAIN store.item) /\ n.rbuf = Line(c).rbuf /\ n.state = "parse_cmd" /\ r \in Requests /\ StoreOK(store)
  BY <1>1, <1>2, NoreplyIs, LineIs DEF Clean
<1>4. /\ DOMAIN d = ConnFields /\ d.ilist = n.ilist /\ d.item = n.item /\ d.purge = n.purge /\ d.ileft = n.ileft /\ d.write_and_go = n.write_and_go /\ d.sbytes = n.sbytes /\ d.rlbytes = n.rlbytes
      /\ d.iov = n.iov /\ d.rbuf = n.rbuf /\ d.state = "parse_cmd" /\ d.cmd = "delete"
  BY <1>1, <1>3 DEF ConnFields, Loose
<1>5. Loose(d, DOMAIN store.item) /\ ~Collecting(d) /\ d.rbuf = Line(c).rbuf
  BY <1>3, <1>4 DEF Loose, Collecting
<1>6. CASE Reply(c, out_string(d, "CLIENT_ERROR"))
  <2>1. Set(c, out_string(d, "CLIENT_ERROR")) /\ UNCHANGED <<store, seen, sock, reqs, script, lost>>
    BY <1>6 DEF Reply, net, client
  <2> QED BY <1>2, <1>5, <2>1, AnswerStays
<1>7. CASE /\ k # LongKey /\ store' = g.s
           /\ Set(c, IF g.it = None THEN out_string(d, "NOT_FOUND") ELSE [d EXCEPT !.purge = g.it])
           /\ UNCHANGED <<driven, net, client, lost, faults, ooms, settings>>
  <2>1. UNCHANGED <<seen, sock, reqs, script, lost>>
    BY <1>7 DEF net, client
  <2>2. k \in Keys
    BY <1>1, <1>3, <1>7, FirstKey
  <2>3. Got(store, k, g)
    BY <1>1, <1>3, <2>2, GetIs
  <2>4. CASE g.it = None
    <3>1. Goes(store, store', {}) /\ Shift(store, store', None, 0) /\ Set(c, out_string(d, "NOT_FOUND"))
      BY <1>7, <2>3, <2>4 DEF Got
    <3> QED BY <1>2, <1>5, <2>1, <3>1, AnswerStep
  <2>5. CASE g.it # None
    <3>1. PICK t, i, e : t = store' /\ i = g.it /\ e = Purged(d, i)
      OBVIOUS
    <3>2. /\ Goes(store, store', {}) /\ Shift(store, store', i, 1) /\ Set(c, e) /\ i \in DOMAIN t.item
          /\ StoreOK(t) /\ DOMAIN t.item = DOMAIN store.item
      BY <1>7, <2>3, <2>5, <3>1 DEF Got, Purged
    <3>3. Loose(d, DOMAIN t.item)
      BY <1>5, <3>2
    <3>4. /\ Fine(e, t, reqs[c], seen[c]) /\ e.rbuf = d.rbuf
          /\ \A j \in DOMAIN t.item : Mine(e, j) = IF j = i THEN 1 ELSE 0
      BY <1>4, <1>5, <3>1, <3>2, <3>3, PurgeIs
    <3>5. \A j \in DOMAIN store.item : Mine(e, j) = IF j = i THEN 1 ELSE 0
      BY <3>2, <3>4
    <3>6. /\ Fine(e, store', reqs[c], seen[c]) /\ e.rbuf \in Seq(UnitsOf(reqs[c])) /\ conn[c].state # "hung"
          /\ Loose(conn[c], DOMAIN store.item) /\ ~Collecting(conn[c])
      BY <1>3, <1>5, <3>1, <3>4 DEF Bare
    <3>7. Only(conn, conn', c, e)
      BY <3>2, SetIs
    <3> QED BY <2>1, <3>2, <3>5, <3>6, <3>7, TakeStep
  <2> QED BY <2>4, <2>5
<1> QED BY <1>1, <1>6, <1>7 DEF process_delete_command

-----------------------------------------------------------------------------
(* The storage commands.                                                   *)

LEMMA OutKeeps ==
    ASSUME NEW D, NEW d, Loose(d, D), NEW str
    PROVE  out_string(d, str).cmd = d.cmd /\ out_string(d, str).proto = d.proto
<1>1. DOMAIN d = ConnFields
  BY DEF Loose
<1> QED BY <1>1 DEF out_string, ConnFields

LEMMA AllocGiven ==
    ASSUME StoreOK(store), NEW r, r.keys[1] \in Keys, NEW exp, NEW a \in Alloc(r, exp)
    PROVE  Given(store, r.keys[1], a)
<1>1. CASE r.big
  <2>1. a.s = store /\ a.it = None
    BY <1>1 DEF Alloc
  <2> QED BY <2>1 DEF Given
<1>2. CASE ~r.big
  <2>1. a \in do_item_alloc(store, r.keys[1], Len(r.val), exp)
    BY <1>2 DEF Alloc
  <2> QED BY <2>1, AllocIs
<1> QED BY <1>1, <1>2

\* The new item gets the cas id the client sent, if it sent one.
LEMMA CasPut ==
    ASSUME Clean, NEW c \in Conns, NEW k \in Keys, NEW a, Given(store, k, a), a.it # None, NEW r, NEW t,
           t = [a.s EXCEPT !.item[a.it].cas = CasOf(c, r)]
    PROVE  Fresh(store, k, t, a.it) /\ t.item[a.it].cas \in {0, seen[c].cas}
<1>1. PICK s, i, h, x : s = a.s /\ i = a.it /\ h = [a.s.item[a.it] EXCEPT !.cas = x] /\ x = CasOf(c, r)
  <2>1. \E x : x = CasOf(c, r)
    OBVIOUS
  <2> QED BY <2>1
<1>2. StoreOK(s) /\ i \in DOMAIN s.item /\ s.item[i].key = k /\ StoreOK(store)
  BY <1>1 DEF Given, Clean
<1>3. x \in Nat /\ x \in {0, seen[c].cas}
  <2>1. seen[c].cas \in 0 .. store.cas_id /\ store.cas_id \in Nat
    BY DEF Clean, Known, StoreOK
  <2> QED BY <1>1, <2>1 DEF CasOf
<1>4. ItemOK(s.item[i])
  BY <1>2 DEF StoreOK
<1>5. ItemOK(h) /\ h.ref = s.item[i].ref /\ h.key = k /\ h.cas = x
  BY <1>1, <1>2, <1>3, <1>4 DEF ItemOK, ItemFields
<1>6. t = Put(s, i, h)
  BY <1>1, <1>2 DEF Put, StoreOK, StoreFields
<1>7. Fresh(store, k, Put(s, i, h), i) /\ Put(s, i, h).item[i] = h
  <2>1. h.ref = a.s.item[a.it].ref
    BY <1>1, <1>5
  <2>2. Fresh(store, k, Put(a.s, a.it, h), a.it) /\ Put(a.s, a.it, h).item[a.it] = h
    BY <1>2, <1>5, <2>1, FreshPut
  <2> QED BY <1>1, <2>2
<1>8. t.item[i] = h
  BY <1>6, <1>7
<1> QED BY <1>1, <1>3, <1>5, <1>6, <1>7, <1>8

\* A connection that reads data into a new item.
LEMMA FillIs ==
    ASSUME NEW t, StoreOK(t), NEW i \in DOMAIN t.item, Lone(t, i), t.item[i].key \in Keys,
           NEW e, DOMAIN e = ConnFields, e.ilist \in Seq(DOMAIN t.item), e.item = i, e.purge = None, e.ileft = 0,
           e.write_and_go \in {"new_cmd", "swallow", "closing"} /\ {e.sbytes, e.rlbytes} \subseteq Nat,
           Plain(e.iov), e.state = "nread", e.proto \in {"ascii", "binary"}, Filling(e), NEW sn, NEW rs,
           e.cmd = "cas" => t.item[i].cas \in {0, sn.cas},
           e.proto = "binary" => e.req \in DOMAIN rs /\ rs[e.req].keys[1] \in Keys
    PROVE  Fine(e, t, rs, sn) /\ \A j \in DOMAIN t.item : Mine(e, j) = IF j = i THEN 1 ELSE 0
<1>1. \A j \in DOMAIN t.item : j # None
  BY StoreAssumption DEF StoreOK
<1>2. ~Collecting(e)
  BY DEF Collecting
<1>3. Hand(e, i)
  BY <1>1, <1>2 DEF Hand
<1>4. \A j \in DOMAIN t.item : Mine(e, j) = IF j = i THEN 1 ELSE 0
  BY <1>1, <1>3, OneHeld
<1>5. \A n \in DOMAIN e.iov : PieceOK(e.iov[n], e, t)
  BY DEF Plain, PieceOK
<1>6. Len(e.ilist) \in Nat
  OBVIOUS
<1> QED BY <1>1, <1>2, <1>4, <1>5, <1>6 DEF Fine, Plain, Filling

\* No memory for a set: the value that is left is unlinked by a step of its own.
LEMMA OldStep ==
    ASSUME Clean, Counts, NEW c \in Conns, NEW k \in Keys, NEW d, NEW e, NEW g, NEW b \in BOOLEAN,
           g = IF b THEN do_item_get(store, k) ELSE [s |-> store, it |-> None],
           UNCHANGED <<seen, sock, reqs, script, lost>>, store' = g.s, Set(c, e), e = Purged(d, g.it),
           conn[c].state # "hung", Loose(conn[c], DOMAIN store.item), ~Collecting(conn[c]),
           Bare(d, DOMAIN store.item), d.cmd # "delete", d.state \in {"new_cmd", "write", "mwrite"},
           d.rbuf \in Seq(UnitsOf(reqs[c]))
    PROVE  Clean'
<1>1. PICK t, i : t = store' /\ i = g.it
  OBVIOUS
<1>2. StoreOK(store) /\ Only(conn, conn', c, e) /\ Loose(d, DOMAIN store.item)
  BY SetIs DEF Clean, Bare
<1>3. CASE i = None
  <2>1. Goes(store, t, {}) /\ Shift(store, t, None, 0)
    <3>1. CASE b
      <4>1. Got(store, k, g)
        BY <1>2, <3>1, GetIs
      <4> QED BY <1>1, <1>3, <4>1 DEF Got
    <3>2. CASE ~b
      <4>1. t = store
        BY <1>1, <3>2
      <4> QED BY <1>2, <4>1, GoesNowhere
    <3> QED BY <3>1, <3>2
  <2>2. /\ DOMAIN e = ConnFields /\ e.ilist = d.ilist /\ e.item = d.item /\ e.purge = d.purge /\ e.ileft = d.ileft /\ e.write_and_go = d.write_and_go /\ e.sbytes = d.sbytes /\ e.rlbytes = d.rlbytes
        /\ e.iov = d.iov /\ e.rbuf = d.rbuf /\ e.noreply = d.noreply /\ e.state = d.state /\ e.cmd = d.cmd /\ e.proto = d.proto
    BY <1>1, <1>2, <1>3 DEF ConnFields, Loose, Purged
  <2>3. Bare(e, DOMAIN store.item)
    BY <2>2 DEF Bare, Loose, Collecting
  <2>4. StoreOK(t) /\ DOMAIN t.item = DOMAIN store.item
    BY <2>1 DEF Goes
  <2>5. Fine(e, t, reqs[c], seen[c]) /\ \A j \in DOMAIN t.item : Mine(e, j) = 0
    BY <2>3, <2>4, BareIs
  <2>6. Fine(e, store', reqs[c], seen[c]) /\ \A j \in DOMAIN store.item : Mine(e, j) = 0
    BY <1>1, <2>4, <2>5
  <2> QED BY <1>1, <1>2, <2>1, <2>2, <2>6, LooseStep
<1>4. CASE i # None
  <2>1. b /\ Got(store, k, g)
    BY <1>1, <1>2, <1>4, GetIs
  <2>2. /\ Goes(store, t, {}) /\ Shift(store, t, i, 1) /\ i \in DOMAIN t.item
        /\ StoreOK(t) /\ DOMAIN t.item = DOMAIN store.item
    BY <1>1, <1>4, <2>1 DEF Got
  <2>3. Loose(d, DOMAIN t.item) /\ ~Collecting(d) /\ d.state # "nread" /\ e = Purged(d, i) /\ ~(d.noreply /\ d.proto # "binary")
    BY <1>1, <1>2, <2>2 DEF Bare
  <2>4. d.state \in (IF d.cmd = "delete" THEN {"parse_cmd", "nread"} ELSE {"new_cmd", "write", "mwrite"})
    OBVIOUS
  <2>5. /\ Fine(e, t, reqs[c], seen[c]) /\ e.rbuf = d.rbuf
        /\ \A j \in DOMAIN t.item : Mine(e, j) = IF j = i THEN 1 ELSE 0
    BY <2>2, <2>3, <2>4, PurgeIs
  <2>6. \A j \in DOMAIN store.item : Mine(e, j) = IF j = i THEN 1 ELSE 0
    BY <2>2, <2>5
  <2>7. Goes(store, store', {}) /\ Shift(store, store', i, 1) /\ Fine(e, store', reqs[c], seen[c])
    BY <1>1, <2>2, <2>5
  <2> QED BY <1>2, <2>5, <2>6, <2>7, TakeStep
<1> QED BY <1>3, <1>4

LEMMA UpdateClean == ASSUME Clean, Counts, NEW c \in Conns, process_update_command(c) PROVE Clean'
<1>1. PICK r, d, k : r = Request(c) /\ d = set_noreply_maybe(c) /\ k = r.keys[1]
  OBVIOUS
<1>2. AtLine(c)
  BY DEF process_update_command
<1>3. /\ Bare(conn[c], DOMAIN store.item) /\ conn[c].state = "parse_cmd" /\ Line(c).rbuf \in Seq(UnitsOf(reqs[c]))
      /\ Loose(d, DOMAIN store.item) /\ d.rbuf = Line(c).rbuf /\ r \in Requests /\ StoreOK(store)
      /\ d.cmd = "none" /\ d.proto = "ascii" /\ DOMAIN d = ConnFields
  BY <1>1, <1>2, NoreplyIs, LineIs DEF Clean, Loose
<1>4. CASE Reply(c, out_string(d, "CLIENT_ERROR"))
  <2>1. Set(c, out_string(d, "CLIENT_ERROR")) /\ UNCHANGED <<store, seen, sock, reqs, script, lost>>
    BY <1>4 DEF Reply, net, client
  <2> QED BY <1>2, <1>3, <2>1, AnswerStays
<1>5. ASSUME k # LongKey, UNCHANGED <<driven, net, client, lost, faults, ooms, settings>>,
             NEW a \in Alloc(r, realtime(store, r.exp)), a.it # None,
             store' = [a.s EXCEPT !.item[a.it].cas = CasOf(c, r)],
             Set(c, [d EXCEPT !.item = a.it, !.rlbytes = r.parts, !.cmd = r.op, !.state = "nread"])
      PROVE  Clean'
  <2>1. k \in Keys
    BY <1>1, <1>3, <1>5, FirstKey
  <2>2. Given(store, k, a)
    BY <1>1, <1>3, <1>5, <2>1, AllocGiven
  <2>3. PICK t, i : t = store' /\ i = a.it
    OBVIOUS
  <2>4. Fresh(store, k, t, i) /\ t.item[i].cas \in {0, seen[c].cas}
    BY <1>5, <2>1, <2>2, <2>3, CasPut
  <2>5. PICK e, n, m : n = r.parts /\ m = r.op /\ e = [d EXCEPT !.item = i, !.rlbytes = n, !.cmd = m, !.state = "nread"]
    OBVIOUS
  <2>6. /\ DOMAIN e = ConnFields /\ e.ilist = d.ilist /\ e.item = i /\ e.purge = d.purge /\ e.ileft = d.ileft /\ e.write_and_go = d.write_and_go /\ e.sbytes = d.sbytes /\ e.rlbytes = n
        /\ e.iov = d.iov /\ e.rbuf = d.rbuf /\ e.state = "nread" /\ e.proto = d.proto
    BY <1>3, <2>5 DEF ConnFields
  <2>7. /\ StoreOK(t) /\ DOMAIN t.item = DOMAIN store.item /\ i \in DOMAIN t.item /\ Lone(t, i) /\ t.item[i].key \in Keys
        /\ Goes(store, t, {}) /\ Shift(store, t, i, 1)
    BY <2>1, <2>4 DEF Fresh
  <2>8. /\ e.ilist \in Seq(DOMAIN t.item) /\ e.item = i /\ e.purge = None /\ e.ileft = 0 /\ Plain(e.iov)
        /\ e.state = "nread" /\ e.proto \in {"ascii", "binary"} /\ Filling(e) /\ e.proto # "binary"
        /\ e.write_and_go \in {"new_cmd", "swallow", "closing"} /\ {e.sbytes, e.rlbytes} \subseteq Nat
    <3>1. n \in Nat
      BY <1>3, <2>5, MenusAssumption
    <3> QED BY <1>3, <2>6, <2>7, <3>1 DEF Loose, Filling
  <2>9. Fine(e, t, reqs[c], seen[c]) /\ \A j \in DOMAIN t.item : Mine(e, j) = IF j = i THEN 1 ELSE 0
    BY <2>4, <2>6, <2>7, <2>8, FillIs
  <2>10. Set(c, e)
    BY <1>5, <2>3, <2>5
  <2>11. Only(conn, conn', c, e) /\ UNCHANGED <<seen, sock, reqs, script, lost>>
    BY <1>5, <2>10, SetIs DEF net, client
  <2>12. /\ Loose(conn[c], DOMAIN store.item) /\ ~Collecting(conn[c]) /\ conn[c].state # "hung"
         /\ e.rbuf \in Seq(UnitsOf(reqs[c])) /\ Fine(e, store', reqs[c], seen[c])
         /\ Goes(store, store', {}) /\ Shift(store, store', i, 1)
         /\ \A j \in DOMAIN store.item : Mine(e, j) = IF j = i THEN 1 ELSE 0
    BY <1>3, <2>3, <2>6, <2>7, <2>9 DEF Bare
  <2> QED BY <2>11, <2>12, TakeStep
<1>6. ASSUME k # LongKey, UNCHANGED <<driven, net, client, lost, faults, ooms, settings>>,
             NEW a \in Alloc(r, realtime(store, r.exp)), a.it = None,
             NEW g, g = (IF r.op = "set" THEN do_item_get(a.s, k) ELSE [s |-> a.s, it |-> None]), store' = g.s,
             Set(c, [out_of_memory(d, "SERVER_ERROR") EXCEPT !.write_and_go = "swallow", !.sbytes = r.parts, !.purge = g.it])
      PROVE  Clean'
  <2>1. k \in Keys
    BY <1>1, <1>3, <1>6, FirstKey
  <2>2. a.s = store
    <3>1. Given(store, k, a)
      BY <1>1, <1>3, <1>6, <2>1, AllocGiven
    <3> QED BY <1>6, <3>1 DEF Given
  <2>3. PICK o, n, f, e : /\ o = out_string(d, "SERVER_ERROR") /\ n = r.parts
                          /\ f = [o EXCEPT !.write_and_go = "swallow", !.sbytes = n]
                          /\ e = [o EXCEPT !.write_and_go = "swallow", !.sbytes = n, !.purge = g.it]
    OBVIOUS
  <2>4. /\ Bare(o, DOMAIN store.item) /\ o.rbuf = d.rbuf /\ o.state \in {"new_cmd", "write"} /\ o.cmd = "none"
        /\ DOMAIN o = ConnFields
    <3>1. Loose(d, DOMAIN store.item) /\ d.cmd = "none"
      BY <1>3
    <3>2. Bare(o, DOMAIN store.item) /\ o.rbuf = d.rbuf /\ o.state \in {"new_cmd", "write"} /\ ~o.noreply
      BY <2>3, <3>1, OutIs
    <3>3. o.cmd = d.cmd /\ o.proto = d.proto
      BY <2>3, <3>1, OutKeeps
    <3> QED BY <3>1, <3>2, <3>3 DEF Bare, Loose
  <2>5. /\ DOMAIN f = ConnFields /\ f.ilist = o.ilist /\ f.item = o.item /\ f.purge = o.purge /\ f.ileft = o.ileft /\ f.write_and_go = "swallow" /\ f.sbytes = n /\ f.rlbytes = o.rlbytes
        /\ f.iov = o.iov /\ f.rbuf = o.rbuf /\ f.noreply = o.noreply /\ f.state = o.state /\ f.cmd = o.cmd /\ f.proto = o.proto
    BY <2>3, <2>4 DEF ConnFields
  <2>6. /\ Bare(f, DOMAIN store.item) /\ f.cmd # "delete" /\ f.state \in {"new_cmd", "write", "mwrite"}
        /\ f.rbuf \in Seq(UnitsOf(reqs[c]))
    <3>1. n \in Nat
      BY <1>3, <2>3, MenusAssumption
    <3> QED BY <1>3, <2>4, <2>5, <3>1 DEF Bare, Loose, Collecting
  <2>7. e = Purged(f, g.it)
    BY <2>3, <2>4 DEF ConnFields, Purged
  <2>8. out_of_memory(d, "SERVER_ERROR") = o
    BY <1>3, <2>3 DEF out_of_memory
  <2>9. Set(c, e)
    BY <1>6, <2>3, <2>8
  <2>10. PICK b \in BOOLEAN : b = (r.op = "set")
    OBVIOUS
  <2>11. g = IF b THEN do_item_get(store, k) ELSE [s |-> store, it |-> None]
    BY <1>6, <2>2, <2>10
  <2>12. /\ conn[c].state # "hung" /\ Loose(conn[c], DOMAIN store.item) /\ ~Collecting(conn[c])
         /\ UNCHANGED <<seen, sock, reqs, script, lost>> /\ store' = g.s
    BY <1>3, <1>6 DEF Bare, net, client
  <2> QED BY <2>1, <2>6, <2>7, <2>9, <2>11, <2>12, OldStep
<1> QED BY <1>1, <1>4, <1>5, <1>6 DEF process_update_command

\* A connection that has read the data of an item.
LEMMA FilledIs ==
    ASSUME Clean, NEW c \in Conns, conn[c].state = "nread", conn[c].item # None
    PROVE  /\ conn[c].item \in DOMAIN store.item /\ Hand(conn[c], conn[c].item)
           /\ Lone(store, conn[c].item) /\ store.item[conn[c].item].key \in Keys
           /\ \A j \in DOMAIN store.item : Mine(conn[c], j) = IF j = conn[c].item THEN 1 ELSE 0
           /\ Plain(conn[c].iov) /\ DOMAIN conn[c] = ConnFields /\ conn[c].ilist \in Seq(DOMAIN store.item)
           /\ conn[c].ileft = 0 /\ conn[c].purge = None /\ ~Collecting(conn[c]) /\ conn[c].write_and_go \in {"new_cmd", "swallow", "closing"} /\ {conn[c].sbytes, conn[c].rlbytes} \subseteq Nat
           /\ StoreOK(store)
<1>1. Fine(conn[c], store, reqs[c], seen[c]) /\ StoreOK(store)
  BY DEF Clean
<1>2. /\ conn[c].item \in DOMAIN store.item /\ Lone(store, conn[c].item) /\ store.item[conn[c].item].key \in Keys
      /\ conn[c].purge = None /\ ~Collecting(conn[c]) /\ DOMAIN conn[c] = ConnFields
      /\ conn[c].ilist \in Seq(DOMAIN store.item) /\ conn[c].ileft \in Nat /\ ~(conn[c].ileft > 0)
      /\ conn[c].write_and_go \in {"new_cmd", "swallow", "closing"} /\ {conn[c].sbytes, conn[c].rlbytes} \subseteq Nat
  BY <1>1 DEF Fine, Collecting
<1>3. conn[c].ileft = 0
  BY <1>2
<1>4. Hand(conn[c], conn[c].item)
  BY <1>2, <1>3 DEF Hand
<1>5. \A j \in DOMAIN store.item : Mine(conn[c], j) = IF j = conn[c].item THEN 1 ELSE 0
  <2>1. \A j : j # None => Mine(conn[c], j) = IF j = conn[c].item THEN 1 ELSE 0
    BY <1>4, OneHeld
  <2>2. \A j \in DOMAIN store.item : j # None
    BY <1>1, StoreAssumption DEF StoreOK
  <2> QED BY <2>1, <2>2
<1>6. Plain(conn[c].iov)
  BY <1>1, <1>2 DEF Fine, PieceOK, Plain
<1> QED BY <1>1, <1>2, <1>3, <1>4, <1>5, <1>6

\* The item has been stored, or not: the connection gives it back.
LEMMA StoredStep ==
    ASSUME Clean, Counts, NEW c \in Conns, conn[c].state = "nread", conn[c].item # None,
           NEW comm, NEW r \in do_store_item(store, conn[c].item, comm), r.ret # "HANG",
           store' = do_item_remove(r.s, conn[c].item), NEW e, Set(c, e), UNCHANGED <<seen, sock, reqs, script, lost>>,
           Bare(e, DOMAIN store.item), e.rbuf \in Seq(UnitsOf(reqs[c]))
    PROVE  Clean'
<1>1. PICK i : i = conn[c].item
  OBVIOUS
<1>2. /\ i \in DOMAIN store.item /\ Lone(store, i) /\ store.item[i].key \in Keys
      /\ \A j \in DOMAIN store.item : Mine(conn[c], j) = IF j = i THEN 1 ELSE 0
      /\ StoreOK(store)
  BY <1>1, FilledIs
<1>3. r \in do_store_item(store, i, comm)
  BY <1>1
<1>4. Kept(store, i, r)
  BY <1>2, <1>3, StoreItemIs
<1>5. PICK u : u = r.s
  OBVIOUS
<1>6. Goes(store, u, {i}) /\ Shift(store, u, None, 0)
  BY <1>4, <1>5 DEF Kept
<1>7. StoreOK(u) /\ DOMAIN u.item = DOMAIN store.item
  BY <1>6 DEF Goes
<1>8. \A j \in DOMAIN store.item : Net(store, j) \in Nat /\ Net(u, j) = Net(store, j)
  BY <1>2, <1>6, NetIs DEF Shift
<1>9. Net(u, i) >= 1
  BY <1>2, <1>8 DEF Lone
<1>10. PICK t : t = do_item_remove(u, i)
  OBVIOUS
<1>11. Goes(u, t, {i}) /\ Shift(u, t, i, -1)
  BY <1>2, <1>7, <1>9, <1>10, RemoveGoes
<1>12. \A j \in DOMAIN store.item : Net(u, j) = 0 => Net(store, j) = 0 \/ Net(t, j) = 0
  BY <1>8
<1>13. Goes(store, t, {i} \cup {i})
  BY <1>2, <1>6, <1>11, <1>12, GoesOn
<1>14. Goes(store, store', {i})
  <2>1. {i} \cup {i} = {i}
    OBVIOUS
  <2> QED BY <1>1, <1>5, <1>10, <1>13, <2>1
<1>15. Shift(store, t, i, -1)
  BY <1>7, <1>8, <1>11 DEF Shift
<1>16. Shift(store, store', i, -1) /\ conn[c].state # "hung" /\ Only(conn, conn', c, e)
  BY <1>1, <1>5, <1>10, <1>15, SetIs
<1> QED BY <1>2, <1>14, <1>16, GiveStep

\* The worker waits for itself.
LEMMA HungStep ==
    ASSUME Clean, Counts, NEW c \in Conns, conn[c].state = "nread", conn[c].item # None,
           NEW comm, NEW r \in do_store_item(store, conn[c].item, comm), r.ret = "HANG",
           store' = r.s, Set(c, Hung(conn[c])), UNCHANGED <<seen, sock, reqs, script, lost>>
    PROVE  Clean'
<1>1. PICK i : i = conn[c].item
  OBVIOUS
<1>2. PICK e : e = Hung(conn[c])
  OBVIOUS
<1>3. /\ i \in DOMAIN store.item /\ Lone(store, i) /\ store.item[i].key \in Keys
      /\ \A j \in DOMAIN store.item : Mine(conn[c], j) = IF j = i THEN 1 ELSE 0
      /\ Plain(conn[c].iov) /\ DOMAIN conn[c] = ConnFields /\ conn[c].ilist \in Seq(DOMAIN store.item)
      /\ conn[c].ileft = 0 /\ conn[c].purge = None /\ ~Collecting(conn[c]) /\ conn[c].write_and_go \in {"new_cmd", "swallow", "closing"} /\ {conn[c].sbytes, conn[c].rlbytes} \subseteq Nat
      /\ StoreOK(store) /\ i # None
  BY <1>1, FilledIs
<1>4. r \in do_store_item(store, i, comm)
  BY <1>1
<1>5. Kept(store, i, r)
  BY <1>3, <1>4, StoreItemIs
<1>6. Goes(store, store', {i}) /\ \A j \in DOMAIN store.item : Net(store', j) >= Net(store, j)
  BY <1>5 DEF Kept
<1>7. StoreOK(store') /\ DOMAIN store'.item = DOMAIN store.item
  BY <1>6 DEF Goes
<1>8. /\ DOMAIN e = ConnFields /\ e.ilist = conn[c].ilist /\ e.item = i /\ e.purge = None /\ e.ileft = 0
      /\ e.iov = conn[c].iov /\ e.state = "hung" /\ e.rbuf = conn[c].rbuf /\ e.write_and_go = conn[c].write_and_go /\ e.sbytes = conn[c].sbytes /\ e.rlbytes = conn[c].rlbytes
  BY <1>1, <1>2, <1>3 DEF Hung, ConnFields
<1>9. ~Collecting(e)
  BY <1>8 DEF Collecting
<1>10. Hand(e, i)
  BY <1>3, <1>8, <1>9 DEF Hand
<1>11. \A j \in DOMAIN store.item : Mine(e, j) = IF j = i THEN 1 ELSE 0
  <2>1. \A j : j # None => Mine(e, j) = IF j = i THEN 1 ELSE 0
    BY <1>10, OneHeld
  <2>2. \A j \in DOMAIN store.item : j # None
    BY <1>3, StoreAssumption DEF StoreOK
  <2> QED BY <2>1, <2>2
<1>12. Fine(e, store', reqs[c], seen[c])
  <2>1. /\ e.ileft \in 0 .. Len(e.ilist) /\ e.ilist \in Seq(DOMAIN store'.item)
        /\ e.item \in DOMAIN store'.item \cup {None}
    BY <1>3, <1>7, <1>8
  <2>2. IsSeq(e.iov) /\ \A n \in DOMAIN e.iov : PieceOK(e.iov[n], e, store')
    BY <1>3, <1>8 DEF Plain, PieceOK
  <2> QED BY <1>3, <1>8, <1>9, <2>1, <2>2 DEF Fine
<1>13. Only(conn, conn', c, e)
  BY <1>2, SetIs
<1>14. Balance(store, store', lost, lost', conn[c], e)
  <2>1. lost' = lost /\ \A j \in DOMAIN store.item : Net(store, j) \in Nat /\ Net(store', j) \in Nat /\ lost[j] \in Nat
    <3>1. \A j \in DOMAIN store.item : Net(store, j) \in Nat /\ Net(store', j) \in Nat
      BY <1>3, <1>7, NetIs
    <3>2. DOMAIN store.item \subseteq Items
      BY <1>3 DEF StoreOK
    <3>3. lost' = lost /\ lost \in [Items -> Nat]
      BY DEF Counts
    <3> QED BY <3>1, <3>2, <3>3
  <2>2. \A j \in DOMAIN store.item : Mine(e, j) = Mine(conn[c], j) /\ Mine(e, j) \in Nat
    BY <1>3, <1>11
  <2> QED BY <1>6, <1>8, <2>1, <2>2 DEF Balance
<1>15. Moves(store, store', {i}) /\ \A j \in DOMAIN store.item : j \in {i} => Mine(conn[c], j) >= 1
  BY <1>3, <1>6, GoesMoves
<1>16. e.rbuf \in Seq(UnitsOf(reqs[c])) /\ lost' \in [Items -> Nat]
  BY <1>8, BufferIs DEF Counts
<1> QED BY <1>12, <1>13, <1>14, <1>15, <1>16, StepOn

LEMMA CompleteClean == ASSUME Clean, Counts, NEW c \in Conns, complete_nread_ascii(c) PROVE Clean'
<1>1. PICK d : d = conn[c]
  OBVIOUS
<1>2. /\ d.state = "nread" /\ d.proto = "ascii"
      /\ UNCHANGED <<driven, seen, sock, reqs, script, lost>>
  BY <1>1 DEF complete_nread_ascii, InState, net, client
<1>3. Fine(d, store, reqs[c], seen[c])
  BY <1>1 DEF Clean
<1>4. d.item # None
  BY <1>2, <1>3 DEF Fine, Filling
<1>5. PICK i : i = d.item
  OBVIOUS
<1>6. /\ i \in DOMAIN store.item /\ Lone(store, i)
      /\ \A j \in DOMAIN store.item : Mine(conn[c], j) = IF j = i THEN 1 ELSE 0
      /\ Plain(d.iov) /\ DOMAIN d = ConnFields /\ d.ilist \in Seq(DOMAIN store.item)
      /\ d.ileft = 0 /\ d.purge = None /\ StoreOK(store) /\ d.write_and_go \in {"new_cmd", "swallow", "closing"} /\ {d.sbytes, d.rlbytes} \subseteq Nat
  BY <1>1, <1>2, <1>4, <1>5, FilledIs
<1>7. \A what : LET e == [out_string(d, what) EXCEPT !.item = None]
                IN  Bare(e, DOMAIN store.item) /\ e.rbuf \in Seq(UnitsOf(reqs[c]))
  <2> SUFFICES ASSUME NEW what, NEW e, e = [out_string(d, what) EXCEPT !.item = None]
               PROVE  Bare(e, DOMAIN store.item) /\ e.rbuf \in Seq(UnitsOf(reqs[c]))
    OBVIOUS
  <2>1. /\ DOMAIN e = ConnFields /\ e.ilist = d.ilist /\ e.item = None /\ e.purge = None /\ e.ileft = 0 /\ e.rbuf = d.rbuf
        /\ e.state \in {"new_cmd", "write"} /\ ~e.noreply /\ (e.iov = d.iov \/ e.iov = <<>>) /\ e.write_and_go \in {"new_cmd", "swallow", "closing"} /\ {e.sbytes, e.rlbytes} \subseteq Nat
    BY <1>6 DEF out_string, ConnFields
  <2>2. Plain(e.iov)
    BY <1>6, <2>1, PlainIs
  <2> QED BY <1>1, <1>6, <2>1, <2>2, BufferIs DEF Bare, Loose, Collecting
<1>8. CASE ~d.crlf
  <2>1. PICK e : e = [out_string(d, "CLIENT_ERROR") EXCEPT !.item = None]
    OBVIOUS
  <2>2. store' = do_item_remove(store, i) /\ Set(c, e)
    BY <1>1, <1>5, <1>8, <2>1 DEF complete_nread_ascii
  <2>3. Bare(e, DOMAIN store.item) /\ e.rbuf \in Seq(UnitsOf(reqs[c]))
    BY <1>7, <2>1
  <2>4. Net(store, i) >= 1
    BY <1>6 DEF Lone
  <2>5. Goes(store, store', {i}) /\ Shift(store, store', i, -1)
    BY <1>6, <2>2, <2>4, RemoveGoes
  <2>6. conn[c].state # "hung" /\ Only(conn, conn', c, e)
    BY <1>1, <1>2, <2>2, SetIs
  <2> QED BY <1>2, <1>6, <2>3, <2>5, <2>6, GiveStep
<1>9. CASE d.crlf
  <2>1. PICK r \in do_store_item(store, d.item, d.cmd) :
           IF r.ret = "HANG" THEN store' = r.s /\ Set(c, Hung(d))
           ELSE /\ store' = do_item_remove(r.s, d.item)
                /\ Set(c, [out_string(d, r.ret) EXCEPT !.item = None])
    BY <1>1, <1>9 DEF complete_nread_ascii
  <2>2. CASE r.ret = "HANG"
    BY <1>1, <1>2, <1>4, <2>1, <2>2, HungStep
  <2>3. CASE r.ret # "HANG"
    <3>1. PICK e : e = [out_string(d, r.ret) EXCEPT !.item = None]
      OBVIOUS
    <3>2. Bare(e, DOMAIN store.item) /\ e.rbuf \in Seq(UnitsOf(reqs[c]))
      BY <1>7, <3>1
    <3>3. Set(c, e) /\ store' = do_item_remove(r.s, conn[c].item) /\ r \in do_store_item(store, conn[c].item, d.cmd)
      BY <1>1, <2>1, <2>3, <3>1
    <3> QED BY <1>1, <1>2, <1>4, <2>3, <3>2, <3>3, StoredStep
  <2> QED BY <2>2, <2>3
<1> QED BY <1>8, <1>9

\* What a connection holds is counted.
LEMMA MineNet ==
    ASSUME Clean, Counts, NEW c \in Conns, NEW j \in DOMAIN store.item
    PROVE  Mine(conn[c], j) \in Nat /\ Net(store, j) \in Nat /\ Net(store, j) >= Mine(conn[c], j)
<1>1. \A d \in Conns : Counted(conn[d])
  BY FineCounts DEF Clean
<1>2. /\ Cardinality(Others(conn, c, j)) \in Nat /\ Cardinality(Holders(conn, j)) \in Nat
      /\ Cardinality(Holders(conn, j)) = Cardinality(Others(conn, c, j)) + Mine(conn[c], j)
  BY <1>1, HoldersAre
<1>3. Mine(conn[c], j) \in Nat
  BY <1>1, HeldIs
<1>4. Net(store, j) >= lost[j] + Cardinality(References(j)) /\ References(j) = Holders(conn, j)
  BY RefsAre DEF Clean, Exact
<1>5. Net(store, j) \in Nat /\ lost[j] \in Nat
  <2>1. StoreOK(store)
    BY DEF Clean
  <2> QED BY <2>1, NetIs DEF Counts, StoreOK
<1> QED BY <1>2, <1>3, <1>4, <1>5

LEMMA ItemUnlinkClean == ASSUME Clean, Counts, NEW c \in Conns, ItemUnlink(c) PROVE Clean'
<1>1. PICK i, d : i = conn[c].purge /\ d = [conn[c] EXCEPT !.purge = None]
  OBVIOUS
<1>2. PICK u : u = do_item_unlink(store, i)
  OBVIOUS
<1>3. PICK e : e = IF d.cmd # "delete" THEN d
                   ELSE IF d.proto = "binary" THEN write_bin_response(d, "OK") ELSE out_string(d, "DELETED")
  OBVIOUS
<1>4. /\ i # None /\ store' = do_item_remove(u, i) /\ Set(c, e)
      /\ UNCHANGED <<driven, seen, sock, reqs, script, lost>>
  BY <1>1, <1>2, <1>3 DEF ItemUnlink, net, client
<1>5. Fine(conn[c], store, reqs[c], seen[c]) /\ StoreOK(store)
  BY DEF Clean
<1>6. /\ i \in DOMAIN store.item /\ conn[c].item = None /\ conn[c].ileft = 0 /\ ~Collecting(conn[c])
      /\ DOMAIN conn[c] = ConnFields /\ conn[c].ilist \in Seq(DOMAIN store.item)
      /\ conn[c].state \in (IF conn[c].cmd = "delete" THEN {"parse_cmd", "nread"} ELSE {"new_cmd", "write", "mwrite"})
      /\ conn[c].noreply /\ conn[c].proto # "binary" => conn[c].cmd = "delete"
  BY <1>1, <1>4, <1>5 DEF Fine
<1>7. Hand(conn[c], i)
  BY <1>1, <1>4, <1>6 DEF Hand
<1>8. \A j \in DOMAIN store.item : Mine(conn[c], j) = IF j = i THEN 1 ELSE 0
  <2>1. \A j : j # None => Mine(conn[c], j) = IF j = i THEN 1 ELSE 0
    BY <1>7, OneHeld
  <2>2. \A j \in DOMAIN store.item : j # None
    BY <1>5, StoreAssumption DEF StoreOK
  <2> QED BY <2>1, <2>2
<1>9. Goes(store, u, {}) /\ Shift(store, u, i, 0)
  BY <1>2, <1>5, <1>6, UnlinkGoes
<1>10. StoreOK(u) /\ DOMAIN u.item = DOMAIN store.item
  BY <1>9 DEF Goes
<1>11. \A j \in DOMAIN store.item : Net(store, j) \in Nat /\ Net(u, j) = Net(store, j)
  <2>1. \A j \in DOMAIN store.item : Net(store, j) \in Nat
    BY <1>5, NetIs
  <2> QED BY <1>9, <2>1 DEF Shift
<1>12. Net(u, i) >= 1
  BY <1>6, <1>8, <1>11, MineNet
<1>13. Goes(u, store', {i}) /\ Shift(u, store', i, -1)
  BY <1>4, <1>6, <1>10, <1>12, RemoveGoes
<1>14. PICK t : t = store'
  OBVIOUS
<1>15. \A j \in DOMAIN store.item : Net(u, j) = 0 => Net(store, j) = 0 \/ Net(t, j) = 0
  BY <1>11
<1>16. Goes(store, t, {} \cup {i})
  BY <1>5, <1>9, <1>13, <1>14, <1>15, GoesOn
<1>17. Goes(store, store', {i})
  <2>1. {} \cup {i} = {i}
    OBVIOUS
  <2> QED BY <1>14, <1>16, <2>1
<1>18. Shift(store, store', i, -1)
  BY <1>10, <1>11, <1>13 DEF Shift
<1>19. Plain(conn[c].iov)
  <2>1. \A n \in DOMAIN conn[c].iov : conn[c].iov[n].it = None
    <3> SUFFICES ASSUME NEW n \in DOMAIN conn[c].iov, conn[c].iov[n].it # None PROVE FALSE
      OBVIOUS
    <3>1. PieceOK(conn[c].iov[n], conn[c], store) /\ conn[c].state \notin {"closing", "closed"}
      BY <1>5, <1>6 DEF Fine
    <3>2. PICK m \in Places(conn[c]) \ {-1} : RefAt(conn[c], m) = conn[c].iov[n].it
      BY <3>1 DEF PieceOK
    <3>3. m = 0
      BY <1>6, <3>2 DEF Places
    <3> QED BY <1>6, <3>2, <3>3 DEF RefAt
  <2> QED BY <1>5, <2>1 DEF Fine, Plain
<1>20. /\ DOMAIN d = ConnFields /\ d.ilist = conn[c].ilist /\ d.item = None /\ d.purge = None /\ d.ileft = 0
       /\ d.iov = conn[c].iov /\ d.rbuf = conn[c].rbuf /\ d.state = conn[c].state /\ d.cmd = conn[c].cmd
       /\ d.noreply = conn[c].noreply /\ d.proto = conn[c].proto /\ d.write_and_go \in {"new_cmd", "swallow", "closing"} /\ {d.sbytes, d.rlbytes} \subseteq Nat
  BY <1>1, <1>5, <1>6 DEF ConnFields, Fine
<1>21. Loose(d, DOMAIN store.item)
  BY <1>6, <1>19, <1>20 DEF Loose
<1>22. Bare(e, DOMAIN store.item) /\ e.rbuf = d.rbuf
  <2>1. CASE d.cmd # "delete"
    <3>1. e = d /\ d.state \notin {"nread", "parse_cmd", "waiting", "read"} /\ ~(d.noreply /\ d.proto # "binary")
      BY <1>3, <1>6, <1>20, <2>1
    <3> QED BY <1>21, <3>1 DEF Bare, Collecting
  <2>2. CASE d.cmd = "delete" /\ d.proto = "binary"
    <3>1. e = write_bin_response(d, "OK")
      BY <1>3, <2>2
    <3> QED BY <1>21, <2>2, <3>1, BinResponseIs
  <2>3. CASE d.cmd = "delete" /\ d.proto # "binary"
    <3>1. e = out_string(d, "DELETED")
      BY <1>3, <2>3
    <3> QED BY <1>21, <3>1, OutIs
  <2> QED BY <2>1, <2>2, <2>3
<1>23. e.rbuf \in Seq(UnitsOf(reqs[c])) /\ conn[c].state # "hung" /\ Only(conn, conn', c, e)
  BY <1>4, <1>6, <1>20, <1>22, BufferIs, SetIs
<1> QED BY <1>4, <1>8, <1>17, <1>18, <1>22, <1>23, GiveStep

-----------------------------------------------------------------------------
(* The binary protocol.                                                    *)

LEMMA CompleteUpdateClean == ASSUME Clean, Counts, NEW c \in Conns, complete_update_bin(c) PROVE Clean'
<1>1. PICK d : d = conn[c]
  OBVIOUS
<1>2. /\ d.state = "nread" /\ d.proto = "binary" /\ d.substate = "set_value"
      /\ UNCHANGED <<driven, seen, sock, reqs, script, lost>>
  BY <1>1 DEF complete_update_bin, Complete, InState, BinRest, net, client
<1>3. Fine(d, store, reqs[c], seen[c])
  BY <1>1 DEF Clean
<1>4. d.item # None
  BY <1>2, <1>3 DEF Fine, Filling
<1>5. PICK i : i = d.item
  OBVIOUS
<1>6. /\ Plain(d.iov) /\ DOMAIN d = ConnFields /\ d.ilist \in Seq(DOMAIN store.item)
      /\ d.ileft = 0 /\ d.purge = None /\ StoreOK(store) /\ d.write_and_go \in {"new_cmd", "swallow", "closing"} /\ {d.sbytes, d.rlbytes} \subseteq Nat
  BY <1>1, <1>2, <1>4, <1>5, FilledIs
<1>7. PICK r \in do_store_item(store, d.item, d.cmd) :
        IF r.ret = "HANG" THEN store' = r.s /\ Set(c, Hung(d))
        ELSE /\ store' = do_item_remove(r.s, d.item)
             /\ Set(c, [IF r.ret = "STORED" THEN write_bin_response(d, "OK")
                        ELSE write_bin_error(d, StoreError(d.cmd, r.ret), 0) EXCEPT !.item = None])
  BY <1>1 DEF complete_update_bin
<1>8. CASE r.ret = "HANG"
  BY <1>1, <1>2, <1>4, <1>7, <1>8, HungStep
<1>9. CASE r.ret # "HANG"
  <2>1. PICK e, f, err : /\ err = StoreError(d.cmd, r.ret)
                         /\ f = (IF r.ret = "STORED" THEN write_bin_response(d, "OK") ELSE write_bin_error(d, err, 0))
                         /\ e = [f EXCEPT !.item = None]
    OBVIOUS
  <2>2. Set(c, e) /\ store' = do_item_remove(r.s, conn[c].item) /\ r \in do_store_item(store, conn[c].item, d.cmd)
    BY <1>1, <1>7, <1>9, <2>1
  <2>3. /\ DOMAIN f = ConnFields /\ f.ilist = d.ilist /\ f.purge = None /\ f.ileft = 0 /\ f.rbuf = d.rbuf /\ f.proto = "binary"
        /\ f.state \in {"new_cmd", "mwrite"} /\ (f.iov = d.iov \/ \E what : f.iov = <<Piece(d, what)>>)
        /\ f.write_and_go \in {"new_cmd", "swallow", "closing"} /\ {f.sbytes, f.rlbytes} \subseteq Nat
    <3>1. CASE r.ret = "STORED"
      BY <1>2, <1>6, <2>1, <3>1 DEF write_bin_response, add_bin_header, conn_set_state, ConnFields
    <3>2. CASE r.ret # "STORED"
      BY <1>2, <1>6, <2>1, <3>2 DEF write_bin_error, add_bin_header, ConnFields
    <3> QED BY <3>1, <3>2
  <2>4. /\ DOMAIN e = ConnFields /\ e.ilist = d.ilist /\ e.item = None /\ e.purge = None /\ e.ileft = 0 /\ e.rbuf = d.rbuf
        /\ e.proto = "binary" /\ e.state \in {"new_cmd", "mwrite"} /\ e.iov = f.iov /\ e.write_and_go = f.write_and_go /\ e.sbytes = f.sbytes /\ e.rlbytes = f.rlbytes
    BY <2>1, <2>3 DEF ConnFields
  <2>5. Plain(e.iov)
    BY <1>6, <2>3, <2>4, PlainIs
  <2>6. Bare(e, DOMAIN store.item) /\ e.rbuf \in Seq(UnitsOf(reqs[c]))
    BY <1>1, <1>6, <2>3, <2>4, <2>5, BufferIs DEF Bare, Loose, Collecting
  <2> QED BY <1>1, <1>2, <1>4, <1>9, <2>2, <2>6, StoredStep
<1> QED BY <1>8, <1>9

-----------------------------------------------------------------------------
(* get: the items that are looked up one by one.                           *)

\* What a connection holds keeps its value.
LEMMA GoesKeeps ==
    ASSUME NEW d, NEW s, NEW t, NEW rs, NEW sn, Fine(d, s, rs, sn), StoreOK(s), Goes(s, t, {}),
           \A j \in DOMAIN s.item : Mine(d, j) >= 1 => Net(s, j) # 0 /\ Net(t, j) # 0
    PROVE  Fine(d, t, rs, sn)
<1>1. StoreOK(t) /\ DOMAIN t.item = DOMAIN s.item /\ Ages(s, t)
  BY DEF Goes
<1>2. \A j \in DOMAIN s.item : Mine(d, j) >= 1 =>
              /\ t.item[j].val = s.item[j].val
              /\ Lone(s, j) => Lone(t, j) /\ t.item[j].key = s.item[j].key /\ t.item[j].cas = s.item[j].cas
  BY DEF Goes, Vals, Lones
<1> QED BY <1>1, <1>2, FineStays

\* The list of the items found, with one more.
Listed(L, h, i) == Append(SubSeq(L, 1, h), i) \o Drop(L, h + 1)

ListFacts(D, L, h, i, M) ==
    M \in Seq(D) /\ Len(M) >= h + 1 /\ M[h + 1] = i /\ \A n \in 1 .. h : M[n] = L[n]

LEMMA ListedIs ==
    ASSUME NEW D, NEW L \in Seq(D), NEW h \in 0 .. Len(L), NEW i \in D
    PROVE  ListFacts(D, L, h, i, Listed(L, h, i))
<1>1. PICK A, B, C : A = SubSeq(L, 1, h) /\ B = Append(A, i) /\ C = Drop(L, h + 1)
  OBVIOUS
<1>2. Len(L) \in Nat /\ h \in Nat /\ \A n \in 1 .. h : L[n] \in D
  OBVIOUS
<1>3. A \in Seq(D) /\ Len(A) = h /\ \A n \in 1 .. h : A[n] = L[n]
  BY <1>1, <1>2
<1>4. B \in Seq(D) /\ Len(B) = h + 1 /\ B[h + 1] = i /\ \A n \in 1 .. h : B[n] = A[n]
  BY <1>1, <1>2, <1>3
<1>5. C \in Seq(D) /\ Len(C) \in Nat
  BY <1>1, <1>2, DropIs
<1>6. B \o C \in Seq(D) /\ Len(B \o C) = h + 1 + Len(C) /\ \A n \in 1 .. h + 1 : (B \o C)[n] = B[n]
  <2>1. B \o C \in Seq(D) /\ Len(B \o C) = Len(B) + Len(C)
    BY <1>4, <1>5, ConcatProperties
  <2>2. \A n \in 1 .. Len(B) + Len(C) : (B \o C)[n] = IF n <= Len(B) THEN B[n] ELSE C[n - Len(B)]
    BY <1>4, <1>5, ConcatProperties
  <2> QED BY <1>2, <1>4, <1>5, <2>1, <2>2
<1>7. Listed(L, h, i) = B \o C
  BY <1>1 DEF Listed
<1> QED BY <1>2, <1>3, <1>4, <1>5, <1>6, <1>7 DEF ListFacts

LEMMA CollectIs ==
    ASSUME Clean, NEW c \in Conns, Getting(c)
    PROVE  /\ Collecting(conn[c]) /\ conn[c].state = "parse_cmd" /\ conn[c].cmd = "get" /\ DOMAIN conn[c] = ConnFields
           /\ conn[c].item = None /\ conn[c].purge = None /\ conn[c].ileft = 0 /\ ~conn[c].noreply
           /\ conn[c].ilist \in Seq(DOMAIN store.item) /\ conn[c].hits \in 0 .. Len(conn[c].ilist)
           /\ conn[c].todo \in Seq(Keys \cup {LongKey}) /\ Places(conn[c]) = -1 .. conn[c].hits
           /\ StoreOK(store) /\ Fine(conn[c], store, reqs[c], seen[c]) /\ IsSeq(conn[c].iov)
           /\ conn[c].rbuf \in Seq(UnitsOf(reqs[c]))
<1>1. Fine(conn[c], store, reqs[c], seen[c]) /\ StoreOK(store)
  BY DEF Clean
<1>2. Collecting(conn[c]) /\ conn[c].state = "parse_cmd" /\ conn[c].cmd = "get"
  BY DEF Getting, InState, Collecting
<1>3. Places(conn[c]) = -1 .. conn[c].hits
  BY <1>2 DEF Places
<1>4. conn[c].rbuf \in Seq(UnitsOf(reqs[c]))
  BY BufferIs
<1> QED BY <1>1, <1>2, <1>3, <1>4 DEF Fine

LEMMA GetMissed ==
    ASSUME Clean, Counts, NEW c \in Conns, Getting(c), conn[c].todo # <<>>, NEW e, e = [conn[c] EXCEPT !.todo = Tail(conn[c].todo)],
           Only(conn, conn', c, e), Goes(store, store', {}), Shift(store, store', None, 0),
           UNCHANGED <<seen, sock, reqs, script, lost>>
    PROVE  Clean'
<1>1. PICK d, t : d = conn[c] /\ t = store'
  OBVIOUS
<1>2. /\ Collecting(d) /\ DOMAIN d = ConnFields /\ d.todo \in Seq(Keys \cup {LongKey}) /\ d.state = "parse_cmd"
      /\ StoreOK(store) /\ Fine(d, store, reqs[c], seen[c]) /\ d.rbuf \in Seq(UnitsOf(reqs[c]))
  BY <1>1, CollectIs
<1>3. /\ DOMAIN e = ConnFields /\ e.todo = Tail(d.todo)
      /\ e.state = d.state /\ e.cmd = d.cmd /\ e.hits = d.hits /\ e.ileft = d.ileft /\ e.item = d.item /\ e.purge = d.purge
      /\ e.ilist = d.ilist /\ e.iov = d.iov /\ e.noreply = d.noreply /\ e.proto = d.proto /\ e.rbuf = d.rbuf
      /\ e.write_and_go = d.write_and_go /\ e.sbytes = d.sbytes /\ e.rlbytes = d.rlbytes
  BY <1>1, <1>2 DEF ConnFields
<1>4. Tail(d.todo) \in Seq(Keys \cup {LongKey})
  BY <1>1, <1>2
<1>5. Places(e) = Places(d) /\ Collecting(e)
  BY <1>2, <1>3 DEF Places, Collecting
<1>6. \A n : RefAt(e, n) = RefAt(d, n)
  BY <1>3 DEF RefAt
<1>7. \A j : Mine(e, j) = Mine(d, j)
  BY <1>5, <1>6, SameHands
<1>8. \A j \in DOMAIN store.item : Net(store, j) \in Nat /\ Net(t, j) = Net(store, j)
  BY <1>1, <1>2, NetIs DEF Shift
<1>9. \A j \in DOMAIN store.item : Mine(d, j) >= 1 => Net(store, j) # 0 /\ Net(t, j) # 0
  BY <1>1, <1>8, MineNet
<1>10. Goes(store, t, {})
  BY <1>1
<1>11. Fine(d, t, reqs[c], seen[c])
  BY <1>2, <1>9, <1>10, GoesKeeps
<1>12. \A p : PieceOK(p, d, t) => PieceOK(p, e, t)
  BY <1>2, <1>3, <1>5, <1>6 DEF PieceOK
<1>13. Fine(e, t, reqs[c], seen[c])
  <2>1. /\ d.item = None /\ d.purge = None /\ d.ileft = 0 /\ ~d.noreply /\ d.state = "parse_cmd"
        /\ d.hits \in 0 .. Len(d.ilist) /\ IsSeq(d.iov)
    BY <1>1, CollectIs
  <2>2. /\ d.write_and_go \in {"new_cmd", "swallow", "closing"} /\ {d.sbytes, d.rlbytes} \subseteq Nat
        /\ d.ilist \in Seq(DOMAIN t.item) /\ \A n \in DOMAIN d.iov : PieceOK(d.iov[n], d, t)
    BY <1>11 DEF Fine
  <2>3. \A n \in DOMAIN e.iov : PieceOK(e.iov[n], e, t)
    BY <1>3, <1>12, <2>2
  <2>4. e.item = None /\ e.purge = None /\ e.ileft = 0 /\ e.state = "parse_cmd" /\ IsSeq(e.iov)
    BY <1>3, <2>1
  <2>5. ~e.noreply
    BY <1>3, <2>1, Zenon
  <2>6. e.hits \in 0 .. Len(e.ilist) /\ e.ileft \in 0 .. Len(e.ilist) /\ e.todo \in Seq(Keys \cup {LongKey})
    <3>1. e.ilist = d.ilist /\ e.hits = d.hits /\ e.todo = Tail(d.todo)
      BY <1>3
    <3>2. Len(d.ilist) \in Nat
      BY <2>2
    <3>3. e.hits \in 0 .. Len(e.ilist)
      BY <2>1, <3>1
    <3>4. e.ileft \in 0 .. Len(e.ilist)
      BY <2>4, <3>1, <3>2
    <3>5. e.todo \in Seq(Keys \cup {LongKey})
      BY <1>4, <3>1
    <3> QED BY <3>3, <3>4, <3>5
  <2>7. /\ DOMAIN e = ConnFields /\ e.write_and_go \in {"new_cmd", "swallow", "closing"}
        /\ {e.sbytes, e.rlbytes} \subseteq Nat /\ e.ilist \in Seq(DOMAIN t.item)
    BY <1>3, <2>2
  <2>8. /\ e.state \notin {"waiting", "read", "nread"} /\ ~(e.ileft > 0) /\ ~(e.item # None) /\ ~(e.purge # None)
        /\ e.item \in DOMAIN t.item \cup {None} /\ e.purge \in DOMAIN t.item \cup {None}
    BY <2>4
  <2>9. Collecting(e) => /\ e.hits \in 0 .. Len(e.ilist) /\ e.ileft = 0 /\ e.purge = None
                         /\ e.todo \in Seq(Keys \cup {LongKey}) /\ ~e.noreply
    BY <2>4, <2>5, <2>6
  <2> QED BY <2>3, <2>4, <2>5, <2>6, <2>7, <2>8, <2>9 DEF Fine
<1>14. \A j \in DOMAIN store.item : Mine(e, j) = Mine(conn[c], j) + (IF j = None THEN 0 ELSE 0)
  <2>1. \A j \in DOMAIN store.item : Mine(conn[c], j) \in Nat
    BY MineNet
  <2> QED BY <1>1, <1>7, <2>1
<1>15. Fine(e, store', reqs[c], seen[c]) /\ e.rbuf \in Seq(UnitsOf(reqs[c])) /\ conn[c].state # "hung"
  BY <1>1, <1>2, <1>3, <1>13
<1>16. 0 \in Int /\ \A j \in DOMAIN store.item : j \in {} => Mine(conn[c], j) >= 1
  OBVIOUS
<1> QED BY <1>14, <1>15, <1>16, ShiftStep

\* The piece of an answer that carries the value of a linked item.
LEMMA ValueIs ==
    ASSUME NEW s, StoreOK(s), NEW i \in DOMAIN s.item, Linked(s, i), NEW d
    PROVE  /\ Known(s, ValuePiece(d, s, i)) /\ ValuePiece(d, s, i).it = i
           /\ ValuePiece(d, s, i).val = s.item[i].val /\ ValuePiece(d, s, i).cas = s.item[i].cas
<1>1. s.item[i].cas \in 1 .. s.cas_id /\ s.cas_id \in Nat /\ Distinct(s)
  BY DEF StoreOK
<1>2. PICK p : p = ValuePiece(d, s, i)
  OBVIOUS
<1>3. p.it = i /\ p.val = s.item[i].val /\ p.cas = s.item[i].cas
  BY <1>2 DEF ValuePiece
<1>4. \A j \in DOMAIN s.item : Linked(s, j) /\ s.item[j].cas = p.cas => s.item[j].val = p.val
  BY <1>1, <1>3 DEF Distinct
<1>5. Known(s, p)
  BY <1>1, <1>3, <1>4 DEF Known
<1> QED BY <1>2, <1>3, <1>5

\* An item that was found is put on the list, with its value.
Found1(d, s, i) ==
    [d EXCEPT !.todo = Tail(d.todo), !.iov = Append(d.iov, ValuePiece(d, s, i)), !.hits = d.hits + 1,
              !.ilist = Listed(d.ilist, d.hits, i)]

LEMMA GetHit ==
    ASSUME Clean, Counts, NEW c \in Conns, Getting(c), conn[c].todo # <<>>,
           NEW i \in DOMAIN store.item, NEW e, e = Found1(conn[c], store', i), Linked(store', i),
           Only(conn, conn', c, e), Goes(store, store', {}), Shift(store, store', i, 1),
           UNCHANGED <<seen, sock, reqs, script, lost>>
    PROVE  Clean'
<1>1. PICK d, t : d = conn[c] /\ t = store'
  OBVIOUS
<1>2. /\ Collecting(d) /\ DOMAIN d = ConnFields /\ d.todo \in Seq(Keys \cup {LongKey}) /\ d.state = "parse_cmd" /\ d.cmd = "get"
      /\ StoreOK(store) /\ Fine(d, store, reqs[c], seen[c]) /\ d.rbuf \in Seq(UnitsOf(reqs[c]))
      /\ d.item = None /\ d.purge = None /\ d.ileft = 0 /\ ~d.noreply /\ Places(d) = -1 .. d.hits
      /\ d.ilist \in Seq(DOMAIN store.item) /\ d.hits \in 0 .. Len(d.ilist) /\ IsSeq(d.iov)
  BY <1>1, CollectIs
<1>3. PICK M, p, q, td : M = Listed(d.ilist, d.hits, i) /\ p = ValuePiece(d, t, i) /\ q = Append(d.iov, p) /\ td = Tail(d.todo)
  OBVIOUS
<1>4. /\ DOMAIN e = ConnFields /\ e.todo = td /\ e.hits = d.hits + 1 /\ e.ilist = M /\ e.iov = q
      /\ e.state = d.state /\ e.cmd = d.cmd /\ e.ileft = d.ileft /\ e.item = d.item /\ e.purge = d.purge
      /\ e.noreply = d.noreply /\ e.proto = d.proto /\ e.rbuf = d.rbuf /\ e.write_and_go = d.write_and_go /\ e.sbytes = d.sbytes /\ e.rlbytes = d.rlbytes
  <2>1. e = [d EXCEPT !.todo = td, !.iov = q, !.hits = d.hits + 1, !.ilist = M]
    BY <1>1, <1>3 DEF Found1
  <2> QED BY <1>2, <2>1 DEF ConnFields
<1>5. td \in Seq(Keys \cup {LongKey})
  BY <1>1, <1>2, <1>3
<1>6. M \in Seq(DOMAIN store.item) /\ Len(M) >= d.hits + 1 /\ M[d.hits + 1] = i /\ \A n \in 1 .. d.hits : M[n] = d.ilist[n]
  <2>1. PICK D, L, h : D = DOMAIN store.item /\ L = d.ilist /\ h = d.hits
    OBVIOUS
  <2>2. L \in Seq(D) /\ h \in 0 .. Len(L) /\ i \in D /\ M = Listed(L, h, i)
    BY <1>2, <1>3, <2>1
  <2>3. ListFacts(D, L, h, i, Listed(L, h, i))
    BY <2>2, ListedIs
  <2> QED BY <2>1, <2>2, <2>3 DEF ListFacts
<1>7. d.hits \in Nat /\ Len(M) \in Nat
  BY <1>2, <1>6
<1>8. Places(e) = -1 .. d.hits + 1 /\ Collecting(e)
  BY <1>2, <1>4 DEF Places, Collecting
<1>9. \A n \in Places(d) : RefAt(e, n) = RefAt(d, n)
  BY <1>2, <1>4, <1>6, <1>7 DEF RefAt
<1>10. RefAt(e, d.hits + 1) = i
  BY <1>4, <1>6, <1>7 DEF RefAt
<1>11. \A j : Held(e, j) = Held(d, j) \cup (IF j = i THEN {d.hits + 1} ELSE {})
  BY <1>2, <1>7, <1>8, <1>9, <1>10 DEF Held
<1>12. \A j : IsFiniteSet(Held(d, j)) /\ Mine(d, j) \in Nat /\ d.hits + 1 \notin Held(d, j)
  <2>1. Counted(d)
    BY <1>2, FineCounts
  <2>2. \A j : d.hits + 1 \notin Held(d, j)
    BY <1>2, <1>7 DEF Held
  <2> QED BY <2>1, <2>2, HeldIs
<1>13. \A j : Mine(e, j) = Mine(d, j) + (IF j = i THEN 1 ELSE 0)
  <2> SUFFICES ASSUME NEW j PROVE Mine(e, j) = Mine(d, j) + (IF j = i THEN 1 ELSE 0)
    OBVIOUS
  <2>1. CASE j = i
    <3>1. Held(e, j) = Held(d, j) \cup {d.hits + 1}
      BY <1>11, <2>1
    <3>2. Cardinality(Held(d, j) \cup {d.hits + 1}) = Cardinality(Held(d, j)) + 1
      BY <1>12, FS_AddElement
    <3> QED BY <2>1, <3>1, <3>2 DEF Mine
  <2>2. CASE j # i
    <3>1. Held(e, j) = Held(d, j)
      BY <1>11, <2>2
    <3> QED BY <1>12, <2>2, <3>1 DEF Mine
  <2> QED BY <2>1, <2>2
<1>14. \A j \in DOMAIN store.item : Net(store, j) \in Nat /\ Net(t, j) = Net(store, j) + (IF j = i THEN 1 ELSE 0)
  BY <1>1, <1>2, NetIs DEF Shift
<1>15. \A j \in DOMAIN store.item : Mine(d, j) >= 1 => Net(store, j) # 0 /\ Net(t, j) # 0
  BY <1>1, <1>14, MineNet
<1>16. Goes(store, t, {}) /\ StoreOK(t) /\ DOMAIN t.item = DOMAIN store.item
  BY <1>1 DEF Goes
<1>17. Fine(d, t, reqs[c], seen[c])
  BY <1>2, <1>15, <1>16, GoesKeeps
<1>18. Known(t, p) /\ p.it = i /\ p.val = t.item[i].val
  BY <1>1, <1>3, <1>16, ValueIs
<1>19. PieceOK(p, e, t)
  <2>1. d.hits + 1 \in Places(e) \ {-1}
    BY <1>7, <1>8
  <2> QED BY <1>8, <1>10, <1>16, <1>18, <2>1 DEF PieceOK
<1>20. \A x : PieceOK(x, d, t) => PieceOK(x, e, t)
  <2> SUFFICES ASSUME NEW x, PieceOK(x, d, t), x.it # None PROVE PieceOK(x, e, t)
    BY DEF PieceOK
  <2>1. Known(t, x) /\ x.it \in DOMAIN t.item /\ t.item[x.it].val = x.val
    BY <1>2 DEF PieceOK
  <2>2. PICK n \in Places(d) \ {-1} : RefAt(d, n) = x.it
    BY <1>2 DEF PieceOK
  <2>3. n \in Places(e) \ {-1} /\ RefAt(e, n) = x.it
    BY <1>2, <1>7, <1>8, <1>9, <2>2
  <2> QED BY <1>8, <2>1, <2>3 DEF PieceOK
<1>21. IsSeq(q) /\ \A n \in DOMAIN q : PieceOK(q[n], e, t)
  <2>1. /\ Len(d.iov) \in Nat /\ DOMAIN d.iov = 1 .. Len(d.iov)
        /\ DOMAIN q = 1 .. Len(d.iov) + 1 /\ q[Len(d.iov) + 1] = p
        /\ \A n \in 1 .. Len(d.iov) : q[n] = d.iov[n]
    BY <1>2, <1>3, SeqFacts
  <2>2. \A n \in 1 .. Len(d.iov) : PieceOK(d.iov[n], e, t)
    BY <1>17, <1>20, <2>1 DEF Fine
  <2>3. \A n \in DOMAIN q : PieceOK(q[n], e, t)
    BY <1>19, <2>1, <2>2
  <2> QED BY <1>2, <1>3, <2>3, IsSeqs
<1>22. Fine(e, t, reqs[c], seen[c])
  <2>1. /\ e.ilist \in Seq(DOMAIN t.item) /\ e.ileft \in 0 .. Len(e.ilist) /\ e.hits \in 0 .. Len(e.ilist)
    BY <1>2, <1>4, <1>6, <1>7, <1>16
  <2> QED BY <1>2, <1>4, <1>5, <1>21, <2>1 DEF Fine
<1>23. \A j \in DOMAIN store.item : Mine(e, j) = Mine(conn[c], j) + (IF j = i THEN 1 ELSE 0)
  BY <1>1, <1>13
<1>24. Fine(e, store', reqs[c], seen[c]) /\ e.rbuf \in Seq(UnitsOf(reqs[c])) /\ conn[c].state # "hung"
  BY <1>1, <1>2, <1>4, <1>22
<1>25. 1 \in Int /\ \A j \in DOMAIN store.item : j \in {} => Mine(conn[c], j) >= 1
  OBVIOUS
<1> QED BY <1>23, <1>24, <1>25, ShiftStep

LEMMA GetKeyClean == ASSUME Clean, Counts, NEW c \in Conns, GetKey(c) PROVE Clean'
<1>1. PICK k, g, d : k = Head(conn[c].todo) /\ g = item_get(store, k) /\ d = [conn[c] EXCEPT !.todo = Tail(conn[c].todo)]
  OBVIOUS
<1>2. PICK e : e = (IF g.it = None THEN d
                    ELSE [add_iov(d, ValuePiece(d, g.s, g.it))
                            EXCEPT !.hits = @ + 1,
                                   !.ilist = Append(SubSeq(@, 1, d.hits), g.it) \o Drop(@, d.hits + 1)])
  OBVIOUS
<1>3. /\ Getting(c) /\ conn[c].todo # <<>> /\ k # LongKey /\ store' = g.s /\ Set(c, e)
      /\ UNCHANGED <<seen, sock, reqs, script, lost>>
  BY <1>1, <1>2 DEF GetKey, net, client
<1>4. conn[c].todo \in Seq(Keys \cup {LongKey}) /\ DOMAIN conn[c] = ConnFields /\ StoreOK(store) /\ Only(conn, conn', c, e)
  BY <1>3, CollectIs, SetIs
<1>5. k \in Keys
  BY <1>1, <1>3, <1>4
<1>6. Got(store, k, g)
  BY <1>1, <1>4, <1>5, ItemGetIs
<1>7. CASE g.it = None
  <2>1. e = [conn[c] EXCEPT !.todo = Tail(conn[c].todo)] /\ Goes(store, store', {}) /\ Shift(store, store', None, 0)
    BY <1>1, <1>2, <1>3, <1>6, <1>7 DEF Got
  <2> QED BY <1>3, <1>4, <2>1, GetMissed
<1>8. CASE g.it # None
  <2>1. PICK i : i = g.it
    OBVIOUS
  <2>2. Goes(store, store', {}) /\ Shift(store, store', i, 1) /\ i \in DOMAIN store.item /\ Linked(store', i)
    BY <1>3, <1>6, <1>8, <2>1 DEF Got
  <2>3. e = Found1(conn[c], store', i)
    <3>1. d.todo = Tail(conn[c].todo) /\ d.iov = conn[c].iov /\ d.hits = conn[c].hits /\ d.ilist = conn[c].ilist /\ d.req = conn[c].req
      BY <1>1, <1>4 DEF ConnFields
    <3>2. ValuePiece(d, g.s, i) = ValuePiece(conn[c], store', i)
      BY <1>3, <3>1 DEF ValuePiece
    <3>3. PICK p, M : p = ValuePiece(conn[c], store', i) /\ M = Listed(conn[c].ilist, conn[c].hits, i)
      OBVIOUS
    <3>4. e = [d EXCEPT !.iov = Append(conn[c].iov, p), !.hits = conn[c].hits + 1, !.ilist = M]
      BY <1>2, <1>4, <1>8, <2>1, <3>1, <3>2, <3>3 DEF add_iov, Listed, ConnFields
    <3> QED BY <1>1, <1>4, <3>3, <3>4 DEF Found1, ConnFields
  <2> QED BY <1>3, <1>4, <2>2, <2>3, GetHit
<1> QED BY <1>7, <1>8

LEMMA GetEndClean == ASSUME Clean, Counts, NEW c \in Conns, GetEnd(c) PROVE Clean'
<1>1. PICK d, p, q, e : /\ d = conn[c] /\ p = Piece(d, "END") /\ q = Append(d.iov, p)
                        /\ e = [add_iov(d, p) EXCEPT !.ileft = d.hits, !.state = "mwrite"]
  OBVIOUS
<1>2. Getting(c) /\ Set(c, e) /\ UNCHANGED <<store, seen, sock, reqs, script, lost>>
  BY <1>1 DEF GetEnd, Reply, net, client
<1>3. /\ Collecting(d) /\ DOMAIN d = ConnFields /\ StoreOK(store) /\ Fine(d, store, reqs[c], seen[c])
      /\ d.rbuf \in Seq(UnitsOf(reqs[c])) /\ d.state = "parse_cmd"
      /\ d.item = None /\ d.purge = None /\ ~d.noreply /\ Places(d) = -1 .. d.hits
      /\ d.ilist \in Seq(DOMAIN store.item) /\ d.hits \in 0 .. Len(d.ilist) /\ IsSeq(d.iov)
  BY <1>1, <1>2, CollectIs
<1>4. /\ DOMAIN e = ConnFields /\ e.ileft = d.hits /\ e.state = "mwrite" /\ e.iov = q /\ e.ilist = d.ilist
      /\ e.item = None /\ e.purge = None /\ ~e.noreply /\ e.rbuf = d.rbuf /\ e.write_and_go = d.write_and_go /\ e.sbytes = d.sbytes /\ e.rlbytes = d.rlbytes
  <2>1. e = [d EXCEPT !.iov = q, !.ileft = d.hits, !.state = "mwrite"]
    BY <1>1, <1>3 DEF add_iov, ConnFields
  <2> QED BY <1>3, <2>1 DEF ConnFields
<1>5. ~Collecting(e) /\ Places(e) = Places(d)
  BY <1>3, <1>4 DEF Collecting, Places
<1>6. \A n \in Places(d) : RefAt(e, n) = RefAt(d, n)
  BY <1>3, <1>4 DEF RefAt
<1>7. \A j : Mine(e, j) = Mine(d, j)
  BY <1>5, <1>6, SameHands
<1>8. \A x : PieceOK(x, d, store) => PieceOK(x, e, store)
  <2> SUFFICES ASSUME NEW x, PieceOK(x, d, store), x.it # None PROVE PieceOK(x, e, store)
    BY DEF PieceOK
  <2>1. Known(store, x) /\ x.it \in DOMAIN store.item /\ store.item[x.it].val = x.val
    BY <1>3 DEF PieceOK
  <2>2. PICK n \in Places(d) \ {-1} : RefAt(d, n) = x.it
    BY <1>3 DEF PieceOK
  <2>3. n \in Places(e) \ {-1} /\ RefAt(e, n) = x.it
    BY <1>5, <1>6, <2>2
  <2> QED BY <1>4, <2>1, <2>3 DEF PieceOK
<1>9. p.it = None
  BY <1>1 DEF Piece
<1>10. IsSeq(q) /\ \A n \in DOMAIN q : PieceOK(q[n], e, store)
  <2>1. /\ Len(d.iov) \in Nat /\ DOMAIN d.iov = 1 .. Len(d.iov)
        /\ DOMAIN q = 1 .. Len(d.iov) + 1 /\ q[Len(d.iov) + 1] = p
        /\ \A n \in 1 .. Len(d.iov) : q[n] = d.iov[n]
    BY <1>1, <1>3, SeqFacts
  <2>2. \A n \in 1 .. Len(d.iov) : PieceOK(d.iov[n], e, store)
    BY <1>3, <1>8, <2>1 DEF Fine
  <2>3. PieceOK(p, e, store)
    BY <1>9 DEF PieceOK
  <2>4. \A n \in DOMAIN q : PieceOK(q[n], e, store)
    BY <2>1, <2>2, <2>3
  <2> QED BY <1>1, <1>3, <2>4, IsSeqs
<1>11. Fine(e, store, reqs[c], seen[c])
  BY <1>3, <1>4, <1>5, <1>10 DEF Fine
<1>12. e.rbuf \in Seq(UnitsOf(reqs[c])) /\ conn[c].state # "hung" /\ Only(conn, conn', c, e)
  BY <1>1, <1>2, <1>3, <1>4, SetIs
<1> QED BY <1>1, <1>2, <1>7, <1>11, <1>12, KeepStep

\* A connection gives back everything it has.
LEMMA ReleaseStep ==
    ASSUME Clean, Counts, NEW c \in Conns, NEW places, \A j \in DOMAIN store.item : Times(conn[c], places, j) = Mine(conn[c], j),
           store' = RemoveAll(store, conn[c], places), NEW e, Set(c, e), UNCHANGED <<seen, sock, reqs, script, lost>>,
           conn[c].state # "hung", e.rbuf \in Seq(UnitsOf(reqs[c])),
           Fine(e, store, reqs[c], seen[c]), \A j \in DOMAIN store.item : Mine(e, j) = 0
    PROVE  Clean'
<1>1. PICK d, t : d = conn[c] /\ t = store'
  OBVIOUS
<1>2. StoreOK(store) /\ \A j \in DOMAIN store.item : Mine(d, j) \in Nat /\ Mine(d, j) <= Net(store, j) /\ Net(store, j) \in Nat
  BY <1>1, MineNet DEF Clean
<1>3. PICK X : X = {j \in DOMAIN store.item : Mine(d, j) >= 1}
  OBVIOUS
<1>4. /\ \A j \in DOMAIN store.item : Times(d, places, j) \in Nat /\ Times(d, places, j) <= Net(store, j)
      /\ \A j \in DOMAIN store.item : Times(d, places, j) > 0 => j \in X
  BY <1>1, <1>2, <1>3
<1>5. /\ Goes(store, RemoveAll(store, d, places), X)
      /\ \A j \in DOMAIN store.item : Net(RemoveAll(store, d, places), j) = Net(store, j) - Times(d, places, j)
      /\ RemoveAll(store, d, places).link = store.link
  BY <1>2, <1>4, RemoveAllGoes
<1>6. Goes(store, t, X) /\ \A j \in DOMAIN store.item : Net(t, j) = Net(store, j) - Mine(d, j)
  BY <1>1, <1>5
<1>7. StoreOK(t) /\ DOMAIN t.item = DOMAIN store.item
  BY <1>6 DEF Goes
<1>8. Fine(e, t, reqs[c], seen[c])
  <2>1. Ages(store, t)
    BY <1>6 DEF Goes
  <2>2. \A j \in DOMAIN store.item : ~(Mine(e, j) >= 1)
    OBVIOUS
  <2> QED BY <1>2, <1>7, <2>1, <2>2, FineStays
<1>9. Balance(store, store', lost, lost', conn[c], e)
  <2>1. lost' = lost /\ \A j \in DOMAIN store.item : lost[j] \in Nat
    BY <1>2 DEF Counts, StoreOK
  <2> QED BY <1>1, <1>2, <1>6, <2>1 DEF Balance
<1>10. Moves(store, store', X) /\ \A j \in DOMAIN store.item : j \in X => Mine(conn[c], j) >= 1
  BY <1>1, <1>3, <1>6, GoesMoves
<1>11. Fine(e, store', reqs[c], seen[c]) /\ Only(conn, conn', c, e) /\ lost' \in [Items -> Nat]
  BY <1>1, <1>8, SetIs DEF Counts
<1> QED BY <1>9, <1>10, <1>11, StepOn

LEMMA GetLongKeyClean == ASSUME Clean, Counts, NEW c \in Conns, GetLongKey(c) PROVE Clean'
<1>1. PICK d, e, S : d = conn[c] /\ e = out_string(d, "CLIENT_ERROR") /\ S = 1 .. d.hits
  OBVIOUS
<1>2. Getting(c) /\ Set(c, e) /\ UNCHANGED <<seen, sock, reqs, script, lost>> /\ store' = RemoveAll(store, conn[c], S)
  BY <1>1 DEF GetLongKey, net, client
<1>3. /\ Collecting(d) /\ DOMAIN d = ConnFields /\ StoreOK(store) /\ d.state = "parse_cmd"
      /\ d.rbuf \in Seq(UnitsOf(reqs[c]))
      /\ d.item = None /\ d.purge = None /\ d.ileft = 0 /\ ~d.noreply /\ Places(d) = -1 .. d.hits
      /\ d.ilist \in Seq(DOMAIN store.item) /\ d.hits \in 0 .. Len(d.ilist)
  BY <1>1, <1>2, CollectIs
<1>4. /\ DOMAIN e = ConnFields /\ e.ilist = d.ilist /\ e.item = None /\ e.purge = None /\ e.ileft = 0
      /\ e.iov = <<>> /\ e.state = "write" /\ ~e.noreply /\ e.rbuf = d.rbuf /\ e.write_and_go = "new_cmd" /\ e.sbytes = d.sbytes /\ e.rlbytes = d.rlbytes
  BY <1>1, <1>3 DEF out_string, ConnFields
<1>5. Bare(e, DOMAIN store.item)
  <2>1. {d.sbytes, d.rlbytes} \subseteq Nat
    BY <1>1 DEF Clean, Fine
  <2> QED BY <1>3, <1>4, <2>1, PlainIs DEF Bare, Loose, Collecting
<1>6. \A j \in DOMAIN store.item : Times(conn[c], S, j) = Mine(conn[c], j)
  <2> SUFFICES ASSUME NEW j \in DOMAIN store.item PROVE Times(conn[c], S, j) = Mine(conn[c], j)
    OBVIOUS
  <2>1. j # None
    BY <1>3, StoreAssumption DEF StoreOK
  <2>2. d.hits \in Nat
    BY <1>3
  <2>3. {n \in S : RefAt(d, n) = j} = {n \in Places(d) : RefAt(d, n) = j}
    BY <1>1, <1>3, <2>1, <2>2 DEF RefAt
  <2> QED BY <1>1, <2>3 DEF Times, Mine, Held
<1>7. conn[c].state # "hung" /\ e.rbuf \in Seq(UnitsOf(reqs[c]))
  BY <1>1, <1>3, <1>4
<1>8. Fine(e, store, reqs[c], seen[c]) /\ \A j \in DOMAIN store.item : Mine(e, j) = 0
  BY <1>3, <1>5, BareIs
<1> QED BY <1>2, <1>6, <1>7, <1>8, ReleaseStep

-----------------------------------------------------------------------------
(* The state machine of the connections.                                   *)

\* What is told apart of a connection stays.
Alike(d, e) ==
    /\ DOMAIN e = DOMAIN d /\ e.state = d.state /\ e.proto = d.proto /\ e.item = d.item /\ e.ilist = d.ilist
    /\ e.ileft = d.ileft /\ e.noreply = d.noreply /\ e.cmd = d.cmd /\ e.substate = d.substate /\ e.todo = d.todo
    /\ e.hits = d.hits /\ e.write_and_go = d.write_and_go /\ e.sbytes = d.sbytes /\ (e.rlbytes = d.rlbytes \/ e.rlbytes \in Nat)
    /\ e.iov = d.iov /\ e.req = d.req /\ e.purge = d.purge

LEMMA AlikeIs ==
    ASSUME NEW d, NEW e, Alike(d, e), NEW s, NEW rs, NEW sn, Fine(d, s, rs, sn)
    PROVE  Fine(e, s, rs, sn) /\ \A j : Mine(e, j) = Mine(d, j)
<1>1. Collecting(e) <=> Collecting(d)
  BY DEF Collecting, Alike
<1>2. Places(e) = Places(d)
  BY <1>1 DEF Places, Alike
<1>3. \A n : RefAt(e, n) = RefAt(d, n)
  BY DEF RefAt, Alike
<1>4. \A p : PieceOK(p, d, s) => PieceOK(p, e, s)
  BY <1>1, <1>2, <1>3 DEF PieceOK, Alike
<1>5. \A j : Mine(e, j) = Mine(d, j)
  BY <1>2, <1>3, SameHands
<1>6. Filling(e) <=> Filling(d)
  BY DEF Filling, Alike
<1> QED BY <1>1, <1>4, <1>5, <1>6 DEF Fine, Alike

\* Nothing is taken or given back, and the cache stays as it is.
LEMMA StillStep ==
    ASSUME Clean, Counts, NEW c \in Conns, NEW e, Only(conn, conn', c, e), NEW sn, Only(seen, seen', c, sn),
           NEW q, Only(sock, sock', c, q), UNCHANGED <<store, reqs, script, lost>>,
           \A j \in DOMAIN store.item : Mine(e, j) = Mine(conn[c], j), conn[c].state = "hung" => e.state = "hung",
           Fine(e, store, reqs[c], sn), Known(store, sn), {e.rbuf, q} \subseteq Seq(UnitsOf(reqs[c]))
    PROVE  Clean'
<1>1. StoreOK(store)
  BY DEF Clean
<1>2. Moves(store, store', {})
  BY <1>1, GoesNowhere, GoesMoves
<1>3. \A j \in DOMAIN store.item : /\ Net(store, j) \in Nat /\ Mine(conn[c], j) \in Nat /\ lost[j] \in Nat
                                   /\ lost'[j] = lost[j] /\ Mine(e, j) = Mine(conn[c], j)
  BY <1>1, NetIs, MineNet DEF Counts, StoreOK
<1>4. Balance(store, store', lost, lost', conn[c], e)
  BY <1>3 DEF Balance
<1>5. Fine(e, store', reqs[c], sn) /\ Known(store', sn) /\ lost' \in [Items -> Nat] /\ lost \in [Items -> Nat]
      /\ reqs' = reqs /\ script' = script
  BY DEF Counts
<1>6. \A j \in DOMAIN store.item : j \in {} => Mine(conn[c], j) >= 1
  OBVIOUS
<1> QED BY <1>2, <1>4, <1>5, <1>6, Frame

\* The same for a step that reads nothing from the socket.
LEMMA CalmStep ==
    ASSUME Clean, Counts, NEW c \in Conns, NEW e, Only(conn, conn', c, e), UNCHANGED <<store, seen, sock, reqs, script, lost>>,
           \A j \in DOMAIN store.item : Mine(e, j) = Mine(conn[c], j), conn[c].state = "hung" => e.state = "hung",
           Fine(e, store, reqs[c], seen[c]), e.rbuf \in Seq(UnitsOf(reqs[c]))
    PROVE  Clean'
<1>1. DOMAIN seen = Conns /\ DOMAIN sock = Conns /\ Known(store, seen[c]) /\ sock[c] \in Seq(UnitsOf(reqs[c]))
  BY BufferIs DEF Clean
<1>2. Only(seen, seen', c, seen[c]) /\ Only(sock, sock', c, sock[c])
  BY <1>1, OnlyIs
<1> QED BY <1>1, <1>2, StillStep

LEMMA AlikeStep ==
    ASSUME Clean, Counts, NEW c \in Conns, NEW e, Alike(conn[c], e), Only(conn, conn', c, e),
           UNCHANGED <<store, seen, sock, reqs, script, lost>>, e.rbuf \in Seq(UnitsOf(reqs[c]))
    PROVE  Clean'
<1>1. Fine(conn[c], store, reqs[c], seen[c])
  BY DEF Clean
<1>2. Fine(e, store, reqs[c], seen[c]) /\ \A j : Mine(e, j) = Mine(conn[c], j)
  BY <1>1, AlikeIs
<1>3. conn[c].state = "hung" => e.state = "hung"
  BY DEF Alike
<1> QED BY <1>2, <1>3, CalmStep

LEMMA HandlerClean == ASSUME Clean, Counts, NEW c \in Conns, event_handler(c) PROVE Clean'
<1>1. PICK e, n : n = ReqsPerEvent /\ e = [conn[c] EXCEPT !.nreqs = n]
  OBVIOUS
<1>2. Set(c, e) /\ UNCHANGED <<store, seen, sock, reqs, script, lost>>
  BY <1>1 DEF event_handler, net, client
<1>3. DOMAIN conn[c] = ConnFields
  BY DEF Clean, Fine
<1>4. Alike(conn[c], e) /\ e.rbuf = conn[c].rbuf
  BY <1>1, <1>3 DEF Alike, ConnFields
<1>5. e.rbuf \in Seq(UnitsOf(reqs[c]))
  BY <1>4, BufferIs
<1> QED BY <1>2, <1>4, <1>5, SetIs, AlikeStep

LEMMA WatchClean == ASSUME Clean, Counts, NEW c \in Conns, Watch(c) PROVE Clean'
<1>1. UNCHANGED <<store, conn, seen, sock, reqs, script, lost>>
  BY DEF Watch, net, client
<1>2. DOMAIN conn = Conns /\ conn[c].rbuf \in Seq(UnitsOf(reqs[c]))
  BY BufferIs DEF Clean
<1>3. Only(conn, conn', c, conn[c])
  BY <1>1, <1>2, OnlyIs
<1>4. Alike(conn[c], conn[c])
  BY DEF Alike
<1> QED BY <1>1, <1>2, <1>3, <1>4, AlikeStep

\* A connection that waits for a request, reads it or throws data away.
LEMMA QuietState ==
    ASSUME Clean, NEW c \in Conns, conn[c].purge = None, conn[c].item = None,
           conn[c].state \in {"new_cmd", "waiting", "read", "swallow", "write", "watch"}
    PROVE  /\ Bare(conn[c], DOMAIN store.item) /\ ~(conn[c].noreply /\ conn[c].proto # "binary")
           /\ DOMAIN conn[c] = ConnFields /\ conn[c].rbuf \in Seq(UnitsOf(reqs[c])) /\ sock[c] \in Seq(UnitsOf(reqs[c]))
<1>1. Fine(conn[c], store, reqs[c], seen[c]) /\ ~Collecting(conn[c])
  BY DEF Clean, Collecting
<1>2. Bare(conn[c], DOMAIN store.item)
  BY <1>1, BareState
<1>3. ~(conn[c].noreply /\ conn[c].proto # "binary") /\ DOMAIN conn[c] = ConnFields
  BY <1>1 DEF Fine
<1> QED BY <1>2, <1>3, BufferIs

\* A step of such a connection that may read from its socket.
LEMMA QuietStep ==
    ASSUME Clean, Counts, NEW c \in Conns, NEW e, Set(c, e), UNCHANGED <<store, seen, reqs, script, lost>>,
           NEW q, Only(sock, sock', c, q), conn[c].state # "hung",
           Bare(conn[c], DOMAIN store.item), Bare(e, DOMAIN store.item), {e.rbuf, q} \subseteq Seq(UnitsOf(reqs[c]))
    PROVE  Clean'
<1>1. StoreOK(store) /\ DOMAIN seen = Conns /\ Known(store, seen[c])
  BY DEF Clean
<1>2. Fine(e, store, reqs[c], seen[c]) /\ \A j \in DOMAIN store.item : Mine(e, j) = 0
  BY <1>1, BareIs
<1>3. \A j \in DOMAIN store.item : Mine(conn[c], j) = 0
  BY <1>1, BareIs
<1>4. Only(seen, seen', c, seen[c]) /\ Only(conn, conn', c, e)
  BY <1>1, OnlyIs, SetIs
<1> QED BY <1>1, <1>2, <1>3, <1>4, StillStep

LEMMA NewCmdClean == ASSUME Clean, Counts, NEW c \in Conns, NewCmd(c) PROVE Clean'
<1>1. PICK d : d = conn[c]
  OBVIOUS
<1>2. /\ d.state = "new_cmd" /\ d.purge = None /\ UNCHANGED <<seen, sock, reqs, script, lost>>
      /\ Fine(d, store, reqs[c], seen[c]) /\ DOMAIN d = ConnFields /\ StoreOK(store)
      /\ d.rbuf \in Seq(UnitsOf(reqs[c]))
  BY <1>1, BufferIs DEF NewCmd, InState, Driving, net, client, Clean, Fine
<1>3. CASE d.nreqs > 0
  <2>1. PICK e, n, x :
           /\ n = d.nreqs - 1 /\ x = (IF d.rbuf # <<>> THEN "parse_cmd" ELSE "waiting")
           /\ e = [d EXCEPT !.nreqs = n, !.cmd = "none", !.substate = "none", !.item = None, !.state = x]
           /\ Set(c, e) /\ store' = (IF d.item = None THEN store ELSE do_item_remove(store, d.item))
    BY <1>1, <1>3 DEF NewCmd
  <2>2. /\ DOMAIN e = ConnFields /\ e.ilist = d.ilist /\ e.item = None /\ e.purge = d.purge /\ e.ileft = d.ileft
        /\ e.iov = d.iov /\ e.rbuf = d.rbuf /\ e.noreply = d.noreply /\ e.proto = d.proto /\ e.state = x /\ e.cmd = "none"
        /\ e.write_and_go = d.write_and_go /\ e.sbytes = d.sbytes /\ e.rlbytes = d.rlbytes
    BY <1>2, <2>1 DEF ConnFields
  <2>3. d.ileft = 0 /\ ~(d.noreply /\ d.proto # "binary") /\ d.ilist \in Seq(DOMAIN store.item)
    <3>1. ~(d.ileft > 0) /\ d.ilist \in Seq(DOMAIN store.item) /\ d.ileft \in 0 .. Len(d.ilist)
      BY <1>2 DEF Fine
    <3> QED BY <1>2, <3>1 DEF Fine
  <2>4. Plain(d.iov)
    BY <1>2 DEF Fine, PieceOK, Plain, Collecting
  <2>5. Bare(e, DOMAIN store.item)
    <3>1. x \in {"parse_cmd", "waiting"}
      BY <2>1
    <3> QED BY <1>2, <2>2, <2>3, <2>4, <3>1 DEF Bare, Loose, Collecting, Fine
  <2>6. e.rbuf \in Seq(UnitsOf(reqs[c])) /\ conn[c].state # "hung" /\ Only(conn, conn', c, e)
    BY <1>1, <1>2, <2>1, <2>2, SetIs
  <2>7. CASE d.item = None
    <3>1. Bare(conn[c], DOMAIN store.item)
      BY <1>1, <1>2, <2>7, QuietState
    <3>2. store' = store
      BY <2>1, <2>7
    <3> QED BY <1>2, <2>5, <2>6, <3>1, <3>2, BareStays
  <2>8. CASE d.item # None
    <3>1. PICK i : i = d.item
      OBVIOUS
    <3>2. i \in DOMAIN store.item
      BY <1>2, <2>8, <3>1 DEF Fine
    <3>3. Hand(d, i)
      BY <1>2, <2>3, <2>8, <3>1 DEF Hand, Collecting
    <3>4. \A j \in DOMAIN store.item : Mine(conn[c], j) = IF j = i THEN 1 ELSE 0
      <4>1. \A j : j # None => Mine(d, j) = IF j = i THEN 1 ELSE 0
        BY <3>3, OneHeld
      <4>2. \A j \in DOMAIN store.item : j # None
        BY <1>2, StoreAssumption DEF StoreOK
      <4> QED BY <1>1, <4>1, <4>2
    <3>5. Net(store, i) >= 1
      BY <3>2, <3>4, MineNet
    <3>6. store' = do_item_remove(store, i)
      BY <2>1, <2>8, <3>1
    <3>7. Goes(store, store', {i}) /\ Shift(store, store', i, -1)
      BY <1>2, <3>2, <3>5, <3>6, RemoveGoes
    <3> QED BY <1>2, <2>5, <2>6, <3>4, <3>7, GiveStep
  <2> QED BY <2>7, <2>8
<1>4. CASE ~(d.nreqs > 0)
  <2>1. PICK e, v : v = YieldEvent(d) /\ e = [d EXCEPT !.ev = v] /\ Set(c, e) /\ UNCHANGED store
    BY <1>1, <1>4 DEF NewCmd
  <2>2. Alike(conn[c], e) /\ e.rbuf = d.rbuf
    BY <1>1, <1>2, <2>1 DEF Alike, ConnFields
  <2> QED BY <1>2, <2>1, <2>2, SetIs, AlikeStep
<1> QED BY <1>3, <1>4

LEMMA WaitingClean == ASSUME Clean, Counts, NEW c \in Conns, Waiting(c) PROVE Clean'
<1>1. PICK d, e : d = conn[c] /\ e = [d EXCEPT !.ev = "read", !.state = "read"]
  OBVIOUS
<1>2. d.state = "waiting" /\ d.purge = None /\ Set(c, e) /\ UNCHANGED <<store, seen, sock, reqs, script, lost>>
  BY <1>1 DEF Waiting, InState, Driving, net, client
<1>3. d.item = None
  BY <1>1, <1>2 DEF Clean, Fine
<1>4. /\ Bare(d, DOMAIN store.item) /\ ~(d.noreply /\ d.proto # "binary")
      /\ DOMAIN d = ConnFields /\ d.rbuf \in Seq(UnitsOf(reqs[c]))
  BY <1>1, <1>2, <1>3, QuietState
<1>5. /\ DOMAIN e = ConnFields /\ e.ilist = d.ilist /\ e.item = d.item /\ e.purge = d.purge /\ e.ileft = d.ileft
      /\ e.iov = d.iov /\ e.rbuf = d.rbuf /\ e.noreply = d.noreply /\ e.proto = d.proto /\ e.state = "read" /\ e.cmd = d.cmd
      /\ e.write_and_go = d.write_and_go /\ e.sbytes = d.sbytes /\ e.rlbytes = d.rlbytes
  BY <1>1, <1>4 DEF ConnFields
<1>6. Bare(e, DOMAIN store.item)
  BY <1>2, <1>4, <1>5 DEF Bare, Loose, Collecting
<1> QED BY <1>1, <1>2, <1>4, <1>5, <1>6, SetIs, BareStays

LEMMA ReadClean == ASSUME Clean, Counts, NEW c \in Conns, Read(c) PROVE Clean'
<1>1. PICK d, w, x, b, e : /\ d = conn[c] /\ w = d.rbuf \o sock[c] /\ x \in {"parse_cmd", "closing", "waiting"}
                           /\ b \in {d.rbuf, w} /\ e = [d EXCEPT !.rbuf = b, !.state = x] /\ Set(c, e)
  <2>1. DOMAIN conn[c] = ConnFields
    BY DEF Clean, Fine
  <2>2. CASE sock[c] # <<>>
    BY <2>2 DEF Read
  <2>3. CASE sock[c] = <<>>
    <3>1. PICK x \in {"closing", "waiting"} : Set(c, [conn[c] EXCEPT !.state = x])
      BY <2>3 DEF Read, conn_set_state
    <3>2. [conn[c] EXCEPT !.rbuf = conn[c].rbuf, !.state = x] = [conn[c] EXCEPT !.state = x]
      BY <2>1 DEF ConnFields
    <3> QED BY <3>1, <3>2
  <2> QED BY <2>2, <2>3
<1>2. d.state = "read" /\ d.purge = None /\ UNCHANGED <<store, seen, reqs, script, lost>> /\ sock' = [sock EXCEPT ![c] = <<>>]
  BY <1>1 DEF Read, InState, Driving, client
<1>3. d.item = None /\ d.cmd = "none"
  BY <1>1, <1>2 DEF Clean, Fine
<1>4. /\ Bare(d, DOMAIN store.item) /\ ~(d.noreply /\ d.proto # "binary")
      /\ DOMAIN d = ConnFields /\ d.rbuf \in Seq(UnitsOf(reqs[c])) /\ sock[c] \in Seq(UnitsOf(reqs[c]))
  BY <1>1, <1>2, <1>3, QuietState
<1>5. /\ DOMAIN e = ConnFields /\ e.ilist = d.ilist /\ e.item = d.item /\ e.purge = d.purge /\ e.ileft = d.ileft
      /\ e.iov = d.iov /\ e.rbuf = b /\ e.noreply = d.noreply /\ e.proto = d.proto /\ e.state = x /\ e.cmd = d.cmd
      /\ e.write_and_go = d.write_and_go /\ e.sbytes = d.sbytes /\ e.rlbytes = d.rlbytes
  BY <1>1, <1>4 DEF ConnFields
<1>6. Bare(e, DOMAIN store.item)
  BY <1>1, <1>3, <1>4, <1>5 DEF Bare, Loose, Collecting
<1>7. w \in Seq(UnitsOf(reqs[c]))
  BY <1>1, <1>4, ConcatProperties
<1>8. {e.rbuf, <<>>} \subseteq Seq(UnitsOf(reqs[c]))
  <2>1. PICK S : S = Seq(UnitsOf(reqs[c]))
    OBVIOUS
  <2>2. w \in S /\ d.rbuf \in S
    BY <1>4, <1>7, <2>1
  <2>3. e.rbuf = d.rbuf \/ e.rbuf = w
    BY <1>1, <1>5
  <2>4. <<>> \in S
    BY <2>1, EmptySeq
  <2> QED BY <2>1, <2>2, <2>3, <2>4
<1>9. Only(sock, sock', c, <<>>)
  <2>1. DOMAIN sock = Conns
    BY DEF Clean
  <2> QED BY <1>2, <2>1, OnlyIs
<1> QED BY <1>1, <1>2, <1>4, <1>6, <1>8, <1>9, QuietStep

LEMMA SwallowClean == ASSUME Clean, Counts, NEW c \in Conns, Swallow(c) PROVE Clean'
<1>1. PICK d : d = conn[c]
  OBVIOUS
<1>2. d.state = "swallow" /\ d.purge = None /\ UNCHANGED <<store, seen, reqs, script, lost>>
  BY <1>1 DEF Swallow, InState, Driving, client
<1>3. d.item = None
  BY <1>1, <1>2 DEF Clean, Fine
<1>4. /\ Bare(d, DOMAIN store.item) /\ ~(d.noreply /\ d.proto # "binary")
      /\ DOMAIN d = ConnFields /\ d.rbuf \in Seq(UnitsOf(reqs[c])) /\ sock[c] \in Seq(UnitsOf(reqs[c]))
  BY <1>1, <1>2, <1>3, QuietState
<1>5. DOMAIN sock = Conns
  BY DEF Clean
<1>6. Len(d.rbuf) \in Nat /\ Len(sock[c]) \in Nat /\ d.sbytes \in Nat
  BY <1>4 DEF Bare, Loose
<1>7. ASSUME NEW e, DOMAIN e = ConnFields, e.ilist = d.ilist, e.item = d.item, e.purge = d.purge, e.ileft = d.ileft, e.iov = d.iov,
             e.noreply = d.noreply, e.proto = d.proto, e.write_and_go = d.write_and_go, e.rlbytes = d.rlbytes, e.sbytes \in Nat,
             e.state \in {"swallow", "new_cmd", "closing"}, e.rbuf \in Seq(UnitsOf(reqs[c])), Set(c, e),
             NEW q, q \in Seq(UnitsOf(reqs[c])), Only(sock, sock', c, q)
      PROVE  Clean'
  <2>1. Bare(e, DOMAIN store.item)
    BY <1>4, <1>7 DEF Bare, Loose, Collecting
  <2>2. /\ Set(c, e) /\ UNCHANGED <<store, seen, reqs, script, lost>> /\ Only(sock, sock', c, q) /\ conn[c].state # "hung"
        /\ Bare(conn[c], DOMAIN store.item) /\ {e.rbuf, q} \subseteq Seq(UnitsOf(reqs[c]))
    BY <1>1, <1>2, <1>4, <1>7
  <2> QED BY <2>1, <2>2, QuietStep
<1>8. Only(sock, sock, c, sock[c])
  BY <1>5, OnlyIs
<1>9. PICK b, n : b = Least(d.sbytes, Len(d.rbuf)) /\ n = Least(d.sbytes, Len(sock[c]))
  OBVIOUS
<1>10. /\ b \in Nat /\ n \in Nat /\ d.sbytes - b \in Nat /\ d.sbytes - n \in Nat
       /\ Drop(d.rbuf, b) \in Seq(UnitsOf(reqs[c])) /\ Drop(sock[c], n) \in Seq(UnitsOf(reqs[c]))
  <2>1. b \in Nat /\ n \in Nat /\ d.sbytes - b \in Nat /\ d.sbytes - n \in Nat
    BY <1>6, <1>9 DEF Least
  <2> QED BY <1>4, <2>1, DropIs
<1>11. \/ Set(c, [d EXCEPT !.state = "new_cmd"]) /\ sock' = sock
       \/ Set(c, [d EXCEPT !.sbytes = d.sbytes - b, !.rbuf = Drop(d.rbuf, b)]) /\ sock' = sock
       \/ Set(c, [d EXCEPT !.sbytes = d.sbytes - n]) /\ sock' = [sock EXCEPT ![c] = Drop(sock[c], n)]
       \/ Set(c, [d EXCEPT !.state = "closing"]) /\ sock' = sock
       \/ Set(c, [d EXCEPT !.ev = "read"]) /\ sock' = sock
  BY <1>1, <1>9 DEF Swallow, conn_set_state
<1>12. CASE \E x \in {"new_cmd", "closing"} : Set(c, [d EXCEPT !.state = x]) /\ sock' = sock
  <2>1. PICK x, e : x \in {"new_cmd", "closing"} /\ e = [d EXCEPT !.state = x] /\ Set(c, e) /\ sock' = sock
    BY <1>12
  <2> QED BY <1>4, <1>6, <1>7, <1>8, <2>1 DEF ConnFields
<1>13. CASE Set(c, [d EXCEPT !.sbytes = d.sbytes - b, !.rbuf = Drop(d.rbuf, b)]) /\ sock' = sock
  <2>1. PICK e, y, z : y = d.sbytes - b /\ z = Drop(d.rbuf, b) /\ e = [d EXCEPT !.sbytes = y, !.rbuf = z] /\ Set(c, e) /\ sock' = sock
    BY <1>13
  <2> QED BY <1>2, <1>4, <1>7, <1>8, <1>10, <2>1 DEF ConnFields
<1>14. CASE Set(c, [d EXCEPT !.sbytes = d.sbytes - n]) /\ sock' = [sock EXCEPT ![c] = Drop(sock[c], n)]
  <2>1. PICK e, y, z : y = d.sbytes - n /\ z = Drop(sock[c], n) /\ e = [d EXCEPT !.sbytes = y] /\ Set(c, e) /\ sock' = [sock EXCEPT ![c] = z]
    BY <1>14
  <2>2. Only(sock, sock', c, z)
    BY <1>5, <2>1, OnlyIs
  <2> QED BY <1>2, <1>4, <1>7, <1>10, <2>1, <2>2 DEF ConnFields
<1>15. CASE Set(c, [d EXCEPT !.ev = "read"]) /\ sock' = sock
  <2>1. PICK e : e = [d EXCEPT !.ev = "read"] /\ Set(c, e) /\ sock' = sock
    BY <1>15
  <2> QED BY <1>2, <1>4, <1>6, <1>7, <1>8, <2>1 DEF ConnFields
<1> QED BY <1>11, <1>12, <1>13, <1>14, <1>15

\* A step of a client: requests are added, and units go from the script to the socket.
LEMMA ClientStep ==
    ASSUME Clean, UNCHANGED <<store, conn, seen, lost>>, NEW c \in Conns,
           NEW rs, NEW u, NEW q, Only(reqs, reqs', c, rs), Only(script, script', c, u), Only(sock, sock', c, q),
           rs \in Seq(Requests), {conn[c].rbuf, u, q} \subseteq Seq(UnitsOf(rs)),
           DOMAIN reqs[c] \subseteq DOMAIN rs, \A n \in DOMAIN reqs[c] : rs[n] = reqs[c][n]
    PROVE  Clean'
<1>1. /\ DOMAIN conn' = Conns /\ DOMAIN reqs' = Conns /\ DOMAIN seen' = Conns /\ DOMAIN sock' = Conns /\ DOMAIN script' = Conns
      /\ StoreOK(store') /\ store' = store /\ conn' = conn /\ seen' = seen /\ lost' = lost
  BY DEF Clean, Only
<1>2. reqs'[c] = rs /\ script'[c] = u /\ sock'[c] = q
      /\ \A d \in Conns : d # c => reqs'[d] = reqs[d] /\ script'[d] = script[d] /\ sock'[d] = sock[d]
  BY DEF Only
<1>3. ASSUME NEW d \in Conns PROVE Fine(conn'[d], store', reqs'[d], seen'[d]) /\ Known(store', seen'[d]) /\ StreamOK(d)'
  <2>1. Fine(conn[d], store, reqs[d], seen[d]) /\ Known(store, seen[d]) /\ StreamOK(d)
    BY DEF Clean
  <2>2. Fine(conn[d], store, reqs'[d], seen[d])
    <3>1. CASE d = c
      BY <1>2, <2>1, <3>1 DEF Fine
    <3>2. CASE d # c
      BY <1>2, <2>1, <3>2
    <3> QED BY <3>1, <3>2
  <2>3. reqs'[d] \in Seq(Requests) /\ {conn'[d].rbuf, sock'[d], script'[d]} \subseteq Seq(UnitsOf(reqs'[d]))
    BY <1>1, <1>2, <2>1 DEF StreamOK, UnitsOf
  <2> QED BY <1>1, <2>1, <2>2, <2>3 DEF StreamOK, UnitsOf
<1>4. \A i : References(i)' = References(i)
  BY <1>1 DEF References
<1>5. ASSUME NEW i \in DOMAIN store'.item PROVE Exact(i)'
  <2>1. Exact(i)
    BY <1>1 DEF Clean
  <2>2. Net(store', i) = Net(store, i) /\ lost'[i] = lost[i]
    BY <1>1
  <2> QED BY <1>1, <1>4, <2>1, <2>2 DEF Exact
<1> QED BY <1>1, <1>3, <1>5 DEF Clean

LEMMA HangUpClean == ASSUME Clean, NEW c \in Conns, HangUp(c) PROVE Clean'
<1>1. UNCHANGED <<store, conn, seen, lost, reqs, sock>> /\ script' = [script EXCEPT ![c] = <<>>]
  BY DEF HangUp, client
<1>2. Only(reqs, reqs', c, reqs[c]) /\ Only(script, script', c, <<>>) /\ Only(sock, sock', c, sock[c])
  BY <1>1, OnlyIs DEF Clean
<1>3. reqs[c] \in Seq(Requests) /\ {conn[c].rbuf, <<>>, sock[c]} \subseteq Seq(UnitsOf(reqs[c]))
  <2>1. <<>> \in Seq(UnitsOf(reqs[c]))
    OBVIOUS
  <2> QED BY <2>1, BufferIs
<1> QED BY <1>1, <1>2, <1>3, ClientStep

LEMMA ArriveClean == ASSUME Clean, NEW c \in Conns, Arrive(c) PROVE Clean'
<1>1. PICK n \in 1 .. Len(script[c]) : /\ sock' = [sock EXCEPT ![c] = sock[c] \o SubSeq(script[c], 1, n)]
                                       /\ script' = [script EXCEPT ![c] = Drop(script[c], n)]
  BY DEF Arrive
<1>2. PICK T, a, u, q : T = UnitsOf(reqs[c]) /\ a = SubSeq(script[c], 1, n) /\ u = Drop(script[c], n) /\ q = sock[c] \o a
  OBVIOUS
<1>3. UNCHANGED <<store, conn, seen, lost, reqs>>
  BY DEF Arrive, client
<1>4. Only(reqs, reqs', c, reqs[c]) /\ Only(script, script', c, u) /\ Only(sock, sock', c, q)
  BY <1>1, <1>2, <1>3, OnlyIs DEF Clean
<1>5. reqs[c] \in Seq(Requests) /\ conn[c].rbuf \in Seq(T) /\ script[c] \in Seq(T) /\ sock[c] \in Seq(T)
  BY <1>2, BufferIs
<1>6. n \in Nat /\ n <= Len(script[c])
  BY <1>1, <1>5
<1>7. a \in Seq(T)
  <2>1. \A i \in 1 .. n : script[c][i] \in T
    BY <1>5, <1>6
  <2> QED BY <1>2, <2>1, <1>5, <1>6, SubSeqProperties
<1>8. {conn[c].rbuf, u, q} \subseteq Seq(UnitsOf(reqs[c]))
  <2>1. u \in Seq(T)
    BY <1>2, <1>5, <1>6, DropIs
  <2>2. q \in Seq(T)
    BY <1>2, <1>5, <1>7, ConcatProperties
  <2> QED BY <1>2, <1>5, <2>1, <2>2
<1> QED BY <1>3, <1>4, <1>5, <1>8, ClientStep

LEMMA UnitsAre ==
    ASSUME NEW r \in Requests, NEW rs, NEW n \in DOMAIN rs
    PROVE  Units(r, n) \in Seq(UnitsOf(rs))
<1>1. r.frags \in Nat /\ r.parts \in Nat
  BY MenusAssumption
<1>2. PICK T, p, m : T = UnitsOf(rs) /\ p = r.parts /\ m = r.frags
  OBVIOUS
<1>3. \A part \in {"frag", "line", "hdr", "key", "data"} : Unit(n, part) \in T
  BY <1>2 DEF Unit, UnitsOf
<1>4. PICK a, b, d : a = [i \in 1 .. m |-> Unit(n, "frag")] /\ b = [i \in 1 .. p |-> Unit(n, "data")] /\ d = <<>>
  OBVIOUS
<1>5. a \in Seq(T) /\ b \in Seq(T) /\ d \in Seq(T) /\ \A part \in {"frag", "line", "hdr", "key", "data"} : <<Unit(n, part)>> \in Seq(T)
  <2>1. Unit(n, "frag") \in T /\ Unit(n, "data") \in T
    BY <1>3
  <2>2. PICK f, g : f = Unit(n, "frag") /\ g = Unit(n, "data")
    OBVIOUS
  <2>3. a \in Seq(T) /\ b \in Seq(T) /\ d \in Seq(T)
    <3>1. f \in T /\ g \in T /\ m \in Nat /\ p \in Nat
      BY <1>1, <1>2, <2>1, <2>2
    <3>2. a = [i \in 1 .. m |-> f] /\ b = [i \in 1 .. p |-> g] /\ d = <<>>
      BY <1>4, <2>2
    <3>3. \A v \in T, n1 \in Nat : [i \in 1 .. n1 |-> v] \in Seq(T)
      OBVIOUS
    <3> QED BY <3>1, <3>2, <3>3
  <2>4. \A v \in T : <<v>> \in Seq(T)
    OBVIOUS
  <2> QED BY <1>3, <2>3, <2>4
<1>6. \A x, y : x \in Seq(T) /\ y \in Seq(T) => x \o y \in Seq(T)
  BY ConcatProperties
<1>7. DataUnits(r, n) = b
  BY <1>2, <1>4 DEF DataUnits
<1>8. CASE r.proto = "ascii"
  <2>1. PICK z : z = IF r.op \in StoreOps THEN b ELSE d
    OBVIOUS
  <2>2. Units(r, n) = a \o <<Unit(n, "line")>> \o z
    BY <1>2, <1>4, <1>7, <1>8, <2>1 DEF Units
  <2>3. z \in Seq(T) /\ <<Unit(n, "line")>> \in Seq(T)
    BY <1>5, <2>1
  <2>4. a \o <<Unit(n, "line")>> \in Seq(T)
    BY <1>5, <1>6, <2>3
  <2> QED BY <1>2, <1>6, <2>2, <2>3, <2>4
<1>9. CASE r.proto # "ascii"
  <2>1. PICK y, z : /\ z = IF r.op \in BodyOps \cup {"unknown"} THEN b ELSE d
                    /\ y = IF r.op \in NoKeyOps THEN d ELSE <<Unit(n, "key")>>
    OBVIOUS
  <2>2. Units(r, n) = a \o <<Unit(n, "hdr")>> \o y \o z
    BY <1>2, <1>4, <1>7, <1>9, <2>1 DEF Units
  <2>3. y \in Seq(T) /\ z \in Seq(T) /\ <<Unit(n, "hdr")>> \in Seq(T)
    BY <1>5, <2>1
  <2>4. a \o <<Unit(n, "hdr")>> \in Seq(T)
    BY <1>5, <1>6, <2>3
  <2>5. a \o <<Unit(n, "hdr")>> \o y \in Seq(T)
    BY <1>6, <2>3, <2>4
  <2> QED BY <1>2, <1>6, <2>2, <2>3, <2>5
<1> QED BY <1>8, <1>9

LEMMA SendClean == ASSUME Clean, menu \in DOMAIN Menus, NEW c \in Conns, Send(c) PROVE Clean'
<1>1. PICK r \in Menus[menu][c][Len(reqs[c]) + 1] :
         /\ reqs' = [reqs EXCEPT ![c] = Append(reqs[c], r)]
         /\ script' = [script EXCEPT ![c] = Units(r, Len(reqs[c]) + 1)]
  BY DEF Send
<1>2. PICK rs, n, u : rs = Append(reqs[c], r) /\ n = Len(reqs[c]) + 1 /\ u = Units(r, n)
  OBVIOUS
<1>3. UNCHANGED <<store, conn, seen, lost, sock>>
  BY DEF Send, client
<1>4. reqs[c] \in Seq(Requests) /\ conn[c].rbuf \in Seq(UnitsOf(reqs[c])) /\ sock[c] \in Seq(UnitsOf(reqs[c]))
  BY BufferIs
<1>5. r \in Requests
  <2>1. Menus[menu][c] \in Seq(SUBSET Requests) /\ Len(reqs[c]) < Len(Menus[menu][c]) /\ Len(reqs[c]) \in Nat
    BY <1>4, MenusAssumption DEF Send
  <2>2. Menus[menu][c][Len(reqs[c]) + 1] \in SUBSET Requests
    BY <2>1
  <2> QED BY <1>1, <2>2
<1>6. /\ rs \in Seq(Requests) /\ n \in DOMAIN rs /\ DOMAIN reqs[c] \subseteq DOMAIN rs
      /\ \A m \in DOMAIN reqs[c] : rs[m] = reqs[c][m]
  BY <1>2, <1>4, <1>5
<1>7. UnitsOf(reqs[c]) \subseteq UnitsOf(rs)
  BY <1>6 DEF UnitsOf
<1>8. {conn[c].rbuf, u, sock[c]} \subseteq Seq(UnitsOf(rs))
  <2>1. u \in Seq(UnitsOf(rs))
    BY <1>2, <1>5, <1>6, UnitsAre
  <2>2. \A q : q \in Seq(UnitsOf(reqs[c])) => q \in Seq(UnitsOf(rs))
    BY <1>7
  <2> QED BY <1>4, <2>1, <2>2
<1>9. Only(reqs, reqs', c, rs) /\ Only(script, script', c, u) /\ Only(sock, sock', c, sock[c])
  BY <1>1, <1>2, <1>3, OnlyIs DEF Clean
<1> QED BY <1>3, <1>6, <1>8, <1>9, ClientStep

LEMMA TickClean == ASSUME Clean, Tick PROVE Clean'
<1>1. PICK s, t : s = store /\ t = store'
  OBVIOUS
<1>2. /\ UNCHANGED <<conn, reqs, script, sock, seen, lost>> /\ StoreOK(s)
  BY <1>1 DEF Tick, net, client, Clean
<1>3. t = [s EXCEPT !.now = s.now + 1]
  BY <1>1 DEF Tick
<1>4. Goes(s, t, {}) /\ Shift(s, t, None, 0)
  BY <1>2, <1>3, TickGoes
<1>5. t.item = s.item /\ t.link = s.link /\ StoreOK(t) /\ DOMAIN t.item = DOMAIN s.item /\ Ages(s, t)
  BY <1>2, <1>3, <1>4 DEF StoreOK, StoreFields, Goes
<1>6. \A j \in DOMAIN s.item : Net(t, j) = Net(s, j) /\ (Lone(s, j) => Lone(t, j))
  BY <1>5 DEF Net, Lone, Linked
<1>7. ASSUME NEW d \in Conns PROVE Fine(conn'[d], store', reqs'[d], seen'[d]) /\ Known(store', seen'[d]) /\ StreamOK(d)'
  <2>1. Fine(conn[d], s, reqs[d], seen[d]) /\ Known(s, seen[d]) /\ StreamOK(d)
    BY <1>1 DEF Clean
  <2>2. Fine(conn[d], t, reqs[d], seen[d])
    BY <1>2, <1>5, <1>6, <2>1, FineStays
  <2>3. Known(t, seen[d])
    BY <1>2, <1>5, <2>1, KnownStays
  <2> QED BY <1>1, <1>2, <2>1, <2>2, <2>3 DEF StreamOK
<1>8. \A i : References(i)' = References(i)
  BY <1>2 DEF References
<1>9. ASSUME NEW i \in DOMAIN store'.item PROVE Exact(i)'
  <2>1. Exact(i)
    BY <1>1, <1>5 DEF Clean
  <2>2. Net(store', i) = Net(store, i) /\ lost'[i] = lost[i]
    BY <1>1, <1>2, <1>5, <1>6
  <2> QED BY <1>2, <1>8, <2>1, <2>2 DEF Exact
<1>10. /\ DOMAIN conn' = Conns /\ DOMAIN reqs' = Conns /\ DOMAIN seen' = Conns /\ DOMAIN sock' = Conns /\ DOMAIN script' = Conns
  BY <1>2 DEF Clean
<1> QED BY <1>1, <1>5, <1>7, <1>9, <1>10 DEF Clean

LEMMA SideThreadClean == ASSUME Clean, Counts, NEW c \in Conns, SideThread(c) PROVE Clean'
<1>1. PICK d : d = conn[c]
  OBVIOUS
<1>2. d.state = "watch" /\ UNCHANGED <<store, seen, sock, reqs, script, lost>>
  BY <1>1 DEF SideThread, net
<1>3. d.item = None /\ d.purge = None
  BY <1>1, <1>2 DEF Clean, Fine
<1>4. /\ Bare(d, DOMAIN store.item) /\ ~(d.noreply /\ d.proto # "binary")
      /\ DOMAIN d = ConnFields /\ d.rbuf \in Seq(UnitsOf(reqs[c]))
  BY <1>1, <1>2, <1>3, QuietState
<1>5. PICK e, v, x : x \in {"new_cmd", "closed"} /\ e = [d EXCEPT !.state = x, !.ev = v] /\ Set(c, e)
  <2>1. [d EXCEPT !.state = "closed", !.ev = d.ev] = [d EXCEPT !.state = "closed"]
    BY <1>4 DEF ConnFields
  <2> QED BY <1>1, <2>1 DEF SideThread
<1>6. /\ DOMAIN e = ConnFields /\ e.ilist = d.ilist /\ e.item = d.item /\ e.purge = d.purge /\ e.ileft = d.ileft
      /\ e.iov = d.iov /\ e.rbuf = d.rbuf /\ e.noreply = d.noreply /\ e.proto = d.proto /\ e.state = x /\ e.cmd = d.cmd
      /\ e.write_and_go = d.write_and_go /\ e.sbytes = d.sbytes /\ e.rlbytes = d.rlbytes
  BY <1>4, <1>5 DEF ConnFields
<1>7. Bare(e, DOMAIN store.item)
  BY <1>4, <1>5, <1>6 DEF Bare, Loose, Collecting
<1> QED BY <1>1, <1>2, <1>4, <1>5, <1>6, <1>7, SetIs, BareStays

-----------------------------------------------------------------------------
(* conn_nread, and the end of a connection.                                *)

LEMMA NreadStep ==
    ASSUME Clean, Counts, NEW c \in Conns, conn[c].state = "nread", NEW e, Set(c, e), Alike(conn[c], e),
           NEW u, store' = Filled(c, u), NEW q, Only(sock, sock', c, q), UNCHANGED <<seen, reqs, script, lost>>,
           {e.rbuf, q} \subseteq Seq(UnitsOf(reqs[c]))
    PROVE  Clean'
<1>1. PICK d : d = conn[c]
  OBVIOUS
<1>2. /\ Fine(d, store, reqs[c], seen[c]) /\ StoreOK(store) /\ Known(store, seen[c]) /\ DOMAIN seen = Conns
      /\ DOMAIN conn = Conns
  BY <1>1 DEF Clean
<1>3. Only(seen, seen', c, seen[c]) /\ Only(conn, conn', c, e)
  BY <1>2, OnlyIs, SetIs
<1>4. Fine(e, store, reqs[c], seen[c]) /\ \A j : Mine(e, j) = Mine(d, j)
  BY <1>1, <1>2, AlikeIs
<1>5. CASE d.item = None
  <2>1. store' = store
    BY <1>1, <1>5 DEF Filled
  <2> QED BY <1>1, <1>2, <1>3, <1>4, <2>1, StillStep
<1>6. CASE d.item # None
  <2>1. PICK i, v, h, g : i = d.item /\ v = reqs[c][u.req].val /\ h = store.item[i] /\ g = [h EXCEPT !.val = v]
    OBVIOUS
  <2>2. /\ i \in DOMAIN store.item /\ Hand(d, i) /\ Lone(store, i) /\ h.key \in Keys
        /\ \A j \in DOMAIN store.item : Mine(d, j) = IF j = i THEN 1 ELSE 0
        /\ Plain(d.iov) /\ DOMAIN d = ConnFields /\ d.ilist \in Seq(DOMAIN store.item)
        /\ d.ileft = 0 /\ d.purge = None /\ ~Collecting(d)
    BY <1>1, <1>6, <2>1, FilledIs
  <2>3. ItemOK(h)
    BY <1>2, <2>1, <2>2 DEF StoreOK
  <2>4. ItemOK(g) /\ g.ref = h.ref /\ g.key = h.key /\ g.cas = h.cas
    BY <2>1, <2>3 DEF ItemOK, ItemFields
  <2>5. store' = Put(store, i, g)
    BY <1>1, <1>2, <1>6, <2>1 DEF Filled, Put, StoreOK, StoreFields
  <2>6. PICK t : t = store'
    OBVIOUS
  <2>7. Changed(store, i, g, t)
    <3>1. ~Linked(store, i)
      BY <2>2 DEF Lone
    <3> QED BY <1>2, <2>2, <2>4, <2>5, <2>6, <3>1, PutIs
  <2>8. /\ StoreOK(t) /\ DOMAIN t.item = DOMAIN store.item /\ Ages(store, t) /\ t.item[i] = g
        /\ \A j \in DOMAIN store.item : Net(t, j) = Net(store, j) /\ (j # i => t.item[j] = store.item[j])
        /\ \A j \in DOMAIN store.item : Linked(t, j) = Linked(store, j)
    <3>1. Net(store, i) \in Nat /\ h.ref \in Nat
      BY <1>2, <2>2, <2>3, NetIs DEF ItemOK
    <3> QED BY <2>1, <2>4, <2>7, <3>1 DEF Changed
  <2>9. \A j \in DOMAIN store.item : Lone(store, j) => Lone(t, j)
    BY <2>8 DEF Lone
  <2>10. Moves(store, t, {i})
    <3>1. Lones(store, t, {i})
      BY <2>2, <2>4, <2>8, <2>9, <2>1 DEF Lones
    <3> QED BY <2>1, <2>2, <2>8, <3>1 DEF Moves
  <2>11. /\ e.cmd = "cas" => t.item[i].cas \in {0, seen[c].cas}
         /\ e.proto = "binary" => e.req \in DOMAIN reqs[c] /\ reqs[c][e.req].keys[1] \in Keys
    <3>1. d.cmd = e.cmd /\ d.proto = e.proto /\ d.req = e.req
      BY <1>1 DEF Alike
    <3>2. d.cmd = "cas" => h.cas \in {0, seen[c].cas}
      BY <1>1, <1>2, <1>6, <2>1 DEF Fine
    <3>3. d.proto = "binary" => d.substate \in {"set_value", "sasl_auth_data"}
      BY <1>1, <1>2, <1>6 DEF Fine, Filling
    <3>4. d.proto = "binary" => d.req \in DOMAIN reqs[c] /\ reqs[c][d.req].keys[1] \in Keys
      BY <1>1, <1>2, <3>3 DEF Fine
    <3> QED BY <2>4, <2>8, <3>1, <3>2, <3>4
  <2>12. /\ DOMAIN e = ConnFields /\ e.ilist \in Seq(DOMAIN t.item) /\ e.item = i /\ e.purge = None /\ e.ileft = 0
         /\ e.write_and_go \in {"new_cmd", "swallow", "closing"} /\ {e.sbytes, e.rlbytes} \subseteq Nat
         /\ Plain(e.iov) /\ e.state = "nread" /\ e.proto \in {"ascii", "binary"} /\ Filling(e)
    <3>1. {d.sbytes, d.rlbytes} \subseteq Nat /\ d.write_and_go \in {"new_cmd", "swallow", "closing"}
          /\ d.proto \in {"ascii", "binary"} /\ Filling(d)
      BY <1>1, <1>2, <1>6 DEF Fine
    <3> QED BY <1>1, <2>1, <2>2, <2>8, <3>1 DEF Alike, Filling
  <2>13. Lone(t, i) /\ t.item[i].key \in Keys /\ i \in DOMAIN t.item
    BY <2>2, <2>4, <2>8, <2>9
  <2>14. Fine(e, t, reqs[c], seen[c])
    BY <2>8, <2>11, <2>12, <2>13, FillIs
  <2>15. Balance(store, store', lost, lost', conn[c], e)
    <3>1. \A j \in DOMAIN store.item : Net(store, j) \in Nat /\ lost[j] \in Nat /\ Mine(d, j) \in Nat
      BY <1>1, <1>2, NetIs, MineNet DEF Counts, StoreOK
    <3>2. lost' = lost /\ conn[c].state # "hung"
      OBVIOUS
    <3> QED BY <1>1, <1>4, <2>6, <2>8, <3>1, <3>2 DEF Balance
  <2>16. Known(t, seen[c])
    BY <1>2, <2>8, KnownStays
  <2>17. \A j \in DOMAIN store.item : j \in {i} => Mine(conn[c], j) >= 1
    BY <1>1, <2>2
  <2>18. lost \in [Items -> Nat] /\ lost' \in [Items -> Nat] /\ reqs' = reqs /\ script' = script
    BY DEF Counts
  <2>19. Moves(store, store', {i}) /\ Fine(e, store', reqs[c], seen[c]) /\ Known(store', seen[c])
    BY <2>6, <2>10, <2>14, <2>16
  <2> QED BY <1>3, <2>15, <2>17, <2>18, <2>19, Frame
<1> QED BY <1>5, <1>6

LEMMA NreadBufferedClean == ASSUME Clean, Counts, NEW c \in Conns, NreadBuffered(c) PROVE Clean'
<1>1. PICK d, n : d = conn[c] /\ n = Least(d.rlbytes, Len(d.rbuf))
  OBVIOUS
<1>2. PICK u, y, b, z : u = d.rbuf[n] /\ y = d.rlbytes - n /\ b = Drop(d.rbuf, n) /\ z = reqs[c][u.req].crlf
  OBVIOUS
<1>3. PICK e : e = [d EXCEPT !.rlbytes = y, !.rbuf = b, !.crlf = z]
  OBVIOUS
<1>4. /\ d.state = "nread" /\ Set(c, e) /\ store' = Filled(c, u) /\ UNCHANGED <<seen, sock, reqs, script, lost>>
  BY <1>1, <1>2, <1>3 DEF NreadBuffered, InState, Driving, net, client
<1>5. /\ d.rbuf \in Seq(UnitsOf(reqs[c])) /\ sock[c] \in Seq(UnitsOf(reqs[c])) /\ DOMAIN sock = Conns
      /\ d.rlbytes \in Nat /\ DOMAIN d = ConnFields
  BY <1>1, BufferIs DEF Clean, Fine
<1>6. n \in Nat /\ y \in Nat
  <2>1. Len(d.rbuf) \in Nat /\ d.rlbytes \in Nat
    BY <1>5
  <2>2. n \in Nat /\ n <= d.rlbytes
    BY <1>1, <2>1 DEF Least
  <2>3. y = d.rlbytes - n
    BY <1>2
  <2> QED BY <2>1, <2>2, <2>3
<1>7. b \in Seq(UnitsOf(reqs[c]))
  BY <1>2, <1>5, <1>6, DropIs
<1>8. Alike(d, e) /\ e.rbuf = b
  BY <1>2, <1>3, <1>5, <1>6 DEF Alike, ConnFields
<1>9. Only(sock, sock', c, sock[c])
  BY <1>4, <1>5, OnlyIs
<1> QED BY <1>1, <1>4, <1>5, <1>7, <1>8, <1>9, NreadStep

\* A connection that gives up keeps its references until conn_close.
LEMMA CloseIs ==
    ASSUME NEW d, NEW s, NEW rs, NEW sn, Fine(d, s, rs, sn), d.purge = None, ~Collecting(d)
    PROVE  /\ Fine(conn_set_state(d, "closing"), s, rs, sn)
           /\ \A j : Mine(conn_set_state(d, "closing"), j) = Mine(d, j)
           /\ conn_set_state(d, "closing").rbuf = d.rbuf
<1>1. PICK e : e = conn_set_state(d, "closing")
  OBVIOUS
<1>2. DOMAIN d = ConnFields
  BY DEF Fine
<1>3. e = [d EXCEPT !.state = "closing"]
  BY <1>1 DEF conn_set_state
<1>4. /\ DOMAIN e = ConnFields /\ e.ilist = d.ilist /\ e.item = d.item /\ e.purge = d.purge /\ e.ileft = d.ileft
      /\ e.iov = d.iov /\ e.rbuf = d.rbuf /\ e.noreply = d.noreply /\ e.proto = d.proto /\ e.state = "closing" /\ e.cmd = d.cmd
      /\ e.write_and_go = d.write_and_go /\ e.sbytes = d.sbytes /\ e.rlbytes = d.rlbytes /\ e.hits = d.hits /\ e.todo = d.todo
  BY <1>2, <1>3 DEF ConnFields
<1>5. ~Collecting(e)
  BY <1>4 DEF Collecting
<1>6. Places(e) = Places(d) /\ \A n : RefAt(e, n) = RefAt(d, n)
  BY <1>4, <1>5 DEF Places, RefAt
<1>7. \A j : Mine(e, j) = Mine(d, j)
  BY <1>6, SameHands
<1>8. \A p : PieceOK(p, d, s) => PieceOK(p, e, s)
  BY <1>4 DEF PieceOK
<1>9. Fine(e, s, rs, sn)
  BY <1>4, <1>5, <1>8 DEF Fine
<1> QED BY <1>1, <1>4, <1>7, <1>9

LEMMA CloseStep ==
    ASSUME Clean, Counts, NEW c \in Conns, NEW d, Fine(d, store, reqs[c], seen[c]), d.purge = None, ~Collecting(d),
           \A j \in DOMAIN store.item : Mine(d, j) = Mine(conn[c], j), d.rbuf \in Seq(UnitsOf(reqs[c])), conn[c].state # "hung",
           Set(c, conn_set_state(d, "closing")), UNCHANGED <<store, seen, sock, reqs, script, lost>>
    PROVE  Clean'
<1>1. PICK e : e = conn_set_state(d, "closing")
  OBVIOUS
<1>2. Fine(e, store, reqs[c], seen[c]) /\ (\A j : Mine(e, j) = Mine(d, j)) /\ e.rbuf = d.rbuf
  BY <1>1, CloseIs
<1>3. Only(conn, conn', c, e)
  BY <1>1, SetIs
<1> QED BY <1>2, <1>3, CalmStep

LEMMA NreadSocketClean == ASSUME Clean, Counts, NEW c \in Conns, NreadSocket(c) PROVE Clean'
<1>1. PICK d, n : d = conn[c] /\ n = Least(d.rlbytes, Len(sock[c]))
  OBVIOUS
<1>2. PICK e, u, y, b, z : /\ u = sock[c][n] /\ y = d.rlbytes - n /\ b = Drop(sock[c], n) /\ z = reqs[c][u.req].crlf
                           /\ e = [d EXCEPT !.rlbytes = y, !.crlf = z]
  OBVIOUS
<1>3. /\ d.state = "nread" /\ d.purge = None /\ UNCHANGED <<seen, reqs, script, lost>>
      /\ \/ Set(c, e) /\ store' = Filled(c, u) /\ sock' = [sock EXCEPT ![c] = b]
         \/ Set(c, conn_set_state(d, "closing")) /\ UNCHANGED <<store, sock>>
         \/ Set(c, [d EXCEPT !.ev = "read"]) /\ UNCHANGED <<store, sock>>
  BY <1>1, <1>2 DEF NreadSocket, InState, Driving, client
<1>4. /\ d.rbuf \in Seq(UnitsOf(reqs[c])) /\ sock[c] \in Seq(UnitsOf(reqs[c])) /\ DOMAIN sock = Conns
      /\ d.rlbytes \in Nat /\ DOMAIN d = ConnFields /\ Fine(d, store, reqs[c], seen[c])
  BY <1>1, BufferIs DEF Clean, Fine
<1>5. n \in Nat /\ y \in Nat
  <2>1. Len(sock[c]) \in Nat /\ d.rlbytes \in Nat
    BY <1>4
  <2>2. n \in Nat /\ n <= d.rlbytes
    BY <1>1, <2>1 DEF Least
  <2>3. y = d.rlbytes - n
    BY <1>2
  <2> QED BY <2>1, <2>2, <2>3
<1>6. CASE Set(c, e) /\ store' = Filled(c, u) /\ sock' = [sock EXCEPT ![c] = b]
  <2>1. b \in Seq(UnitsOf(reqs[c]))
    BY <1>2, <1>4, <1>5, DropIs
  <2>2. Alike(d, e) /\ e.rbuf = d.rbuf
    BY <1>2, <1>4, <1>5 DEF Alike, ConnFields
  <2>3. Only(sock, sock', c, b)
    BY <1>4, <1>6, OnlyIs
  <2>4. {e.rbuf, b} \subseteq Seq(UnitsOf(reqs[c]))
    BY <1>4, <2>1, <2>2
  <2> QED BY <1>1, <1>3, <1>6, <2>2, <2>3, <2>4, NreadStep
<1>7. CASE Set(c, conn_set_state(d, "closing")) /\ UNCHANGED <<store, sock>>
  <2>1. ~Collecting(d)
    BY <1>3 DEF Collecting
  <2> QED BY <1>1, <1>3, <1>4, <1>7, <2>1, CloseStep
<1>8. CASE Set(c, [d EXCEPT !.ev = "read"]) /\ UNCHANGED <<store, sock>>
  <2>1. PICK f : f = [d EXCEPT !.ev = "read"]
    OBVIOUS
  <2>2. Alike(d, f) /\ f.rbuf = d.rbuf
    BY <1>4, <2>1 DEF Alike, ConnFields
  <2> QED BY <1>1, <1>3, <1>4, <1>8, <2>1, <2>2, SetIs, AlikeStep
<1> QED BY <1>3, <1>6, <1>7, <1>8

\* The text of out_string is put on the list of pieces to send.
LEMMA AssembledIs ==
    ASSUME Clean, NEW c \in Conns, conn[c].state \in {"write", "mwrite"}, conn[c].purge = None
    PROVE  /\ Fine(Assembled(conn[c]), store, reqs[c], seen[c]) /\ DOMAIN Assembled(conn[c]) = ConnFields
           /\ \A j \in DOMAIN store.item : Mine(Assembled(conn[c]), j) = Mine(conn[c], j)
           /\ Assembled(conn[c]).rbuf = conn[c].rbuf /\ Assembled(conn[c]).rbuf \in Seq(UnitsOf(reqs[c]))
           /\ Assembled(conn[c]).state = conn[c].state /\ Assembled(conn[c]).purge = None
<1>1. PICK d, e : d = conn[c] /\ e = Assembled(d)
  OBVIOUS
<1>2. Fine(d, store, reqs[c], seen[c]) /\ DOMAIN d = ConnFields /\ d.rbuf \in Seq(UnitsOf(reqs[c])) /\ StoreOK(store)
  BY <1>1, BufferIs DEF Clean, Fine
<1>3. CASE ~(d.state = "write" /\ d.wbuf # "")
  <2>1. e = d
    BY <1>1, <1>3 DEF Assembled
  <2> QED BY <1>1, <1>2, <2>1
<1>4. CASE d.state = "write" /\ d.wbuf # ""
  <2>1. PICK q : q = Append(d.iov, Piece(d, d.wbuf))
    OBVIOUS
  <2>2. e = [d EXCEPT !.iov = q, !.wbuf = ""]
    BY <1>1, <1>4, <2>1 DEF Assembled
  <2>3. /\ DOMAIN e = ConnFields /\ e.ilist = d.ilist /\ e.item = d.item /\ e.purge = d.purge /\ e.ileft = d.ileft
        /\ e.iov = q /\ e.rbuf = d.rbuf /\ e.noreply = d.noreply /\ e.proto = d.proto /\ e.state = d.state /\ e.cmd = d.cmd
        /\ e.write_and_go = d.write_and_go /\ e.sbytes = d.sbytes /\ e.rlbytes = d.rlbytes
    BY <1>2, <2>2 DEF ConnFields
  <2>4. d.item = None
    BY <1>2, <1>4 DEF Fine
  <2>5. Bare(d, DOMAIN store.item)
    BY <1>1, <1>4, <2>4, QuietState
  <2>6. Plain(q)
    BY <2>1, <2>5, PlainIs DEF Bare, Loose
  <2>7. Bare(e, DOMAIN store.item)
    BY <2>3, <2>5, <2>6 DEF Bare, Loose, Collecting
  <2>8. /\ Fine(e, store, reqs[c], seen[c]) /\ \A j \in DOMAIN store.item : Mine(e, j) = 0
        /\ \A j \in DOMAIN store.item : Mine(d, j) = 0
    BY <1>2, <2>5, <2>7, BareIs
  <2> QED BY <1>1, <1>2, <2>3, <2>8
<1> QED BY <1>3, <1>4

LEMMA TransmitBlockedClean == ASSUME Clean, Counts, NEW c \in Conns, TransmitBlocked(c) PROVE Clean'
<1>1. PICK a : a = Assembled(conn[c])
  OBVIOUS
<1>2. /\ conn[c].state \in {"write", "mwrite"} /\ conn[c].purge = None /\ UNCHANGED <<store, seen, sock, reqs, script, lost>>
      /\ Set(c, [a EXCEPT !.ev = "write"]) \/ Set(c, conn_set_state(a, "closing"))
  BY <1>1 DEF TransmitBlocked, Driving, net, client
<1>3. /\ Fine(a, store, reqs[c], seen[c]) /\ DOMAIN a = ConnFields /\ a.rbuf \in Seq(UnitsOf(reqs[c]))
      /\ \A j \in DOMAIN store.item : Mine(a, j) = Mine(conn[c], j)
      /\ a.state = conn[c].state /\ a.purge = None
  BY <1>1, <1>2, AssembledIs
<1>4. ~Collecting(a) /\ conn[c].state # "hung"
  BY <1>2, <1>3 DEF Collecting
<1>5. CASE Set(c, conn_set_state(a, "closing"))
  BY <1>2, <1>3, <1>4, <1>5, CloseStep
<1>6. CASE Set(c, [a EXCEPT !.ev = "write"])
  <2>1. PICK e : e = [a EXCEPT !.ev = "write"]
    OBVIOUS
  <2>2. Alike(a, e) /\ e.rbuf = a.rbuf
    BY <1>3, <2>1 DEF Alike, ConnFields
  <2>3. Fine(e, store, reqs[c], seen[c]) /\ \A j : Mine(e, j) = Mine(a, j)
    BY <1>3, <2>2, AlikeIs
  <2>4. Only(conn, conn', c, e)
    BY <1>6, <2>1, SetIs
  <2> QED BY <1>2, <1>3, <1>4, <2>2, <2>3, <2>4, CalmStep
<1> QED BY <1>2, <1>5, <1>6

LEMMA DropFacts ==
    ASSUME NEW q, IsSeq(q), NEW n \in 1 .. Len(q)
    PROVE  /\ IsSeq(Drop(q, n)) /\ \A m \in DOMAIN Drop(q, n) : \E k \in DOMAIN q : Drop(q, n)[m] = q[k]
<1>1. PICK T : T = {q[m] : m \in DOMAIN q}
  OBVIOUS
<1>2. q \in Seq(T)
  BY <1>1 DEF IsSeq
<1>3. n \in Nat
  BY <1>2
<1>4. Drop(q, n) \in Seq(T)
  BY <1>2, <1>3, DropIs
<1>5. \A m \in DOMAIN Drop(q, n) : Drop(q, n)[m] \in T
  BY <1>4
<1> QED BY <1>1, <1>4, <1>5, SeqIs

LEMMA TransmitSomeClean == ASSUME Clean, Counts, NEW c \in Conns, TransmitSome(c) PROVE Clean'
<1>1. PICK a : a = Assembled(conn[c])
  OBVIOUS
<1>2. PICK n \in 1 .. Len(a.iov) :
         /\ Set(c, [a EXCEPT !.iov = Drop(a.iov, n)])
         /\ seen' = [seen EXCEPT ![c] = IF a.iov[n].it # None THEN [cas |-> a.iov[n].cas, val |-> a.iov[n].val]
                                                              ELSE seen[c]]
  BY <1>1 DEF TransmitSome
<1>3. /\ conn[c].state \in {"write", "mwrite"} /\ conn[c].purge = None /\ UNCHANGED <<store, sock, reqs, script, lost>>
  BY <1>1 DEF TransmitSome, Driving, net
<1>4. /\ Fine(a, store, reqs[c], seen[c]) /\ DOMAIN a = ConnFields /\ a.rbuf \in Seq(UnitsOf(reqs[c]))
      /\ \A j \in DOMAIN store.item : Mine(a, j) = Mine(conn[c], j)
      /\ a.state = conn[c].state /\ a.purge = None
  BY <1>1, <1>3, AssembledIs
<1>5. IsSeq(a.iov) /\ \A m \in DOMAIN a.iov : PieceOK(a.iov[m], a, store)
  BY <1>4 DEF Fine
<1>6. DOMAIN a.iov = 1 .. Len(a.iov)
  BY <1>5, SeqFacts
<1>7. PICK e, b, p, sn : /\ b = Drop(a.iov, n) /\ p = a.iov[n] /\ e = [a EXCEPT !.iov = b]
                         /\ sn = IF p.it # None THEN [cas |-> p.cas, val |-> p.val] ELSE seen[c]
  OBVIOUS
<1>8. Known(store, sn)
  <2>1. CASE p.it # None
    <3>1. Known(store, p)
      BY <1>5, <1>6, <1>7, <2>1 DEF PieceOK
    <3>2. sn.cas = p.cas /\ sn.val = p.val
      BY <1>7, <2>1
    <3> QED BY <3>1, <3>2 DEF Known
  <2>2. CASE p.it = None
    BY <1>7, <2>2 DEF Clean
  <2> QED BY <2>1, <2>2
<1>9. /\ DOMAIN e = ConnFields /\ e.ilist = a.ilist /\ e.item = a.item /\ e.purge = a.purge /\ e.ileft = a.ileft
      /\ e.iov = b /\ e.rbuf = a.rbuf /\ e.noreply = a.noreply /\ e.proto = a.proto /\ e.state = a.state /\ e.cmd = a.cmd
      /\ e.write_and_go = a.write_and_go /\ e.sbytes = a.sbytes /\ e.rlbytes = a.rlbytes /\ e.hits = a.hits /\ e.todo = a.todo
  BY <1>4, <1>7 DEF ConnFields
<1>10. Places(e) = Places(a) /\ (\A m : RefAt(e, m) = RefAt(a, m)) /\ (Collecting(e) <=> Collecting(a))
  BY <1>9 DEF Places, RefAt, Collecting
<1>11. \A j : Mine(e, j) = Mine(a, j)
  BY <1>10, SameHands
<1>12. \A x : PieceOK(x, a, store) => PieceOK(x, e, store)
  BY <1>9, <1>10 DEF PieceOK
<1>13. IsSeq(e.iov) /\ \A m \in DOMAIN e.iov : PieceOK(e.iov[m], e, store)
  <2>1. IsSeq(b) /\ \A m \in DOMAIN b : \E k \in DOMAIN a.iov : b[m] = a.iov[k]
    BY <1>2, <1>5, <1>7, DropFacts
  <2> QED BY <1>5, <1>9, <1>12, <2>1
<1>14. a.state \in {"write", "mwrite"} /\ ~Collecting(a)
  BY <1>3, <1>4 DEF Collecting
<1>15. Fine(e, store, reqs[c], sn)
  BY <1>4, <1>9, <1>10, <1>13, <1>14 DEF Fine
<1>16. Only(conn, conn', c, e) /\ Only(sock, sock', c, sock[c]) /\ Only(seen, seen', c, sn)
  <2>1. DOMAIN sock = Conns /\ DOMAIN seen = Conns
    BY DEF Clean
  <2>2. Set(c, e) /\ seen' = [seen EXCEPT ![c] = sn] /\ sock' = sock
    BY <1>2, <1>3, <1>7
  <2> QED BY <2>1, <2>2, SetIs, OnlyIs
<1>17. {e.rbuf, sock[c]} \subseteq Seq(UnitsOf(reqs[c])) /\ conn[c].state # "hung"
       /\ \A j \in DOMAIN store.item : Mine(e, j) = Mine(conn[c], j)
  BY <1>3, <1>4, <1>9, <1>11, BufferIs
<1> QED BY <1>3, <1>8, <1>15, <1>16, <1>17, StillStep

\* What conn_release_items gives back is all that the connection holds.
LEMMA ReleasesAll ==
    ASSUME NEW d, d.purge = None, ~Collecting(d), d.ileft \in Nat, NEW j, j # None
    PROVE  Times(d, 0 .. d.ileft, j) = Mine(d, j)
<1>1. Places(d) = -1 .. d.ileft
  BY DEF Places
<1>2. {n \in 0 .. d.ileft : RefAt(d, n) = j} = {n \in Places(d) : RefAt(d, n) = j}
  BY <1>1 DEF RefAt
<1> QED BY <1>2 DEF Times, Mine, Held

LEMMA ReleasedIs ==
    ASSUME Clean, NEW c \in Conns, conn[c].purge = None, ~Collecting(conn[c]), store' = ReleaseStore(store, conn[c])
    PROVE  /\ store' = RemoveAll(store, conn[c], 0 .. conn[c].ileft)
           /\ \A j \in DOMAIN store.item : Times(conn[c], 0 .. conn[c].ileft, j) = Mine(conn[c], j)
<1>1. conn[c].ileft \in Nat
  <2>1. conn[c].ilist \in Seq(DOMAIN store.item) /\ conn[c].ileft \in 0 .. Len(conn[c].ilist)
    BY DEF Clean, Fine
  <2> QED BY <2>1
<1>2. \A j \in DOMAIN store.item : j # None
  BY StoreAssumption DEF Clean, StoreOK
<1> QED BY <1>1, <1>2, ReleasesAll DEF ReleaseStore

LEMMA TransmitCompleteClean == ASSUME Clean, Counts, NEW c \in Conns, TransmitComplete(c) PROVE Clean'
<1>1. PICK d : d = conn[c]
  OBVIOUS
<1>2. /\ d.state \in {"write", "mwrite"} /\ d.purge = None /\ UNCHANGED <<seen, sock, reqs, script, lost>>
      /\ Assembled(d).iov = <<>>
  BY <1>1 DEF TransmitComplete, Driving, net, client
<1>3. /\ Fine(d, store, reqs[c], seen[c]) /\ DOMAIN d = ConnFields /\ d.rbuf \in Seq(UnitsOf(reqs[c]))
      /\ StoreOK(store) /\ ~Collecting(d) /\ d.write_and_go \in {"new_cmd", "swallow", "closing"}
  BY <1>1, <1>2, BufferIs DEF Clean, Fine, Collecting
<1>4. ~(d.noreply /\ d.proto # "binary") /\ d.ilist \in Seq(DOMAIN store.item) /\ {d.sbytes, d.rlbytes} \subseteq Nat
  BY <1>2, <1>3 DEF Fine
<1>5. CASE d.state = "mwrite"
  <2>1. PICK e, x : /\ x = (IF d.proto = "binary" THEN d.write_and_go ELSE "new_cmd")
                    /\ e = [d EXCEPT !.item = None, !.ilist = <<>>, !.ileft = 0, !.state = x]
    OBVIOUS
  <2>2. store' = ReleaseStore(store, conn[c]) /\ Set(c, e)
    BY <1>1, <1>5, <2>1 DEF TransmitComplete, ReleaseConn, conn_set_state
  <2>3. d.iov = <<>>
    BY <1>2, <1>5 DEF Assembled
  <2>4. /\ DOMAIN e = ConnFields /\ e.ilist = <<>> /\ e.item = None /\ e.purge = d.purge /\ e.ileft = 0
        /\ e.iov = <<>> /\ e.rbuf = d.rbuf /\ e.noreply = d.noreply /\ e.proto = d.proto /\ e.state = x
        /\ e.write_and_go = d.write_and_go /\ e.sbytes = d.sbytes /\ e.rlbytes = d.rlbytes
    BY <1>3, <2>1, <2>3 DEF ConnFields
  <2>5. Bare(e, DOMAIN store.item)
    <3>1. x \in {"new_cmd", "swallow", "closing"}
      BY <1>3, <2>1
    <3> QED BY <1>2, <1>3, <1>4, <2>4, <3>1, PlainIs DEF Bare, Loose, Collecting
  <2>6. Fine(e, store, reqs[c], seen[c]) /\ \A j \in DOMAIN store.item : Mine(e, j) = 0
    BY <1>3, <2>5, BareIs
  <2>7. /\ store' = RemoveAll(store, conn[c], 0 .. conn[c].ileft)
        /\ \A j \in DOMAIN store.item : Times(conn[c], 0 .. conn[c].ileft, j) = Mine(conn[c], j)
    BY <1>1, <1>2, <1>3, <2>2, ReleasedIs
  <2>8. conn[c].state # "hung" /\ e.rbuf \in Seq(UnitsOf(reqs[c]))
    BY <1>1, <1>3, <1>5, <2>4
  <2> QED BY <1>2, <2>2, <2>6, <2>7, <2>8, ReleaseStep
<1>6. CASE d.state = "write"
  <2>1. PICK e, x : x = d.write_and_go /\ e = [d EXCEPT !.state = x]
    OBVIOUS
  <2>2. Set(c, e) /\ store' = store
    BY <1>1, <1>6, <2>1 DEF TransmitComplete, conn_set_state
  <2>3. d.item = None
    BY <1>3, <1>6 DEF Fine
  <2>4. Bare(d, DOMAIN store.item)
    BY <1>1, <1>2, <1>6, <2>3, QuietState
  <2>5. /\ DOMAIN e = ConnFields /\ e.ilist = d.ilist /\ e.item = d.item /\ e.purge = d.purge /\ e.ileft = d.ileft
        /\ e.iov = d.iov /\ e.rbuf = d.rbuf /\ e.noreply = d.noreply /\ e.proto = d.proto /\ e.state = x
        /\ e.write_and_go = d.write_and_go /\ e.sbytes = d.sbytes /\ e.rlbytes = d.rlbytes
    BY <1>3, <2>1 DEF ConnFields
  <2>6. x \in {"new_cmd", "swallow", "closing"}
    BY <1>3, <2>1
  <2>7. Bare(e, DOMAIN store.item)
    BY <1>4, <2>4, <2>5, <2>6 DEF Bare, Loose, Collecting
  <2> QED BY <1>1, <1>2, <1>3, <1>6, <2>2, <2>4, <2>5, <2>7, SetIs, BareStays
<1> QED BY <1>2, <1>5, <1>6

LEMMA CloseClean == ASSUME Clean, Counts, NEW c \in Conns, conn_close(c) PROVE Clean'
<1>1. PICK d, e : d = conn[c] /\ e = [d EXCEPT !.item = None, !.ilist = <<>>, !.ileft = 0, !.state = "closed", !.ev = "none"]
  OBVIOUS
<1>2. /\ d.state = "closing" /\ d.purge = None /\ UNCHANGED <<seen, sock, reqs, script, lost>>
      /\ store' = ReleaseStore(store, conn[c]) /\ Set(c, e)
  BY <1>1 DEF conn_close, InState, Driving, net, client, ReleaseConn
<1>3. /\ Fine(d, store, reqs[c], seen[c]) /\ DOMAIN d = ConnFields /\ d.rbuf \in Seq(UnitsOf(reqs[c]))
      /\ StoreOK(store) /\ ~Collecting(d)
  BY <1>1, <1>2, BufferIs DEF Clean, Fine, Collecting
<1>4. /\ DOMAIN e = ConnFields /\ e.ilist = <<>> /\ e.item = None /\ e.purge = None /\ e.ileft = 0
      /\ e.iov = d.iov /\ e.rbuf = d.rbuf /\ e.noreply = d.noreply /\ e.proto = d.proto /\ e.state = "closed"
      /\ e.write_and_go = d.write_and_go /\ e.sbytes = d.sbytes /\ e.rlbytes = d.rlbytes
  BY <1>1, <1>2, <1>3 DEF ConnFields
<1>5. \A p : PieceOK(p, d, store) => PieceOK(p, e, store)
  BY <1>4 DEF PieceOK
<1>6. <<>> \in Seq(DOMAIN store.item) /\ Len(<<>>) = 0
  OBVIOUS
<1>7. Fine(e, store, reqs[c], seen[c])
  BY <1>3, <1>4, <1>5, <1>6 DEF Fine, Collecting
<1>8. ASSUME NEW j \in DOMAIN store.item PROVE Mine(e, j) = 0
  <2>1. Places(e) = -1 .. 0
    BY <1>4 DEF Places, Collecting
  <2>2. j # None
    BY <1>3, StoreAssumption DEF StoreOK
  <2>3. Held(e, j) = {}
    BY <1>4, <2>1, <2>2 DEF Held, RefAt
  <2> QED BY <2>3, FS_EmptySet DEF Mine
<1>9. /\ store' = RemoveAll(store, conn[c], 0 .. conn[c].ileft)
      /\ \A j \in DOMAIN store.item : Times(conn[c], 0 .. conn[c].ileft, j) = Mine(conn[c], j)
  BY <1>1, <1>2, <1>3, ReleasedIs
<1>10. conn[c].state # "hung" /\ e.rbuf \in Seq(UnitsOf(reqs[c])) /\ Set(c, e) /\ UNCHANGED <<seen, sock, reqs, script, lost>>
  BY <1>1, <1>2, <1>3, <1>4
<1>11. PICK places : places = 0 .. conn[c].ileft
  OBVIOUS
<1>12. /\ \A j \in DOMAIN store.item : Times(conn[c], places, j) = Mine(conn[c], j)
       /\ store' = RemoveAll(store, conn[c], places)
  BY <1>9, <1>11
<1> QED BY <1>7, <1>8, <1>10, <1>12, ReleaseStep

-----------------------------------------------------------------------------
(* The binary protocol.                                                    *)

LEMMA HeaderIs ==
    ASSUME Clean, NEW c \in Conns, HaveHeader(c)
    PROVE  /\ Bare(conn[c], DOMAIN store.item) /\ conn[c].state = "parse_cmd" /\ Request(c) \in Requests
           /\ Loose(Header(c), DOMAIN store.item) /\ Header(c).rbuf \in Seq(UnitsOf(reqs[c]))
           /\ Header(c).state = "parse_cmd" /\ Header(c).cmd = Request(c).op /\ Header(c).proto = "binary"
           /\ Header(c).req \in DOMAIN reqs[c] /\ Request(c) = reqs[c][Header(c).req]
           /\ Request(c).op \in NoKeyOps \cup DOMAIN Substate
<1>1. /\ InState(c, "parse_cmd") /\ conn[c].cmd = "none" /\ Request(c).proto = "binary"
      /\ conn[c].state = "parse_cmd" /\ conn[c].purge = None /\ Len(conn[c].rbuf) >= HeaderUnits(c)
  BY DEF HaveHeader, AtHeader, Parsing, InState, Driving
<1>2. Bare(conn[c], DOMAIN store.item)
  BY <1>1, Parses
<1>3. PICK n : n = HeaderUnits(c) /\ n \in 1 .. 2
  BY DEF HeaderUnits
<1>4. conn[c].rbuf \in Seq(UnitsOf(reqs[c])) /\ conn[c].rbuf # <<>>
  <2>1. conn[c].rbuf \in Seq(UnitsOf(reqs[c]))
    BY BufferIs
  <2> QED BY <1>1, <1>3, <2>1
<1>5. First(c).req \in DOMAIN reqs[c] /\ Request(c) \in Requests
  BY <1>4, RequestIs
<1>6. PICK d, e, m, op, q, b : /\ d = conn[c] /\ e = Header(c) /\ m = First(c).req /\ op = Request(c).op /\ q = Request(c).quiet
                               /\ b = Drop(d.rbuf, n)
  OBVIOUS
<1>7. e = [d EXCEPT !.proto = "binary", !.req = m, !.iov = <<>>, !.cmd = op, !.noreply = q, !.rbuf = b]
  BY <1>3, <1>6 DEF Header
<1>8. DOMAIN d = ConnFields
  BY <1>2, <1>6 DEF Bare, Loose
<1>9. /\ DOMAIN e = ConnFields /\ e.ilist = d.ilist /\ e.item = d.item /\ e.purge = d.purge /\ e.ileft = d.ileft
      /\ e.write_and_go = d.write_and_go /\ e.sbytes = d.sbytes /\ e.rlbytes = d.rlbytes
      /\ e.iov = <<>> /\ e.rbuf = b /\ e.state = d.state /\ e.proto = "binary" /\ e.cmd = op /\ e.req = m
  BY <1>7, <1>8 DEF ConnFields
<1>10. b \in Seq(UnitsOf(reqs[c]))
  <2>1. n \in Nat
    BY <1>3
  <2> QED BY <1>4, <1>6, <2>1, DropIs
<1>11. Loose(e, DOMAIN store.item)
  BY <1>2, <1>6, <1>9, PlainIs DEF Bare, Loose
<1>12. Request(c) = reqs[c][m] /\ Request(c).op \in NoKeyOps \cup DOMAIN Substate
  BY <1>1, <1>5, <1>6, MenusAssumption DEF Request
<1> QED BY <1>1, <1>2, <1>5, <1>6, <1>9, <1>10, <1>11, <1>12

LEMMA NoHeaderClean == ASSUME Clean, Counts, NEW c \in Conns, NoHeader(c) PROVE Clean'
<1>1. PICK d, e : d = conn[c] /\ e = [d EXCEPT !.proto = "binary", !.state = "waiting"]
  OBVIOUS
<1>2. /\ InState(c, "parse_cmd") /\ d.cmd = "none" /\ d.state = "parse_cmd"
      /\ Set(c, e) /\ UNCHANGED <<store, seen, sock, reqs, script, lost>>
  BY <1>1 DEF NoHeader, AtHeader, Parsing, InState, Driving, Reply, net, client
<1>3. Bare(d, DOMAIN store.item) /\ d.rbuf \in Seq(UnitsOf(reqs[c]))
  BY <1>1, <1>2, Parses, BufferIs
<1>4. DOMAIN d = ConnFields
  BY <1>3 DEF Bare, Loose
<1>5. /\ DOMAIN e = ConnFields /\ e.ilist = d.ilist /\ e.item = d.item /\ e.purge = d.purge /\ e.ileft = d.ileft
      /\ e.write_and_go = d.write_and_go /\ e.sbytes = d.sbytes /\ e.rlbytes = d.rlbytes
      /\ e.iov = d.iov /\ e.rbuf = d.rbuf /\ e.state = "waiting" /\ e.proto = "binary" /\ e.cmd = d.cmd
  BY <1>1, <1>4 DEF ConnFields
<1>6. Bare(e, DOMAIN store.item)
  BY <1>2, <1>3, <1>5 DEF Bare, Loose, Collecting
<1> QED BY <1>1, <1>2, <1>3, <1>5, <1>6, SetIs, BareStays

LEMMA BadMagicClean == ASSUME Clean, Counts, NEW c \in Conns, BadMagic(c) PROVE Clean'
<1>1. PICK d, e : d = conn[c] /\ e = [d EXCEPT !.state = "closing"]
  OBVIOUS
<1>2. /\ InState(c, "parse_cmd") /\ d.cmd = "none" /\ d.state = "parse_cmd"
      /\ Set(c, e) /\ UNCHANGED <<store, seen, sock, reqs, script, lost>>
  BY <1>1 DEF BadMagic, Parsing, InState, Driving, Reply, net, client, conn_set_state
<1>3. Bare(d, DOMAIN store.item) /\ d.rbuf \in Seq(UnitsOf(reqs[c]))
  BY <1>1, <1>2, Parses, BufferIs
<1>4. DOMAIN d = ConnFields
  BY <1>3 DEF Bare, Loose
<1>5. /\ DOMAIN e = ConnFields /\ e.ilist = d.ilist /\ e.item = d.item /\ e.purge = d.purge /\ e.ileft = d.ileft
      /\ e.write_and_go = d.write_and_go /\ e.sbytes = d.sbytes /\ e.rlbytes = d.rlbytes
      /\ e.iov = d.iov /\ e.rbuf = d.rbuf /\ e.state = "closing" /\ e.proto = d.proto /\ e.cmd = d.cmd
  BY <1>1, <1>4 DEF ConnFields
<1>6. Bare(e, DOMAIN store.item)
  BY <1>2, <1>3, <1>5 DEF Bare, Loose, Collecting
<1> QED BY <1>1, <1>2, <1>3, <1>5, <1>6, SetIs, BareStays

\* The end of a request that has no references left.
LEMMA EndStep ==
    ASSUME Clean, Counts, NEW c \in Conns, NEW e, Set(c, e), UNCHANGED <<seen, sock, reqs, script, lost>>,
           Goes(store, store', {}), Shift(store, store', None, 0), conn[c].state # "hung",
           Loose(conn[c], DOMAIN store.item), ~Collecting(conn[c]),
           Bare(e, DOMAIN store.item), e.rbuf \in Seq(UnitsOf(reqs[c]))
    PROVE  Clean'
<1>1. StoreOK(store) /\ StoreOK(store') /\ DOMAIN store'.item = DOMAIN store.item
  BY DEF Clean, Goes
<1>2. PICK t : t = store'
  OBVIOUS
<1>3. Fine(e, t, reqs[c], seen[c]) /\ \A j \in DOMAIN t.item : Mine(e, j) = 0
  <2>1. StoreOK(t) /\ Bare(e, DOMAIN t.item)
    BY <1>1, <1>2
  <2> QED BY <2>1, BareIs
<1>4. Fine(e, store', reqs[c], seen[c]) /\ \A j \in DOMAIN store.item : Mine(e, j) = 0
  BY <1>1, <1>2, <1>3
<1> QED BY <1>4, SetIs, LooseStep

\* The key of a request has been read.
LEMMA KeyIs ==
    ASSUME Clean, NEW c \in Conns, NEW S, Complete(c, S), conn[c].substate \notin {"set_value", "sasl_auth_data"}
    PROVE  /\ Loose(conn[c], DOMAIN store.item) /\ ~Collecting(conn[c]) /\ conn[c].state = "nread" /\ conn[c].proto = "binary"
           /\ DOMAIN conn[c] = ConnFields /\ StoreOK(store) /\ Fine(conn[c], store, reqs[c], seen[c])
           /\ conn[c].rbuf \in Seq(UnitsOf(reqs[c])) /\ BinRequest(c) \in Requests /\ conn[c].substate \in S
           /\ conn[c].req \in DOMAIN reqs[c] /\ (conn[c].substate # "flush_exptime" => BinRequest(c).keys[1] \in Keys)
<1>1. /\ conn[c].state = "nread" /\ conn[c].purge = None /\ conn[c].proto = "binary" /\ conn[c].substate \in S
  BY DEF Complete, InState, Driving
<1>2. /\ Fine(conn[c], store, reqs[c], seen[c]) /\ StoreOK(store) /\ conn[c].rbuf \in Seq(UnitsOf(reqs[c]))
      /\ reqs[c] \in Seq(Requests)
  BY BufferIs DEF Clean
<1>3. conn[c].item = None /\ conn[c].ileft = 0 /\ ~Collecting(conn[c])
  BY <1>1, <1>2 DEF Fine, Filling, Collecting
<1>4. Plain(conn[c].iov)
  BY <1>1, <1>2, <1>3 DEF Fine, PieceOK, Plain
<1>5. Loose(conn[c], DOMAIN store.item)
  BY <1>1, <1>2, <1>3, <1>4 DEF Fine, Loose
<1>6. conn[c].req \in DOMAIN reqs[c] /\ (conn[c].substate # "flush_exptime" => BinRequest(c).keys[1] \in Keys)
  BY <1>1, <1>2 DEF Fine, BinRequest
<1>7. BinRequest(c) \in Requests
  BY <1>2, <1>6 DEF BinRequest
<1> QED BY <1>1, <1>2, <1>3, <1>5, <1>6, <1>7 DEF Loose

\* bin_read_key waits for the key.
LEMMA ReadsKey ==
    ASSUME Clean, NEW c \in Conns, HaveHeader(c), NEW d, d = Header(c), Request(c).op \in DOMAIN Substate,
           Request(c).op \notin NoKeyOps => Request(c).keys[1] # LongKey
    PROVE  /\ Fine(bin_read_key(d), store, reqs[c], seen[c]) /\ bin_read_key(d).rbuf = d.rbuf
           /\ \A j \in DOMAIN store.item : Mine(bin_read_key(d), j) = 0
<1>1. /\ Request(c) \in Requests /\ Loose(d, DOMAIN store.item) /\ d.state = "parse_cmd" /\ d.cmd = Request(c).op
      /\ d.proto = "binary" /\ d.req \in DOMAIN reqs[c] /\ Request(c) = reqs[c][d.req]
  BY HeaderIs
<1>2. PICK e, u, n : /\ e = bin_read_key(d) /\ u = Substate[d.cmd] /\ n \in Nat
                     /\ e = [d EXCEPT !.substate = u, !.state = "nread", !.rlbytes = n]
  <2>1. PICK n : n = IF d.cmd \in NoKeyOps THEN 0 ELSE 1
    OBVIOUS
  <2>2. n \in Nat
    BY <2>1
  <2>3. bin_read_key(d) = [d EXCEPT !.substate = Substate[d.cmd], !.state = "nread", !.rlbytes = n]
    BY <2>1 DEF bin_read_key
  <2> QED BY <2>2, <2>3
<1>3. DOMAIN d = ConnFields
  BY <1>1 DEF Loose
<1>4. /\ DOMAIN e = ConnFields /\ e.ilist = d.ilist /\ e.item = d.item /\ e.purge = d.purge /\ e.ileft = d.ileft
      /\ e.write_and_go = d.write_and_go /\ e.sbytes = d.sbytes /\ e.rlbytes = n /\ e.substate = u /\ e.req = d.req
      /\ e.iov = d.iov /\ e.rbuf = d.rbuf /\ e.state = "nread" /\ e.proto = "binary" /\ e.cmd = d.cmd
  BY <1>1, <1>2, <1>3 DEF ConnFields
<1>5. u \notin {"set_value", "sasl_auth_data"} /\ (u # "flush_exptime" => d.cmd \notin NoKeyOps) /\ (u = "del_header" => d.cmd = "delete") /\ d.cmd # "cas"
  BY <1>1, <1>2 DEF Substate, NoKeyOps
<1>6. u # "flush_exptime" => reqs[c][d.req].keys[1] \in Keys
  BY <1>1, <1>5, FirstKey
<1>7. ~Collecting(e) /\ ~Filling(e)
  BY <1>4, <1>5 DEF Collecting, Filling
<1>8. \A m \in DOMAIN e.iov : PieceOK(e.iov[m], e, store)
  BY <1>1, <1>4 DEF Loose, Plain, PieceOK
<1>9. Fine(e, store, reqs[c], seen[c])
  <2>1. Len(d.ilist) \in Nat
    BY <1>1 DEF Loose
  <2> QED BY <1>1, <1>2, <1>4, <1>5, <1>6, <1>7, <1>8, <2>1 DEF Fine, Loose, Plain
<1>10. Loose(e, DOMAIN store.item)
  BY <1>1, <1>2, <1>4 DEF Loose
<1>11. \A j \in DOMAIN store.item : Mine(e, j) = 0
  BY <1>7, <1>10, LooseHolds DEF Clean
<1> QED BY <1>2, <1>4, <1>9, <1>11

\* The answer of a binary request may be followed by the end of the connection or of its data.
LEMMA GoIs ==
    ASSUME NEW D, NEW b, Bare(b, D), b.proto = "binary", NEW x \in {"new_cmd", "swallow", "closing"},
           NEW e, e = [b EXCEPT !.write_and_go = x]
    PROVE  Bare(e, D) /\ e.rbuf = b.rbuf /\ e.proto = "binary"
<1>2. DOMAIN b = ConnFields
  BY DEF Bare, Loose
<1>3. /\ DOMAIN e = ConnFields /\ e.ilist = b.ilist /\ e.item = b.item /\ e.purge = b.purge /\ e.ileft = b.ileft
      /\ e.write_and_go = x /\ e.sbytes = b.sbytes /\ e.rlbytes = b.rlbytes /\ e.noreply = b.noreply
      /\ e.iov = b.iov /\ e.rbuf = b.rbuf /\ e.state = b.state /\ e.proto = b.proto /\ e.cmd = b.cmd
  BY <1>2 DEF ConnFields
<1>4. Bare(e, D)
  BY <1>3 DEF Bare, Loose, Collecting
<1> QED BY <1>3, <1>4

LEMMA BinQuitIs ==
    ASSUME NEW D, NEW d, Loose(d, D), d.proto = "binary"
    PROVE  Bare(BinQuit(d), D) /\ BinQuit(d).rbuf = d.rbuf
<1>1. PICK b, x, e : b = write_bin_response(d, "OK") /\ x = "closing" /\ e = [b EXCEPT !.write_and_go = x]
  OBVIOUS
<1>2. Bare(b, D) /\ b.rbuf = d.rbuf /\ b.proto = "binary"
  BY <1>1, BinResponseIs
<1>3. Bare(e, D) /\ e.rbuf = d.rbuf /\ e.proto = "binary"
  <2>1. x \in {"new_cmd", "swallow", "closing"}
    BY <1>1
  <2>2. Bare(e, D) /\ e.rbuf = b.rbuf /\ e.proto = "binary"
    BY <1>1, <1>2, <2>1, GoIs
  <2> QED BY <1>2, <2>2
<1>4. CASE ~d.noreply
  BY <1>1, <1>3, <1>4 DEF BinQuit
<1>5. CASE d.noreply
  <2>1. PICK f : f = [e EXCEPT !.state = "closing"]
    OBVIOUS
  <2>2. DOMAIN e = ConnFields
    BY <1>3 DEF Bare, Loose
  <2>3. /\ DOMAIN f = ConnFields /\ f.ilist = e.ilist /\ f.item = e.item /\ f.purge = e.purge /\ f.ileft = e.ileft
        /\ f.write_and_go = e.write_and_go /\ f.sbytes = e.sbytes /\ f.rlbytes = e.rlbytes /\ f.noreply = e.noreply
        /\ f.iov = e.iov /\ f.rbuf = e.rbuf /\ f.state = "closing" /\ f.proto = e.proto /\ f.cmd = e.cmd
    BY <2>1, <2>2 DEF ConnFields
  <2>4. Bare(f, D)
    BY <1>3, <2>3 DEF Bare, Loose, Collecting
  <2>5. BinQuit(d) = f
    BY <1>1, <1>5, <2>1 DEF BinQuit, conn_set_state
  <2> QED BY <1>3, <2>3, <2>4, <2>5
<1> QED BY <1>4, <1>5

LEMMA DispatchBinClean == ASSUME Clean, Counts, NEW c \in Conns, dispatch_bin_command(c) PROVE Clean'
<1>1. PICK d, r : d = Header(c) /\ r = Request(c)
  OBVIOUS
<1>2. HaveHeader(c) /\ UNCHANGED <<store, seen, sock, reqs, script, lost>>
  BY DEF dispatch_bin_command, Reply, net, client
<1>3. /\ Bare(conn[c], DOMAIN store.item) /\ conn[c].state = "parse_cmd" /\ r \in Requests
      /\ Loose(d, DOMAIN store.item) /\ d.rbuf \in Seq(UnitsOf(reqs[c]))
      /\ d.proto = "binary" /\ r.op \in NoKeyOps \cup DOMAIN Substate
  BY <1>1, <1>2, HeaderIs
<1>4. r.parts \in Nat
  BY <1>3, MenusAssumption
<1>5. ASSUME NEW e, Set(c, e), Bare(e, DOMAIN store.item), e.rbuf = d.rbuf PROVE Clean'
  BY <1>2, <1>3, <1>5, SetIs, BareStays
<1>6. ASSUME NEW err, Set(c, [write_bin_error(d, err, 0) EXCEPT !.write_and_go = "closing"]) PROVE Clean'
  <2>1. PICK b, x, e : b = write_bin_error(d, err, 0) /\ x = "closing" /\ e = [b EXCEPT !.write_and_go = x]
    OBVIOUS
  <2>2. Bare(b, DOMAIN store.item) /\ b.rbuf = d.rbuf /\ b.proto = "binary"
    BY <1>3, <2>1, BinErrorIs
  <2>3. x \in {"new_cmd", "swallow", "closing"}
    BY <2>1
  <2>4. e = [b EXCEPT !.write_and_go = x]
    BY <2>1
  <2>5. Bare(e, DOMAIN store.item) /\ e.rbuf = d.rbuf
    BY <2>2, <2>3, <2>4, GoIs
  <2>6. Set(c, e)
    BY <1>6, <2>1
  <2> QED BY <1>5, <2>5, <2>6
<1>7. ASSUME NEW n \in Nat, Set(c, write_bin_error(d, "UNKNOWN_COMMAND", n)) PROVE Clean'
  BY <1>3, <1>5, <1>7, BinErrorIs
<1>8. CASE Set(c, write_bin_response(d, "OK"))
  BY <1>3, <1>5, <1>8, BinResponseIs
<1>9. CASE Set(c, BinQuit(d))
  BY <1>3, <1>5, <1>9, BinQuitIs
<1>10. CASE /\ Set(c, bin_read_key(d)) /\ r.op \notin {"version", "noop", "quit", "list_mechs", "unknown"}
            /\ (r.op \notin NoKeyOps => r.keys[1] # LongKey)
  <2>1. r.op \in DOMAIN Substate
    BY <1>3, <1>10 DEF NoKeyOps, Substate
  <2>2. PICK e : e = bin_read_key(d)
    OBVIOUS
  <2>3. /\ Fine(e, store, reqs[c], seen[c]) /\ e.rbuf = d.rbuf
        /\ \A j \in DOMAIN store.item : Mine(e, j) = 0
    BY <1>1, <1>2, <1>10, <2>1, <2>2, ReadsKey
  <2>4. \A j \in DOMAIN store.item : Mine(conn[c], j) = 0
    BY <1>3, LooseHolds DEF Bare, Clean
  <2> QED BY <1>2, <1>3, <1>10, <2>2, <2>3, <2>4, SetIs, KeepStep
<1>11. \/ \E err : Set(c, [write_bin_error(d, err, 0) EXCEPT !.write_and_go = "closing"])
       \/ \E n \in Nat : Set(c, write_bin_error(d, "UNKNOWN_COMMAND", n))
       \/ Set(c, write_bin_response(d, "OK"))
       \/ Set(c, BinQuit(d))
       \/ /\ Set(c, bin_read_key(d)) /\ r.op \notin {"version", "noop", "quit", "list_mechs", "unknown"}
          /\ (r.op \notin NoKeyOps => r.keys[1] # LongKey)
  <2>1. CASE settings.sasl /\ ~authenticated(c)
    BY <1>1, <2>1 DEF dispatch_bin_command, Reply
  <2>2. CASE ~(settings.sasl /\ ~authenticated(c)) /\ (r.bad \/ (r.op \notin NoKeyOps /\ r.keys[1] = LongKey))
    <3>1. Set(c, handle_binary_protocol_error(d))
      BY <1>1, <2>2 DEF dispatch_bin_command, Reply
    <3> QED BY <3>1 DEF handle_binary_protocol_error
  <2>3. CASE ~(settings.sasl /\ ~authenticated(c)) /\ ~(r.bad \/ (r.op \notin NoKeyOps /\ r.keys[1] = LongKey))
    <3>1. Set(c, CASE r.op \in {"version", "noop"} -> write_bin_response(d, "OK")
                    [] r.op = "quit" -> BinQuit(d)
                    [] r.op = "list_mechs" -> bin_list_sasl_mechs(d)
                    [] r.op = "unknown" -> write_bin_error(d, "UNKNOWN_COMMAND", r.parts)
                    [] OTHER -> bin_read_key(d))
      BY <1>1, <2>3 DEF dispatch_bin_command, Reply
    <3>2. CASE r.op \in {"version", "noop"}
      BY <3>1, <3>2
    <3>3. CASE r.op = "quit"
      BY <3>1, <3>3
    <3>4. CASE r.op = "list_mechs"
      <4>1. Set(c, bin_list_sasl_mechs(d))
        BY <3>1, <3>4
      <4>2. 0 \in Nat
        OBVIOUS
      <4> QED BY <4>1, <4>2 DEF bin_list_sasl_mechs
    <3>5. CASE r.op = "unknown"
      BY <1>4, <3>1, <3>5
    <3>6. CASE r.op \notin {"version", "noop", "quit", "list_mechs", "unknown"}
      BY <2>3, <3>1, <3>6
    <3> QED BY <3>2, <3>3, <3>4, <3>5, <3>6
  <2> QED BY <2>1, <2>2, <2>3
<1> QED BY <1>6, <1>7, <1>8, <1>9, <1>10, <1>11

LEMMA BinGetClean == ASSUME Clean, Counts, NEW c \in Conns, process_bin_get_or_touch(c) PROVE Clean'
<1>1. PICK d, r, k, x : d = conn[c] /\ r = BinRequest(c) /\ k = r.keys[1] /\ x = realtime(store, r.exp)
  OBVIOUS
<1>2. PICK g : g = IF d.cmd \in {"touch", "gat", "gatk"} THEN item_touch(store, k, x) ELSE item_get(store, k)
  OBVIOUS
<1>3. PICK h : h = [add_bin_header(d, "OK") EXCEPT !.state = "mwrite", !.write_and_go = "new_cmd", !.item = g.it]
  OBVIOUS
<1>4. /\ Complete(c, {"get_key", "touch_key"}) /\ store' = g.s /\ UNCHANGED <<seen, sock, reqs, script, lost>>
      /\ Set(c, IF g.it # None
                  THEN IF d.cmd = "touch" THEN h ELSE add_iov(h, ValuePiece(d, g.s, g.it))
                ELSE IF d.noreply THEN conn_set_state(d, "new_cmd")
                ELSE write_bin_error(d, "KEY_ENOENT", 0))
  BY <1>1, <1>2, <1>3 DEF process_bin_get_or_touch, BinRest, net, client
<1>5. conn[c].substate \in {"get_key", "touch_key"}
  BY <1>4 DEF Complete
<1>6. /\ Loose(d, DOMAIN store.item) /\ ~Collecting(d) /\ d.state = "nread" /\ d.proto = "binary"
      /\ DOMAIN d = ConnFields /\ StoreOK(store) /\ d.rbuf \in Seq(UnitsOf(reqs[c])) /\ k \in Keys
  <2>1. conn[c].substate \notin {"set_value", "sasl_auth_data"} /\ conn[c].substate # "flush_exptime"
    BY <1>5
  <2> QED BY <1>1, <1>4, <2>1, KeyIs
<1>7. Got(store, k, g)
  <2>1. Got(store, k, item_touch(store, k, x)) /\ Got(store, k, item_get(store, k))
    BY <1>6, ItemTouchIs, ItemGetIs
  <2> QED BY <1>2, <2>1
<1>8. CASE g.it = None
  <2>1. Goes(store, store', {}) /\ Shift(store, store', None, 0)
    BY <1>4, <1>7, <1>8 DEF Got
  <2>2. PICK e : e = IF d.noreply THEN conn_set_state(d, "new_cmd") ELSE write_bin_error(d, "KEY_ENOENT", 0)
    OBVIOUS
  <2>3. Bare(e, DOMAIN store.item) /\ e.rbuf = d.rbuf
    <3>1. CASE d.noreply
      <4>1. e = [d EXCEPT !.state = "new_cmd"]
        BY <2>2, <3>1 DEF conn_set_state
      <4>2. /\ DOMAIN e = ConnFields /\ e.ilist = d.ilist /\ e.item = d.item /\ e.purge = d.purge /\ e.ileft = d.ileft
            /\ e.write_and_go = d.write_and_go /\ e.sbytes = d.sbytes /\ e.rlbytes = d.rlbytes
            /\ e.iov = d.iov /\ e.rbuf = d.rbuf /\ e.state = "new_cmd" /\ e.proto = d.proto
        BY <1>6, <4>1 DEF ConnFields
      <4> QED BY <1>6, <4>2 DEF Bare, Loose, Collecting
    <3>2. CASE ~d.noreply
      <4>1. 0 \in Nat
        OBVIOUS
      <4> QED BY <1>6, <2>2, <3>2, <4>1, BinErrorIs
    <3> QED BY <3>1, <3>2
  <2>4. Set(c, e) /\ e.rbuf \in Seq(UnitsOf(reqs[c])) /\ conn[c].state # "hung"
        /\ Loose(conn[c], DOMAIN store.item) /\ ~Collecting(conn[c])
    BY <1>1, <1>4, <1>6, <1>8, <2>2, <2>3
  <2> QED BY <1>4, <2>1, <2>3, <2>4, EndStep
<1>9. CASE g.it # None
  <2>1. PICK t, i, p, a, q : /\ t = g.s /\ i = g.it /\ p = ValuePiece(d, t, i) /\ a = <<Piece(d, "OK")>>
                             /\ q = IF d.cmd = "touch" THEN a ELSE Append(a, p)
    OBVIOUS
  <2>2. PICK e : e = [d EXCEPT !.iov = q, !.state = "mwrite", !.write_and_go = "new_cmd", !.item = i]
    OBVIOUS
  <2>3. h = [d EXCEPT !.iov = a, !.state = "mwrite", !.write_and_go = "new_cmd", !.item = i]
    BY <1>3, <2>1 DEF add_bin_header
  <2>4. Set(c, e)
    <3>1. CASE d.cmd = "touch"
      BY <1>4, <1>9, <2>1, <2>2, <2>3, <3>1
    <3>2. CASE d.cmd # "touch"
      <4>1. Set(c, add_iov(h, p))
        BY <1>4, <1>9, <2>1, <3>2
      <4>2. h.iov = a /\ DOMAIN h = ConnFields
        BY <1>6, <2>3 DEF ConnFields
      <4>3. add_iov(h, p) = [h EXCEPT !.iov = q]
        BY <2>1, <3>2, <4>2 DEF add_iov
      <4>4. [h EXCEPT !.iov = q] = e
        BY <1>6, <2>2, <2>3 DEF ConnFields
      <4> QED BY <4>1, <4>3, <4>4
    <3> QED BY <3>1, <3>2
  <2>5. /\ DOMAIN e = ConnFields /\ e.ilist = d.ilist /\ e.item = i /\ e.purge = None /\ e.ileft = 0
        /\ e.write_and_go = "new_cmd" /\ e.sbytes = d.sbytes /\ e.rlbytes = d.rlbytes
        /\ e.iov = q /\ e.rbuf = d.rbuf /\ e.state = "mwrite" /\ e.proto = "binary"
    <3>1. d.purge = None /\ d.ileft = 0
      BY <1>6 DEF Loose
    <3> QED BY <1>6, <2>2, <3>1 DEF ConnFields
  <2>6. /\ i \in DOMAIN store.item /\ StoreOK(t) /\ DOMAIN t.item = DOMAIN store.item
        /\ Goes(store, t, {}) /\ Shift(store, t, i, 1) /\ Linked(t, i)
    BY <1>7, <1>9, <2>1 DEF Got
  <2>7. Known(t, p) /\ p.it = i /\ p.val = t.item[i].val
    BY <2>1, <2>6, ValueIs
  <2>8. Hand(e, i) /\ ~Collecting(e) /\ i # None
    BY <1>9, <2>1, <2>5 DEF Hand, Collecting
  <2>9. \A j \in DOMAIN store.item : Mine(e, j) = IF j = i THEN 1 ELSE 0
    <3>1. \A j \in DOMAIN store.item : j # None
      BY <1>6, StoreAssumption DEF StoreOK
    <3> QED BY <2>8, <3>1, OneHeld
  <2>10. PieceOK(p, e, t)
    <3>1. 0 \in Places(e) \ {-1} /\ RefAt(e, 0) = i
      BY <2>5, <2>8 DEF Places, RefAt
    <3> QED BY <2>5, <2>6, <2>7, <3>1 DEF PieceOK
  <2>11. IsSeq(q) /\ \A n \in DOMAIN q : PieceOK(q[n], e, t)
    <3>1. PICK f : f = Piece(d, "OK") /\ a = <<f>>
      BY <2>1
    <3>2. f.it = None
      BY <3>1 DEF Piece
    <3>3. IsSeq(a) /\ PieceOK(f, e, t)
      BY <3>1, <3>2, IsSeqs DEF PieceOK
    <3>4. Len(a) = 1 /\ a[1] = f /\ DOMAIN a = 1 .. 1
      BY <3>1
    <3>5. CASE d.cmd = "touch"
      BY <2>1, <3>3, <3>4, <3>5
    <3>6. CASE d.cmd # "touch"
      <4>1. q = Append(a, p)
        BY <2>1, <3>6
      <4>2. IsSeq(Append(a, p))
        BY <3>3, IsSeqs
      <4>3. /\ DOMAIN Append(a, p) = 1 .. Len(a) + 1 /\ Append(a, p)[Len(a) + 1] = p
            /\ \A n \in 1 .. Len(a) : Append(a, p)[n] = a[n]
        BY <3>3, SeqFacts
      <4> QED BY <2>10, <3>3, <3>4, <4>1, <4>2, <4>3
    <3> QED BY <3>5, <3>6
  <2>12. Fine(e, t, reqs[c], seen[c])
    <3>1. e.ilist \in Seq(DOMAIN t.item) /\ Len(e.ilist) \in Nat /\ {e.sbytes, e.rlbytes} \subseteq Nat
      BY <1>6, <2>5, <2>6 DEF Loose
    <3> QED BY <2>5, <2>6, <2>8, <2>11, <3>1 DEF Fine
  <2>13. /\ Only(conn, conn', c, e) /\ conn[c].state # "hung" /\ Loose(conn[c], DOMAIN store.item) /\ ~Collecting(conn[c])
         /\ e.rbuf \in Seq(UnitsOf(reqs[c])) /\ Goes(store, store', {}) /\ Shift(store, store', i, 1)
         /\ Fine(e, store', reqs[c], seen[c])
    BY <1>1, <1>4, <1>6, <2>1, <2>4, <2>5, <2>6, <2>12, SetIs
  <2> QED BY <1>4, <2>9, <2>13, TakeStep
<1> QED BY <1>8, <1>9

\* The rest of a delete is ItemUnlink.
LEMMA BinDeleteClean == ASSUME Clean, Counts, NEW c \in Conns, process_bin_delete(c) PROVE Clean'
<1>1. PICK d, r, k, g : d = conn[c] /\ r = BinRequest(c) /\ k = r.keys[1] /\ g = do_item_get(store, k)
  OBVIOUS
<1>2. /\ Complete(c, {"del_header"}) /\ UNCHANGED <<seen, sock, reqs, script, lost>>
      /\ \/ g.it = None /\ store' = g.s /\ Set(c, write_bin_error(d, "KEY_ENOENT", 0))
         \/ g.it # None /\ store' = g.s /\ Set(c, [d EXCEPT !.purge = g.it])
         \/ g.it # None /\ store' = do_item_remove(g.s, g.it) /\ Set(c, write_bin_error(d, "KEY_EEXISTS", 0))
  BY <1>1 DEF process_bin_delete, BinRest, net, client
<1>3. conn[c].substate = "del_header"
  BY <1>2 DEF Complete
<1>4. /\ Loose(d, DOMAIN store.item) /\ ~Collecting(d) /\ d.state = "nread" /\ d.proto = "binary"
      /\ DOMAIN d = ConnFields /\ StoreOK(store) /\ d.rbuf \in Seq(UnitsOf(reqs[c])) /\ k \in Keys
      /\ Fine(d, store, reqs[c], seen[c])
  <2>1. conn[c].substate \notin {"set_value", "sasl_auth_data"} /\ conn[c].substate # "flush_exptime"
    BY <1>3
  <2> QED BY <1>1, <1>2, <2>1, KeyIs
<1>5. Got(store, k, g)
  BY <1>1, <1>4, GetIs
<1>6. ASSUME NEW err, Set(c, write_bin_error(d, err, 0)), Goes(store, store', {}), Shift(store, store', None, 0) PROVE Clean'
  <2>1. PICK e : e = write_bin_error(d, err, 0)
    OBVIOUS
  <2>2. 0 \in Nat
    OBVIOUS
  <2>3. Bare(e, DOMAIN store.item) /\ e.rbuf = d.rbuf
    BY <1>4, <2>1, <2>2, BinErrorIs
  <2>4. Set(c, e) /\ e.rbuf \in Seq(UnitsOf(reqs[c])) /\ conn[c].state # "hung"
        /\ Loose(conn[c], DOMAIN store.item) /\ ~Collecting(conn[c])
    BY <1>1, <1>4, <1>6, <2>1, <2>3
  <2> QED BY <1>2, <1>6, <2>3, <2>4, EndStep
<1>7. CASE g.it = None /\ store' = g.s /\ Set(c, write_bin_error(d, "KEY_ENOENT", 0))
  BY <1>5, <1>6, <1>7 DEF Got
<1>8. CASE g.it # None /\ store' = do_item_remove(g.s, g.it) /\ Set(c, write_bin_error(d, "KEY_EEXISTS", 0))
  BY <1>4, <1>5, <1>6, <1>8, GotReturned
<1>9. CASE g.it # None /\ store' = g.s /\ Set(c, [d EXCEPT !.purge = g.it])
  <2>1. PICK t, i, e : t = g.s /\ i = g.it /\ e = Purged(d, i)
    OBVIOUS
  <2>2. /\ i \in DOMAIN store.item /\ StoreOK(t) /\ DOMAIN t.item = DOMAIN store.item
        /\ Goes(store, t, {}) /\ Shift(store, t, i, 1) /\ i \in DOMAIN t.item
    BY <1>5, <1>9, <2>1 DEF Got
  <2>3. Set(c, e)
    BY <1>9, <2>1 DEF Purged
  <2>4. Loose(d, DOMAIN t.item)
    BY <1>4, <2>2
  <2>5. Fine(d, t, reqs[c], seen[c])
    <3>1. \A j \in DOMAIN store.item : ~(Mine(d, j) >= 1)
      BY <1>4, LooseHolds
    <3>2. Ages(store, t)
      BY <2>2 DEF Goes
    <3> QED BY <1>4, <2>2, <3>1, <3>2, FineStays
  <2>6. d.cmd = "delete"
    BY <1>1, <1>3, <1>4 DEF Fine
  <2>7. /\ Fine(e, t, reqs[c], seen[c]) /\ e.rbuf = d.rbuf
        /\ \A j \in DOMAIN t.item : Mine(e, j) = IF j = i THEN 1 ELSE 0
    BY <1>4, <2>1, <2>2, <2>4, <2>5, <2>6, PurgeIs
  <2>8. \A j \in DOMAIN store.item : Mine(e, j) = IF j = i THEN 1 ELSE 0
    BY <2>2, <2>7
  <2>9. /\ Only(conn, conn', c, e) /\ conn[c].state # "hung" /\ Loose(conn[c], DOMAIN store.item) /\ ~Collecting(conn[c])
        /\ e.rbuf \in Seq(UnitsOf(reqs[c])) /\ Goes(store, store', {}) /\ Shift(store, store', i, 1)
        /\ Fine(e, store', reqs[c], seen[c])
    BY <1>1, <1>4, <1>9, <2>1, <2>2, <2>3, <2>7, SetIs
  <2> QED BY <1>2, <2>8, <2>9, TakeStep
<1> QED BY <1>2, <1>7, <1>8, <1>9

-----------------------------------------------------------------------------
(* incr, flush and stat of the binary protocol.                            *)

LEMMA BinFlushClean == ASSUME Clean, Counts, NEW c \in Conns, process_bin_flush(c) PROVE Clean'
<1>1. PICK d : d = conn[c]
  OBVIOUS
<1>2. Complete(c, {"flush_exptime"}) /\ UNCHANGED <<seen, sock, reqs, script, lost>>
  BY DEF process_bin_flush, BinRest, net, client
<1>3. conn[c].substate \notin {"set_value", "sasl_auth_data"}
  BY <1>2 DEF Complete
<1>4. /\ Loose(d, DOMAIN store.item) /\ ~Collecting(d) /\ d.state = "nread" /\ d.proto = "binary"
      /\ StoreOK(store) /\ d.rbuf \in Seq(UnitsOf(reqs[c])) /\ BinRequest(c) \in Requests
  BY <1>1, <1>2, <1>3, KeyIs
<1>5. PICK e : e = IF settings.flush_enabled THEN write_bin_response(d, "OK") ELSE write_bin_error(d, "AUTH_ERROR", 0)
  OBVIOUS
<1>6. Set(c, e)
  BY <1>1, <1>5 DEF process_bin_flush
<1>7. Bare(e, DOMAIN store.item) /\ e.rbuf = d.rbuf
  <2>1. 0 \in Nat
    OBVIOUS
  <2> QED BY <1>4, <1>5, <2>1, BinErrorIs, BinResponseIs
<1>8. PICK x : x = IF d.cmd = "flush" THEN BinRequest(c).exp ELSE 0
  OBVIOUS
<1>9. x \in Nat
  BY <1>4, <1>8, MenusAssumption
<1>10. store' = IF settings.flush_enabled THEN Flush(store, x) ELSE store
  BY <1>1, <1>8 DEF process_bin_flush
<1>11. Goes(store, store', {}) /\ Shift(store, store', None, 0)
  BY <1>4, <1>9, <1>10, FlushGoes, GoesNowhere
<1>12. e.rbuf \in Seq(UnitsOf(reqs[c])) /\ conn[c].state # "hung" /\ Loose(conn[c], DOMAIN store.item) /\ ~Collecting(conn[c])
  BY <1>1, <1>4, <1>7
<1> QED BY <1>2, <1>6, <1>7, <1>11, <1>12, EndStep

LEMMA BinStatClean == ASSUME Clean, Counts, NEW c \in Conns, process_bin_stat(c), ooms' = 0 PROVE Clean'
<1>1. PICK d : d = conn[c]
  OBVIOUS
<1>2. Complete(c, {"stat"}) /\ UNCHANGED <<store, seen, sock, reqs, script, lost>>
  BY DEF process_bin_stat, net, client
<1>3. conn[c].substate \notin {"set_value", "sasl_auth_data"}
  BY <1>2 DEF Complete
<1>4. /\ Loose(d, DOMAIN store.item) /\ ~Collecting(d) /\ d.state = "nread" /\ d.proto = "binary"
      /\ DOMAIN d = ConnFields /\ StoreOK(store) /\ d.rbuf \in Seq(UnitsOf(reqs[c]))
  BY <1>1, <1>2, <1>3, KeyIs
<1>5. ~NoMemory
  BY DEF NoMemory, Counts
<1>6. PICK e \in {write_and_free(d, "END"), write_bin_error(d, "KEY_ENOENT", 0)} : Set(c, e)
  BY <1>1, <1>5 DEF process_bin_stat
<1>7. Bare(e, DOMAIN store.item) /\ e.rbuf = d.rbuf
  <2>1. CASE e = write_bin_error(d, "KEY_ENOENT", 0)
    <3>1. 0 \in Nat
      OBVIOUS
    <3> QED BY <1>4, <2>1, <3>1, BinErrorIs
  <2>2. CASE e = write_and_free(d, "END")
    <3>1. /\ DOMAIN e = ConnFields /\ e.ilist = d.ilist /\ e.item = d.item /\ e.purge = d.purge /\ e.ileft = d.ileft
          /\ e.write_and_go = "new_cmd" /\ e.sbytes = d.sbytes /\ e.rlbytes = d.rlbytes
          /\ e.iov = d.iov /\ e.rbuf = d.rbuf /\ e.state = "write" /\ e.proto = "binary"
      BY <1>4, <2>2 DEF write_and_free, ConnFields
    <3> QED BY <1>4, <3>1 DEF Bare, Loose, Collecting
  <2> QED BY <1>6, <2>1, <2>2
<1>8. Goes(store, store', {}) /\ Shift(store, store', None, 0)
  BY <1>2, <1>4, GoesNowhere
<1>9. e.rbuf \in Seq(UnitsOf(reqs[c])) /\ conn[c].state # "hung" /\ Loose(conn[c], DOMAIN store.item) /\ ~Collecting(conn[c])
  BY <1>1, <1>4, <1>7
<1> QED BY <1>2, <1>6, <1>7, <1>8, <1>9, EndStep

\* A counter that is missing is to be created: the connection waits for nothing more.
LEMMA BinDeltaClean == ASSUME Clean, Counts, NEW c \in Conns, complete_incr_bin(c) PROVE Clean'
<1>1. PICK d, r, k, x : d = conn[c] /\ r = BinRequest(c) /\ k = r.keys[1] /\ x = CasOf(c, r)
  OBVIOUS
<1>2. Complete(c, {"incr_header"}) /\ UNCHANGED <<seen, sock, reqs, script>> /\ lost' = Forget(Leaks(store, k))
  BY <1>1 DEF complete_incr_bin, BinRest, net, client
<1>3. conn[c].substate = "incr_header"
  BY <1>2 DEF Complete
<1>4. /\ Loose(d, DOMAIN store.item) /\ ~Collecting(d) /\ d.state = "nread" /\ d.proto = "binary"
      /\ DOMAIN d = ConnFields /\ StoreOK(store) /\ d.rbuf \in Seq(UnitsOf(reqs[c])) /\ k \in Keys
      /\ d.req \in DOMAIN reqs[c] /\ Fine(d, store, reqs[c], seen[c])
  <2>1. conn[c].substate \notin {"set_value", "sasl_auth_data"} /\ conn[c].substate # "flush_exptime"
    BY <1>3
  <2> QED BY <1>1, <1>2, <2>1, KeyIs
<1>5. PICK a \in do_add_delta(store, k, d.cmd = "incr", r.delta, x) :
        /\ store' = a.s
        /\ Set(c, IF a.ret = "OK" THEN write_bin_response(d, "OK")
                  ELSE IF a.ret # "NOT_FOUND" THEN write_bin_error(d, DeltaError[a.ret], 0)
                  ELSE IF r.create THEN [d EXCEPT !.substate = "incr_create"]
                  ELSE write_bin_error(d, "KEY_ENOENT", 0))
  BY <1>1 DEF complete_incr_bin
<1>6. StoreOK(store') /\ DOMAIN store'.item = DOMAIN store.item
  BY <1>4, <1>5, DeltaIs DEF Goes
<1>7. ASSUME NEW e, Set(c, e), e.rbuf = d.rbuf, Fine(e, store', reqs[c], seen[c]), \A j \in DOMAIN store.item : Mine(e, j) = 0
      PROVE  Clean'
  <2>1. PICK b : b = (d.cmd = "incr")
    OBVIOUS
  <2>2. a \in do_add_delta(store, k, b, r.delta, x) /\ store' = a.s
    BY <1>5, <2>1
  <2>3. /\ Only(conn, conn', c, e) /\ conn[c].state # "hung" /\ Loose(conn[c], DOMAIN store.item) /\ ~Collecting(conn[c])
        /\ e.rbuf \in Seq(UnitsOf(reqs[c]))
    BY <1>1, <1>4, <1>7, SetIs
  <2> QED BY <1>2, <1>4, <1>7, <2>2, <2>3, DeltaStep
<1>8. ASSUME NEW e, Set(c, e), e.rbuf = d.rbuf, Bare(e, DOMAIN store.item) PROVE Clean'
  <2>1. PICK t : t = store'
    OBVIOUS
  <2>2. StoreOK(t) /\ Bare(e, DOMAIN t.item) /\ DOMAIN t.item = DOMAIN store.item
    BY <1>6, <1>8, <2>1
  <2>3. Fine(e, t, reqs[c], seen[c]) /\ \A j \in DOMAIN t.item : Mine(e, j) = 0
    BY <2>2, BareIs
  <2> QED BY <1>7, <1>8, <2>1, <2>2, <2>3
<1>9. CASE a.ret = "OK"
  <2>1. PICK e : e = write_bin_response(d, "OK")
    OBVIOUS
  <2>2. Bare(e, DOMAIN store.item) /\ e.rbuf = d.rbuf
    BY <1>4, <2>1, BinResponseIs
  <2>3. Set(c, e)
    BY <1>5, <1>9, <2>1
  <2> QED BY <1>8, <2>2, <2>3
<1>10. CASE \E err : Set(c, write_bin_error(d, err, 0))
  <2>1. PICK err, e : Set(c, write_bin_error(d, err, 0)) /\ e = write_bin_error(d, err, 0)
    BY <1>10
  <2>2. 0 \in Nat
    OBVIOUS
  <2>3. Bare(e, DOMAIN store.item) /\ e.rbuf = d.rbuf
    BY <1>4, <2>1, <2>2, BinErrorIs
  <2> QED BY <1>8, <2>1, <2>3
<1>11. CASE Set(c, [d EXCEPT !.substate = "incr_create"])
  <2>1. PICK e, t : e = [d EXCEPT !.substate = "incr_create"] /\ t = store'
    OBVIOUS
  <2>2. /\ DOMAIN e = ConnFields /\ e.ilist = d.ilist /\ e.item = d.item /\ e.purge = d.purge /\ e.ileft = d.ileft
        /\ e.write_and_go = d.write_and_go /\ e.sbytes = d.sbytes /\ e.rlbytes = d.rlbytes /\ e.iov = d.iov
        /\ e.rbuf = d.rbuf /\ e.state = "nread" /\ e.proto = "binary" /\ e.substate = "incr_create" /\ e.req = d.req
        /\ e.cmd = d.cmd
    BY <1>4, <2>1 DEF ConnFields
  <2>3. Loose(e, DOMAIN store.item) /\ ~Collecting(e)
    BY <1>4, <2>2 DEF Loose, Collecting
  <2>4. \A j \in DOMAIN store.item : Mine(e, j) = 0
    BY <1>4, <2>3, LooseHolds
  <2>5. reqs[c][d.req].keys[1] \in Keys
    BY <1>1, <1>4 DEF BinRequest
  <2>6. Fine(e, t, reqs[c], seen[c])
    <3>1. IsSeq(e.iov) /\ \A n \in DOMAIN e.iov : PieceOK(e.iov[n], e, t)
      BY <2>3 DEF Loose, Plain, PieceOK
    <3>2. e.ilist \in Seq(DOMAIN t.item) /\ Len(e.ilist) \in Nat /\ e.item = None /\ e.purge = None /\ e.ileft = 0
          /\ e.write_and_go \in {"new_cmd", "swallow", "closing"} /\ {e.sbytes, e.rlbytes} \subseteq Nat
      BY <1>6, <2>1, <2>3 DEF Loose
    <3>3. e.cmd # "cas"
      BY <1>1, <1>4, <2>2 DEF Fine, Loose
    <3> QED BY <1>4, <2>2, <2>3, <2>5, <3>1, <3>2, <3>3 DEF Fine, Filling
  <2> QED BY <1>7, <1>11, <2>1, <2>2, <2>4, <2>6
<1> QED BY <1>5, <1>9, <1>10, <1>11

\* An item that nobody had before it was given to a connection is stored, or not, and given back.
LEMMA FreshStored ==
    ASSUME NEW s, StoreOK(s), NEW k \in Keys, NEW u, NEW i, Fresh(s, k, u, i), NEW comm,
           NEW r \in do_store_item(u, i, comm), r.ret # "HANG"
    PROVE  Goes(s, do_item_remove(r.s, i), {}) /\ Shift(s, do_item_remove(r.s, i), None, 0)
<1>1. /\ StoreOK(u) /\ DOMAIN u.item = DOMAIN s.item /\ i \in DOMAIN s.item /\ Net(s, i) = 0
      /\ Goes(s, u, {}) /\ Shift(s, u, i, 1) /\ Lone(u, i) /\ u.item[i].key \in Keys
  BY DEF Fresh
<1>2. Kept(u, i, r)
  BY <1>1, StoreItemIs
<1>3. PICK v : v = r.s
  OBVIOUS
<1>4. Goes(u, v, {i}) /\ Shift(u, v, None, 0)
  BY <1>2, <1>3 DEF Kept
<1>5. StoreOK(v) /\ DOMAIN v.item = DOMAIN s.item
  BY <1>1, <1>4 DEF Goes
<1>6. \A j \in DOMAIN s.item : Net(s, j) \in Nat /\ Net(u, j) = Net(s, j) + (IF j = i THEN 1 ELSE 0) /\ Net(v, j) = Net(u, j)
  BY <1>1, <1>4, NetIs DEF Shift
<1>7. Net(v, i) >= 1
  BY <1>1, <1>6
<1>8. PICK t : t = do_item_remove(v, i)
  OBVIOUS
<1>9. Goes(v, t, {i}) /\ Shift(v, t, i, -1)
  BY <1>1, <1>5, <1>7, <1>8, RemoveGoes
<1>10. \A j \in DOMAIN s.item : Net(t, j) = Net(s, j)
  BY <1>5, <1>6, <1>9 DEF Shift
<1>11. Goes(s, v, {} \cup {i})
  <2>1. \A j \in DOMAIN s.item : Net(u, j) = 0 => Net(s, j) = 0
    BY <1>6
  <2> QED BY <1>1, <1>4, <2>1, GoesOn
<1>12. Goes(s, v, {i})
  <2>1. {} \cup {i} = {i}
    OBVIOUS
  <2> QED BY <1>11, <2>1
<1>13. Goes(s, t, {i} \cup {i})
  <2>1. \A j \in DOMAIN s.item : Net(v, j) = 0 => Net(s, j) = 0
    BY <1>6
  <2> QED BY <1>9, <1>12, <2>1, GoesOn
<1>14. Goes(s, t, {} \cup {i})
  <2>1. {} \cup {i} = {i} \cup {i}
    OBVIOUS
  <2> QED BY <1>13, <2>1
<1>15. ~Lone(s, i)
  BY <1>1 DEF Lone
<1>16. Goes(s, t, {})
  BY <1>14, <1>15, GoesLess
<1>17. Shift(s, t, None, 0)
  BY <1>6, <1>10 DEF Shift
<1> QED BY <1>3, <1>8, <1>16, <1>17

LEMMA AddNeverHangs ==
    ASSUME NEW s, NEW i, NEW r \in do_store_item(s, i, "add")
    PROVE  r.ret # "HANG"
<1>1. PICK g : g = do_item_get(s, s.item[i].key)
  OBVIOUS
<1>2. PICK old : old = g.it
  OBVIOUS
<1>3. PICK x : x = IF old = None THEN do_item_link(g.s, i) ELSE do_item_replace(g.s, old, i)
  OBVIOUS
<1>4. PICK q \in {[s |-> do_item_update(g.s, old), ret |-> "NOT_STORED"], [s |-> x, ret |-> "STORED"]} :
        r = IF old = None \/ q.ret = "HANG" THEN q ELSE [q EXCEPT !.s = do_item_remove(q.s, old)]
  <2>1. CASE old # None
    BY <1>1, <1>2, <2>1 DEF do_store_item
  <2>2. CASE old = None
    BY <1>1, <1>2, <1>3, <2>2 DEF do_store_item
  <2> QED BY <2>1, <2>2
<1>5. DOMAIN q = {"s", "ret"} /\ q.ret \in {"STORED", "NOT_STORED"}
  BY <1>4
<1> QED BY <1>4, <1>5

LEMMA IncrCreateClean == ASSUME Clean, Counts, NEW c \in Conns, IncrCreate(c) PROVE Clean'
<1>1. PICK d, r, k, x : d = conn[c] /\ r = BinRequest(c) /\ k = r.keys[1] /\ x = realtime(store, r.exp)
  OBVIOUS
<1>2. Complete(c, {"incr_create"}) /\ UNCHANGED <<seen, sock, reqs, script, lost>>
  BY DEF IncrCreate, BinRest, net, client
<1>3. conn[c].substate = "incr_create"
  BY <1>2 DEF Complete
<1>4. /\ Loose(d, DOMAIN store.item) /\ ~Collecting(d) /\ d.state = "nread" /\ d.proto = "binary"
      /\ StoreOK(store) /\ d.rbuf \in Seq(UnitsOf(reqs[c])) /\ k \in Keys
  <2>1. conn[c].substate \notin {"set_value", "sasl_auth_data"} /\ conn[c].substate # "flush_exptime"
    BY <1>3
  <2> QED BY <1>1, <1>2, <2>1, KeyIs
<1>5. PICK a \in do_item_alloc(store, k, Len(r.val), x) :
         IF a.it = None
           THEN store' = a.s /\ Set(c, write_bin_error(d, "ENOMEM", 0))
           ELSE \E t \in do_store_item([a.s EXCEPT !.item[a.it].val = r.val], a.it, "add") :
                  /\ store' = do_item_remove(t.s, a.it)
                  /\ Set(c, IF t.ret = "STORED" THEN write_bin_response(d, "OK")
                            ELSE write_bin_error(d, "NOT_STORED", 0))
  BY <1>1 DEF IncrCreate
<1>6. Given(store, k, a)
  BY <1>4, <1>5, AllocIs
<1>7. ASSUME NEW e \in {write_bin_response(d, "OK"), write_bin_error(d, "NOT_STORED", 0), write_bin_error(d, "ENOMEM", 0)},
             Set(c, e), Goes(store, store', {}), Shift(store, store', None, 0)
      PROVE  Clean'
  <2>1. 0 \in Nat
    OBVIOUS
  <2>2. Bare(e, DOMAIN store.item) /\ e.rbuf = d.rbuf
    BY <1>4, <1>7, <2>1, BinErrorIs, BinResponseIs
  <2>3. e.rbuf \in Seq(UnitsOf(reqs[c])) /\ conn[c].state # "hung" /\ Loose(conn[c], DOMAIN store.item) /\ ~Collecting(conn[c])
    BY <1>1, <1>4, <2>2
  <2> QED BY <1>2, <1>7, <2>2, <2>3, EndStep
<1>8. CASE a.it = None
  <2>1. store' = store
    BY <1>5, <1>6, <1>8 DEF Given
  <2>2. Goes(store, store', {}) /\ Shift(store, store', None, 0)
    BY <1>4, <2>1, GoesNowhere
  <2> QED BY <1>5, <1>7, <1>8, <2>2
<1>9. CASE a.it # None
  <2>1. PICK s, i, y, h : s = a.s /\ i = a.it /\ y = r.val /\ h = [s.item[i] EXCEPT !.val = y]
    OBVIOUS
  <2>2. StoreOK(s) /\ i \in DOMAIN s.item /\ s.item[i].key = k
    BY <1>6, <1>9, <2>1 DEF Given
  <2>3. ItemOK(s.item[i])
    BY <2>2 DEF StoreOK
  <2>4. ItemOK(h) /\ h.ref = s.item[i].ref /\ h.key = k
    BY <2>1, <2>2, <2>3 DEF ItemOK, ItemFields
  <2>5. PICK u : u = Put(s, i, h)
    OBVIOUS
  <2>6. [a.s EXCEPT !.item[a.it].val = r.val] = u
    BY <2>1, <2>2, <2>5 DEF Put, StoreOK, StoreFields
  <2>7. Fresh(store, k, u, i)
    <3>1. h.ref = a.s.item[a.it].ref
      BY <2>1, <2>4
    <3>2. Fresh(store, k, Put(a.s, a.it, h), a.it)
      BY <1>4, <1>6, <1>9, <2>4, <3>1, FreshPut
    <3> QED BY <2>1, <2>5, <3>2
  <2>8. PICK t \in do_store_item(u, i, "add") :
           /\ store' = do_item_remove(t.s, i)
           /\ Set(c, IF t.ret = "STORED" THEN write_bin_response(d, "OK") ELSE write_bin_error(d, "NOT_STORED", 0))
    BY <1>5, <1>9, <2>1, <2>6
  <2>9. t.ret # "HANG"
    BY <2>8, AddNeverHangs
  <2>10. Goes(store, do_item_remove(t.s, i), {}) /\ Shift(store, do_item_remove(t.s, i), None, 0)
    BY <1>4, <2>7, <2>8, <2>9, FreshStored
  <2>11. Goes(store, store', {}) /\ Shift(store, store', None, 0)
    BY <2>8, <2>10
  <2> QED BY <1>7, <2>8, <2>11
<1> QED BY <1>8, <1>9

-----------------------------------------------------------------------------
(* The storage commands and SASL of the binary protocol.                   *)

\* A binary request that reads its data into a new item.
Fills(d, m, i, n, sub) == [d EXCEPT !.cmd = m, !.item = i, !.rlbytes = n, !.state = "nread", !.substate = sub]

LEMMA BinFills ==
    ASSUME NEW t, StoreOK(t), NEW i \in DOMAIN t.item, Lone(t, i), t.item[i].key \in Keys,
           NEW d, Loose(d, DOMAIN t.item), d.proto = "binary", d.state = "nread", NEW rs, NEW sn, t.item[i].cas \in {0, sn.cas},
           d.req \in DOMAIN rs, rs[d.req].keys[1] \in Keys,
           NEW m, NEW n \in Nat, NEW sub \in {"set_value", "sasl_auth_data"}, NEW e, e = Fills(d, m, i, n, sub)
    PROVE  Fine(e, t, rs, sn) /\ e.rbuf = d.rbuf /\ \A j \in DOMAIN t.item : Mine(e, j) = IF j = i THEN 1 ELSE 0
<1>1. DOMAIN d = ConnFields
  BY DEF Loose
<1>2. /\ DOMAIN e = ConnFields /\ e.ilist = d.ilist /\ e.item = i /\ e.purge = d.purge /\ e.ileft = d.ileft
      /\ e.write_and_go = d.write_and_go /\ e.sbytes = d.sbytes /\ e.rlbytes = n
      /\ e.iov = d.iov /\ e.rbuf = d.rbuf /\ e.state = "nread" /\ e.proto = "binary" /\ e.substate = sub /\ e.req = d.req
  BY <1>1 DEF ConnFields, Fills
<1>3. /\ e.ilist \in Seq(DOMAIN t.item) /\ e.item = i /\ e.purge = None /\ e.ileft = 0 /\ Plain(e.iov)
      /\ e.state = "nread" /\ e.proto \in {"ascii", "binary"} /\ Filling(e)
      /\ e.write_and_go \in {"new_cmd", "swallow", "closing"} /\ {e.sbytes, e.rlbytes} \subseteq Nat
      /\ e.cmd = "cas" => t.item[i].cas \in {0, sn.cas}
      /\ e.proto = "binary" => e.req \in DOMAIN rs /\ rs[e.req].keys[1] \in Keys
  BY <1>2 DEF Loose, Filling
<1> QED BY <1>2, <1>3, FillIs

LEMMA BinUpdateClean == ASSUME Clean, Counts, NEW c \in Conns, process_bin_update(c) PROVE Clean'
<1>1. PICK d, r, k, x, n : /\ d = conn[c] /\ r = BinRequest(c) /\ k = r.keys[1] /\ n = r.parts
                           /\ x = IF d.cmd \in {"append", "prepend"} THEN 0 ELSE realtime(store, r.exp)
  OBVIOUS
<1>2. Complete(c, {"set_header"}) /\ UNCHANGED <<seen, sock, reqs, script, lost>>
  BY DEF process_bin_update, BinRest, net, client
<1>3. conn[c].substate = "set_header"
  BY <1>2 DEF Complete
<1>4. /\ Loose(d, DOMAIN store.item) /\ ~Collecting(d) /\ d.state = "nread" /\ d.proto = "binary"
      /\ DOMAIN d = ConnFields /\ StoreOK(store) /\ d.rbuf \in Seq(UnitsOf(reqs[c])) /\ k \in Keys /\ n \in Nat
      /\ d.req \in DOMAIN reqs[c] /\ reqs[c][d.req].keys[1] \in Keys
  <2>1. conn[c].substate \notin {"set_value", "sasl_auth_data"} /\ conn[c].substate # "flush_exptime"
    BY <1>3
  <2>2. BinRequest(c) \in Requests /\ BinRequest(c).keys[1] \in Keys /\ conn[c].req \in DOMAIN reqs[c]
    BY <1>2, <2>1, KeyIs
  <2> QED BY <1>1, <1>2, <2>1, <2>2, KeyIs, MenusAssumption DEF BinRequest
<1>5. PICK a \in Alloc(r, x) :
         IF a.it = None
           THEN \E g : /\ g = (IF d.cmd = "set" THEN do_item_get(a.s, k) ELSE [s |-> a.s, it |-> None])
                       /\ store' = g.s
                       /\ Set(c, [IF r.big THEN write_bin_error(d, "E2BIG", n)
                                  ELSE [out_of_memory(d, "SERVER_ERROR") EXCEPT !.sbytes = n]
                                    EXCEPT !.write_and_go = "swallow", !.purge = g.it])
           ELSE /\ store' = [a.s EXCEPT !.item[a.it].cas = CasOf(c, r)]
                /\ \E m : Set(c, [d EXCEPT !.cmd = m, !.item = a.it, !.rlbytes = n, !.state = "nread", !.substate = "set_value"])
  BY <1>1 DEF process_bin_update
<1>6. Given(store, k, a)
  BY <1>1, <1>4, <1>5, AllocGiven
<1>7. CASE a.it # None
  <2>1. PICK t, i : t = store' /\ i = a.it
    OBVIOUS
  <2>2. Fresh(store, k, t, i) /\ t.item[i].cas \in {0, seen[c].cas}
    BY <1>4, <1>5, <1>6, <1>7, <2>1, CasPut
  <2>3. PICK m : Set(c, [d EXCEPT !.cmd = m, !.item = i, !.rlbytes = n, !.state = "nread", !.substate = "set_value"])
    BY <1>5, <1>7, <2>1
  <2>4. PICK e : e = Fills(d, m, i, n, "set_value")
    OBVIOUS
  <2>5. /\ StoreOK(t) /\ DOMAIN store.item = DOMAIN t.item /\ i \in DOMAIN t.item /\ Lone(t, i) /\ t.item[i].key \in Keys
        /\ Goes(store, t, {}) /\ Shift(store, t, i, 1)
    BY <1>4, <2>2 DEF Fresh
  <2>6. Fine(e, t, reqs[c], seen[c]) /\ e.rbuf = d.rbuf /\ \A j \in DOMAIN t.item : Mine(e, j) = IF j = i THEN 1 ELSE 0
    <3>1. PICK rs, sn, sub : rs = reqs[c] /\ sn = seen[c] /\ sub = "set_value"
      OBVIOUS
    <3>2. /\ StoreOK(t) /\ i \in DOMAIN t.item /\ Lone(t, i) /\ t.item[i].key \in Keys
          /\ Loose(d, DOMAIN t.item) /\ d.proto = "binary" /\ d.state = "nread" /\ t.item[i].cas \in {0, sn.cas}
          /\ d.req \in DOMAIN rs /\ rs[d.req].keys[1] \in Keys /\ n \in Nat
          /\ sub \in {"set_value", "sasl_auth_data"} /\ e = Fills(d, m, i, n, sub)
      BY <1>4, <2>2, <2>4, <2>5, <3>1
    <3>3. Fine(e, t, rs, sn) /\ e.rbuf = d.rbuf /\ \A j \in DOMAIN t.item : Mine(e, j) = IF j = i THEN 1 ELSE 0
      BY <3>2, BinFills
    <3> QED BY <3>1, <3>3
  <2>7. Only(conn, conn', c, e)
    BY <2>3, <2>4, SetIs DEF Fills
  <2>8. /\ Loose(conn[c], DOMAIN store.item) /\ ~Collecting(conn[c]) /\ conn[c].state # "hung"
        /\ e.rbuf \in Seq(UnitsOf(reqs[c])) /\ Fine(e, store', reqs[c], seen[c])
        /\ Goes(store, store', {}) /\ Shift(store, store', i, 1)
        /\ \A j \in DOMAIN store.item : Mine(e, j) = IF j = i THEN 1 ELSE 0
    BY <1>1, <1>4, <2>1, <2>5, <2>6
  <2> QED BY <1>2, <2>7, <2>8, TakeStep
<1>8. CASE a.it = None
  <2>1. a.s = store
    BY <1>6, <1>8 DEF Given
  <2>2. PICK o : o = IF r.big THEN write_bin_error(d, "E2BIG", n) ELSE [write_bin_error(d, "ENOMEM", 0) EXCEPT !.sbytes = n]
    OBVIOUS
  <2>3. PICK g : /\ g = (IF d.cmd = "set" THEN do_item_get(store, k) ELSE [s |-> store, it |-> None])
                 /\ store' = g.s /\ Set(c, [o EXCEPT !.write_and_go = "swallow", !.purge = g.it])
    <3>1. out_of_memory(d, "SERVER_ERROR") = write_bin_error(d, "ENOMEM", 0)
      BY <1>4 DEF out_of_memory
    <3> QED BY <1>5, <1>8, <2>1, <2>2, <3>1
  <2>4. /\ DOMAIN o = ConnFields /\ o.ilist = d.ilist /\ o.item = d.item /\ o.purge = d.purge /\ o.ileft = d.ileft
        /\ o.sbytes \in Nat /\ o.rlbytes = d.rlbytes /\ o.cmd = d.cmd
        /\ (\E what : o.iov = <<Piece(d, what)>>) /\ o.rbuf = d.rbuf /\ o.state = "mwrite" /\ o.proto = "binary"
    <3>1. {d.sbytes, d.rlbytes} \subseteq Nat
      BY <1>4 DEF Loose
    <3>2. CASE r.big
      BY <1>4, <2>2, <3>1, <3>2 DEF write_bin_error, add_bin_header, ConnFields
    <3>3. CASE ~r.big
      BY <1>4, <2>2, <3>1, <3>3 DEF write_bin_error, add_bin_header, ConnFields
    <3> QED BY <3>2, <3>3
  <2>5. PICK f, e : f = [o EXCEPT !.write_and_go = "swallow"] /\ e = [o EXCEPT !.write_and_go = "swallow", !.purge = g.it]
    OBVIOUS
  <2>6. /\ DOMAIN f = ConnFields /\ f.ilist = o.ilist /\ f.item = o.item /\ f.purge = o.purge /\ f.ileft = o.ileft
        /\ f.write_and_go = "swallow" /\ f.sbytes = o.sbytes /\ f.rlbytes = o.rlbytes
        /\ f.iov = o.iov /\ f.rbuf = o.rbuf /\ f.state = "mwrite" /\ f.cmd = o.cmd /\ f.proto = "binary"
    BY <2>4, <2>5 DEF ConnFields
  <2>7. Bare(f, DOMAIN store.item) /\ f.rbuf \in Seq(UnitsOf(reqs[c]))
    <3>1. Plain(f.iov)
      BY <2>4, <2>6, PlainIs
    <3> QED BY <1>4, <2>4, <2>6, <3>1 DEF Bare, Loose, Collecting
  <2>8. e = Purged(f, g.it) /\ Set(c, e)
    BY <2>3, <2>4, <2>5 DEF ConnFields, Purged
  <2>9. conn[c].state # "hung" /\ Loose(conn[c], DOMAIN store.item) /\ ~Collecting(conn[c])
    BY <1>1, <1>4
  <2>10. CASE d.cmd = "set"
    <3>1. TRUE \in BOOLEAN /\ g = IF TRUE THEN do_item_get(store, k) ELSE [s |-> store, it |-> None]
      BY <2>3, <2>10
    <3>2. f.cmd # "delete" /\ f.state \in {"new_cmd", "write", "mwrite"} /\ store' = g.s
      BY <2>3, <2>4, <2>6, <2>10
    <3> QED BY <1>2, <1>4, <2>7, <2>8, <2>9, <3>1, <3>2, OldStep
  <2>11. CASE d.cmd # "set"
    <3>1. g.it = None /\ store' = store
      BY <2>3, <2>11
    <3>2. e = f
      <4>1. f.purge = None
        BY <1>4, <2>4, <2>6 DEF Loose
      <4> QED BY <2>4, <2>5, <3>1, <4>1 DEF ConnFields
    <3>3. Goes(store, store', {}) /\ Shift(store, store', None, 0)
      BY <1>4, <3>1, GoesNowhere
    <3> QED BY <1>2, <2>7, <2>8, <2>9, <3>2, <3>3, EndStep
  <2> QED BY <2>10, <2>11
<1> QED BY <1>7, <1>8

\* The credentials are read into an item; the reference of one in chunks is lost.
LEMMA SaslAuthClean == ASSUME Clean, Counts, NEW c \in Conns, process_bin_sasl_auth(c) PROVE Clean'
<1>1. PICK d, r, k, n : d = conn[c] /\ r = BinRequest(c) /\ k = r.keys[1] /\ n = r.parts
  OBVIOUS
<1>2. Complete(c, {"sasl_auth"}) /\ UNCHANGED <<seen, sock, reqs, script>>
  BY DEF process_bin_sasl_auth, BinRest, net, client
<1>3. conn[c].substate = "sasl_auth"
  BY <1>2 DEF Complete
<1>4. /\ Loose(d, DOMAIN store.item) /\ ~Collecting(d) /\ d.state = "nread" /\ d.proto = "binary"
      /\ DOMAIN d = ConnFields /\ StoreOK(store) /\ d.rbuf \in Seq(UnitsOf(reqs[c])) /\ k \in Keys /\ n \in Nat
      /\ d.req \in DOMAIN reqs[c] /\ reqs[c][d.req].keys[1] \in Keys
  <2>1. conn[c].substate \notin {"set_value", "sasl_auth_data"} /\ conn[c].substate # "flush_exptime"
    BY <1>3
  <2>2. BinRequest(c) \in Requests /\ BinRequest(c).keys[1] \in Keys /\ conn[c].req \in DOMAIN reqs[c]
    BY <1>2, <2>1, KeyIs
  <2> QED BY <1>1, <1>2, <2>1, <2>2, KeyIs, MenusAssumption DEF BinRequest
<1>5. PICK o, f : o = write_bin_error(d, "ENOMEM", n) /\ f = [o EXCEPT !.write_and_go = "swallow"]
  OBVIOUS
<1>6. Bare(f, DOMAIN store.item) /\ f.rbuf \in Seq(UnitsOf(reqs[c]))
  <2>1. Bare(o, DOMAIN store.item) /\ o.rbuf = d.rbuf /\ o.proto = "binary"
    BY <1>4, <1>5, BinErrorIs
  <2>2. DOMAIN o = ConnFields
    BY <2>1 DEF Bare, Loose
  <2>3. /\ DOMAIN f = ConnFields /\ f.ilist = o.ilist /\ f.item = o.item /\ f.purge = o.purge /\ f.ileft = o.ileft
        /\ f.write_and_go = "swallow" /\ f.sbytes = o.sbytes /\ f.rlbytes = o.rlbytes
        /\ f.iov = o.iov /\ f.rbuf = o.rbuf /\ f.state = o.state /\ f.cmd = o.cmd /\ f.proto = "binary"
    BY <1>5, <2>1, <2>2 DEF ConnFields
  <2> QED BY <1>4, <2>1, <2>3 DEF Bare, Loose, Collecting
<1>7. conn[c].state # "hung" /\ Loose(conn[c], DOMAIN store.item) /\ ~Collecting(conn[c])
  BY <1>1, <1>4
<1>8. CASE Set(c, write_bin_error(d, "UNKNOWN_COMMAND", n)) /\ UNCHANGED <<store, lost>>
  <2>1. PICK e : e = write_bin_error(d, "UNKNOWN_COMMAND", n)
    OBVIOUS
  <2>2. Bare(e, DOMAIN store.item) /\ e.rbuf = d.rbuf
    BY <1>4, <2>1, BinErrorIs
  <2>3. Goes(store, store', {}) /\ Shift(store, store', None, 0)
    BY <1>4, <1>8, GoesNowhere
  <2>4. Set(c, e) /\ e.rbuf \in Seq(UnitsOf(reqs[c])) /\ UNCHANGED <<seen, sock, reqs, script, lost>>
    BY <1>2, <1>4, <1>8, <2>1, <2>2
  <2> QED BY <1>7, <2>2, <2>3, <2>4, EndStep
<1>9. ASSUME NEW a \in Alloc(r, 0), store' = a.s,
             \/ a.it = None /\ Set(c, f) /\ UNCHANGED lost
             \/ a.it # None /\ Set(c, f) /\ lost' = Forget({a.it})
             \/ /\ a.it # None /\ UNCHANGED lost
                /\ Set(c, [d EXCEPT !.item = a.it, !.rlbytes = n, !.substate = "sasl_auth_data"])
      PROVE  Clean'
  <2>1. Given(store, k, a)
    BY <1>1, <1>4, <1>9, AllocGiven
  <2>2. CASE a.it = None
    <3>1. store' = store /\ Set(c, f) /\ UNCHANGED <<seen, sock, reqs, script, lost>>
      BY <1>2, <1>9, <2>1, <2>2 DEF Given
    <3>2. Goes(store, store', {}) /\ Shift(store, store', None, 0)
      BY <1>4, <3>1, GoesNowhere
    <3> QED BY <1>6, <1>7, <3>1, <3>2, EndStep
  <2>3. CASE a.it # None
    <3>1. PICK t, i : t = store' /\ i = a.it
      OBVIOUS
    <3>2. /\ StoreOK(t) /\ DOMAIN t.item = DOMAIN store.item /\ i \in DOMAIN t.item /\ Goes(store, t, {})
          /\ Shift(store, t, i, 1) /\ Lone(t, i) /\ t.item[i].key \in Keys /\ t.item[i].cas = 0
      BY <1>4, <1>9, <2>1, <2>3, <3>1 DEF Given
    <3>3. CASE Set(c, f) /\ lost' = Forget({a.it})
      <4>1. lost' \in [Items -> Nat] /\ \A j \in Items : lost'[j] = lost[j] + (IF j \in {i} THEN 1 ELSE 0)
        BY <3>1, <3>3, LostIs
      <4>2. \A j \in DOMAIN store.item : Net(store, j) \in Nat /\ lost[j] \in Nat /\ j \in Items
        <5>1. \A j \in DOMAIN store.item : Net(store, j) \in Nat
          BY <1>4, NetIs
        <5>2. DOMAIN store.item \subseteq Items
          BY <1>4 DEF StoreOK
        <5> QED BY <5>1, <5>2 DEF Counts
      <4>3. Fine(f, t, reqs[c], seen[c]) /\ \A j \in DOMAIN t.item : Mine(f, j) = 0
        <5>1. Bare(f, DOMAIN t.item)
          BY <1>6, <3>2
        <5> QED BY <3>2, <5>1, BareIs
      <4>4. \A j \in DOMAIN store.item : Mine(conn[c], j) = 0
        BY <1>4, <1>7, LooseHolds
      <4>5. Balance(store, store', lost, lost', conn[c], f)
        <5>1. ASSUME NEW j \in DOMAIN store.item
              PROVE  Net(t, j) = Net(store, j) + (lost'[j] - lost[j]) + (Mine(f, j) - Mine(conn[c], j)) /\ Net(t, j) \in Int
          <6>1. PICK y \in {0, 1} : y = IF j = i THEN 1 ELSE 0
            OBVIOUS
          <6>2. Net(t, j) = Net(store, j) + y /\ lost'[j] = lost[j] + y
            BY <3>2, <4>1, <4>2, <6>1 DEF Shift
          <6>3. Mine(f, j) = 0 /\ Mine(conn[c], j) = 0
            BY <3>2, <4>3, <4>4
          <6> QED BY <4>2, <6>2, <6>3
        <5> QED BY <1>7, <3>1, <5>1 DEF Balance
      <4>6. Moves(store, store', {}) /\ Only(conn, conn', c, f) /\ Fine(f, store', reqs[c], seen[c])
        BY <3>1, <3>2, <3>3, <4>3, GoesMoves, SetIs
      <4> QED BY <1>2, <1>6, <4>1, <4>5, <4>6, StepOn
    <3>4. CASE Set(c, [d EXCEPT !.item = a.it, !.rlbytes = n, !.substate = "sasl_auth_data"]) /\ UNCHANGED lost
      <4>1. PICK m, e : m = d.cmd /\ e = Fills(d, m, i, n, "sasl_auth_data")
        OBVIOUS
      <4>2. Set(c, e)
        BY <1>4, <3>1, <3>4, <4>1 DEF Fills, ConnFields
      <4>3. PICK rs, sn, sub : rs = reqs[c] /\ sn = seen[c] /\ sub = "sasl_auth_data"
        OBVIOUS
      <4>4. /\ StoreOK(t) /\ i \in DOMAIN t.item /\ Lone(t, i) /\ t.item[i].key \in Keys
            /\ Loose(d, DOMAIN t.item) /\ d.proto = "binary" /\ d.state = "nread" /\ t.item[i].cas \in {0, sn.cas}
            /\ d.req \in DOMAIN rs /\ rs[d.req].keys[1] \in Keys /\ n \in Nat
            /\ sub \in {"set_value", "sasl_auth_data"} /\ e = Fills(d, m, i, n, sub)
        BY <1>4, <3>2, <4>1, <4>3
      <4>5. Fine(e, t, rs, sn) /\ e.rbuf = d.rbuf /\ \A j \in DOMAIN t.item : Mine(e, j) = IF j = i THEN 1 ELSE 0
        BY <4>4, BinFills
      <4>6. /\ Only(conn, conn', c, e) /\ e.rbuf \in Seq(UnitsOf(reqs[c])) /\ Fine(e, store', reqs[c], seen[c])
            /\ Goes(store, store', {}) /\ Shift(store, store', i, 1)
            /\ \A j \in DOMAIN store.item : Mine(e, j) = IF j = i THEN 1 ELSE 0
            /\ UNCHANGED <<seen, sock, reqs, script, lost>>
        BY <1>2, <1>4, <3>1, <3>2, <3>4, <4>2, <4>3, <4>5, SetIs
      <4> QED BY <1>7, <4>6, TakeStep
    <3> QED BY <1>9, <2>3, <3>3, <3>4
  <2> QED BY <2>2, <2>3
<1> QED BY <1>1, <1>5, <1>8, <1>9 DEF process_bin_sasl_auth

LEMMA SaslCompleteClean == ASSUME Clean, Counts, NEW c \in Conns, process_bin_complete_sasl_auth(c) PROVE Clean'
<1>1. PICK d, i : d = conn[c] /\ i = d.item
  OBVIOUS
<1>2. /\ d.state = "nread" /\ d.proto = "binary" /\ d.substate = "sasl_auth_data"
      /\ UNCHANGED <<driven, seen, sock, reqs, script, lost>> /\ store' = do_item_unlink(store, i)
  BY <1>1 DEF process_bin_complete_sasl_auth, Complete, InState, BinRest, net, client
<1>3. Fine(d, store, reqs[c], seen[c])
  BY <1>1 DEF Clean
<1>4. i # None
  BY <1>1, <1>2, <1>3 DEF Fine, Filling
<1>5. /\ i \in DOMAIN store.item /\ Lone(store, i)
      /\ \A j \in DOMAIN store.item : Mine(conn[c], j) = IF j = i THEN 1 ELSE 0
      /\ Plain(d.iov) /\ DOMAIN d = ConnFields /\ d.ilist \in Seq(DOMAIN store.item)
      /\ d.ileft = 0 /\ d.purge = None /\ StoreOK(store) /\ d.write_and_go \in {"new_cmd", "swallow", "closing"}
      /\ {d.sbytes, d.rlbytes} \subseteq Nat
  BY <1>1, <1>2, <1>4, FilledIs
<1>6. store' = store
  BY <1>2, <1>5 DEF Lone, do_item_unlink
<1>7. PICK b : b = [d EXCEPT !.authenticated = TRUE]
  OBVIOUS
<1>8. PICK e \in {write_bin_response(b, "OK"), write_bin_error(d, "AUTH_CONTINUE", 0), write_bin_error(d, "AUTH_ERROR", 0)} : Set(c, e)
  BY <1>1, <1>7 DEF process_bin_complete_sasl_auth
<1>9. /\ DOMAIN e = ConnFields /\ e.ilist = d.ilist /\ e.item = i /\ e.purge = None /\ e.ileft = 0 /\ e.rbuf = d.rbuf
      /\ e.proto = "binary" /\ e.state \in {"new_cmd", "mwrite"} /\ (e.iov = d.iov \/ \E x, what : e.iov = <<Piece(x, what)>>)
      /\ e.write_and_go \in {"new_cmd", "swallow", "closing"} /\ e.sbytes = d.sbytes /\ e.rlbytes = d.rlbytes
  <2>1. CASE e = write_bin_response(b, "OK")
    <3>1. /\ DOMAIN b = ConnFields /\ b.ilist = d.ilist /\ b.item = i /\ b.purge = None /\ b.ileft = 0 /\ b.rbuf = d.rbuf
          /\ b.proto = "binary" /\ b.iov = d.iov /\ b.write_and_go = d.write_and_go /\ b.sbytes = d.sbytes /\ b.rlbytes = d.rlbytes
      BY <1>1, <1>2, <1>5, <1>7 DEF ConnFields
    <3> QED BY <1>5, <2>1, <3>1 DEF write_bin_response, add_bin_header, conn_set_state, ConnFields
  <2>2. CASE \E err : e = write_bin_error(d, err, 0)
    BY <1>1, <1>2, <1>5, <2>2 DEF write_bin_error, add_bin_header, ConnFields
  <2> QED BY <1>8, <2>1, <2>2
<1>10. Plain(e.iov) /\ ~Collecting(e)
  BY <1>5, <1>9, PlainIs DEF Collecting
<1>11. Hand(e, i)
  BY <1>4, <1>9, <1>10 DEF Hand
<1>12. \A j \in DOMAIN store.item : Mine(e, j) = Mine(conn[c], j)
  <2>1. \A j : j # None => Mine(e, j) = IF j = i THEN 1 ELSE 0
    BY <1>11, OneHeld
  <2>2. \A j \in DOMAIN store.item : j # None
    BY <1>5, StoreAssumption DEF StoreOK
  <2> QED BY <1>5, <2>1, <2>2
<1>13. Fine(e, store, reqs[c], seen[c])
  <2>1. IsSeq(e.iov) /\ \A n \in DOMAIN e.iov : PieceOK(e.iov[n], e, store)
    BY <1>10 DEF Plain, PieceOK
  <2>2. e.ilist \in Seq(DOMAIN store.item) /\ Len(e.ilist) \in Nat /\ {e.sbytes, e.rlbytes} \subseteq Nat
    BY <1>5, <1>9
  <2> QED BY <1>5, <1>9, <1>10, <2>1, <2>2 DEF Fine
<1>14. /\ Only(conn, conn', c, e) /\ UNCHANGED <<store, seen, sock, reqs, script, lost>>
       /\ conn[c].state # "hung" /\ e.rbuf \in Seq(UnitsOf(reqs[c]))
  BY <1>1, <1>2, <1>6, <1>8, <1>9, BufferIs, SetIs
<1> QED BY <1>12, <1>13, <1>14, KeepStep

-----------------------------------------------------------------------------
(* Every step.                                                             *)

\* The menu stays, failures are counted, and lost references are added up.
Keeps == menu' = menu /\ ooms' \in {ooms, ooms + 1} /\ (lost' = lost \/ \E S : lost' = Forget(S))

LEMMA AsciiKeeps == ASSUME NEW c \in Conns, AsciiStep(c) PROVE Keeps
<1>1. CASE NoLine(c)
  BY <1>1 DEF NoLine, net, client, NoMemory, BinRest, Keeps
<1>2. CASE GetBegin(c)
  BY <1>2 DEF GetBegin, Reply, net, client, Keeps
<1>3. CASE GetKey(c)
  BY <1>3 DEF GetKey, net, client, NoMemory, BinRest, Keeps
<1>4. CASE GetKeyNoMemory(c)
  BY <1>4 DEF GetKeyNoMemory, net, client, NoMemory, BinRest, Keeps
<1>5. CASE GetLongKey(c)
  BY <1>5 DEF GetLongKey, net, client, NoMemory, BinRest, Keeps
<1>6. CASE GetEnd(c)
  BY <1>6 DEF GetEnd, Reply, net, client, Keeps
<1>7. CASE GetEndNoMemory(c)
  BY <1>7 DEF GetEndNoMemory, net, client, NoMemory, BinRest, Keeps
<1>8. CASE process_update_command(c)
  BY <1>8 DEF process_update_command, Reply, net, client, Keeps
<1>9. CASE complete_nread_ascii(c)
  BY <1>9 DEF complete_nread_ascii, net, client, NoMemory, BinRest, Keeps
<1>10. CASE ItemUnlink(c)
  BY <1>10 DEF ItemUnlink, net, client, NoMemory, BinRest, Keeps
<1>11. CASE process_delete_command(c)
  BY <1>11 DEF process_delete_command, Reply, net, client, Keeps
<1>12. CASE process_touch_command(c)
  BY <1>12 DEF process_touch_command, Reply, net, client, Keeps
<1>13. CASE process_arithmetic_command(c)
  BY <1>13 DEF process_arithmetic_command, Reply, net, client, Keeps
<1>14. CASE flush_all(c)
  BY <1>14 DEF flush_all, net, client, NoMemory, BinRest, Keeps
<1>15. CASE Quit(c)
  BY <1>15 DEF Quit, Reply, net, client, Keeps
<1>16. CASE PlainAnswer(c)
  BY <1>16 DEF PlainAnswer, Reply, net, client, Keeps
<1>17. CASE process_stat(c)
  BY <1>17 DEF process_stat, Reply, net, client, Keeps, NoMemory
<1>18. CASE Handover(c)
  BY <1>18 DEF Handover, Reply, net, client, Keeps
<1>19. CASE SettingCommand(c)
  BY <1>19 DEF SettingCommand, net, client, NoMemory, BinRest, Keeps
<1>20. CASE AskThread(c)
  BY <1>20 DEF AskThread, Reply, net, client, Keeps
<1> QED BY <1>1, <1>2, <1>3, <1>4, <1>5, <1>6, <1>7, <1>8, <1>9, <1>10, <1>11, <1>12, <1>13, <1>14, <1>15, <1>16, <1>17, <1>18, <1>19, <1>20 DEF AsciiStep

LEMMA BinaryKeeps == ASSUME NEW c \in Conns, BinaryStep(c) PROVE Keeps
<1>1. CASE NoHeader(c)
  BY <1>1 DEF NoHeader, Reply, net, client, Keeps
<1>2. CASE BadMagic(c)
  BY <1>2 DEF BadMagic, Reply, net, client, Keeps
<1>3. CASE dispatch_bin_command(c)
  BY <1>3 DEF dispatch_bin_command, Reply, net, client, Keeps
<1>4. CASE BinReadKeyNoMemory(c)
  BY <1>4 DEF BinReadKeyNoMemory, net, client, NoMemory, BinRest, Keeps
<1>5. CASE process_bin_get_or_touch(c)
  BY <1>5 DEF process_bin_get_or_touch, net, client, NoMemory, BinRest, Keeps
<1>6. CASE process_bin_update(c)
  BY <1>6 DEF process_bin_update, net, client, NoMemory, BinRest, Keeps
<1>7. CASE complete_update_bin(c)
  BY <1>7 DEF complete_update_bin, net, client, NoMemory, BinRest, Keeps
<1>8. CASE process_bin_delete(c)
  BY <1>8 DEF process_bin_delete, net, client, NoMemory, BinRest, Keeps
<1>9. CASE complete_incr_bin(c)
  BY <1>9 DEF complete_incr_bin, net, client, NoMemory, BinRest, Keeps
<1>10. CASE IncrCreate(c)
  BY <1>10 DEF IncrCreate, net, client, NoMemory, BinRest, Keeps
<1>11. CASE process_bin_flush(c)
  BY <1>11 DEF process_bin_flush, net, client, NoMemory, BinRest, Keeps
<1>12. CASE process_bin_stat(c)
  BY <1>12 DEF process_bin_stat, net, client, NoMemory, BinRest, Keeps
<1>13. CASE process_bin_sasl_auth(c)
  BY <1>13 DEF process_bin_sasl_auth, net, client, NoMemory, BinRest, Keeps
<1>14. CASE process_bin_complete_sasl_auth(c)
  BY <1>14 DEF process_bin_complete_sasl_auth, net, client, NoMemory, BinRest, Keeps
<1> QED BY <1>1, <1>2, <1>3, <1>4, <1>5, <1>6, <1>7, <1>8, <1>9, <1>10, <1>11, <1>12, <1>13, <1>14 DEF BinaryStep

LEMMA DriveKeeps == ASSUME NEW c \in Conns, drive_machine(c) PROVE Keeps
<1>1. CASE NewCmd(c)
  BY <1>1 DEF NewCmd, net, client, NoMemory, Keeps
<1>2. CASE Waiting(c)
  BY <1>2 DEF Waiting, net, client, NoMemory, Keeps
<1>3. CASE Read(c)
  BY <1>3 DEF Read, net, client, NoMemory, Keeps
<1>4. CASE ReadNoMemory(c)
  BY <1>4 DEF ReadNoMemory, net, client, NoMemory, Keeps
<1>5. CASE NreadBuffered(c)
  BY <1>5 DEF NreadBuffered, net, client, NoMemory, Keeps
<1>6. CASE NreadSocket(c)
  BY <1>6 DEF NreadSocket, net, client, NoMemory, Keeps
<1>7. CASE NreadNoMemory(c)
  BY <1>7 DEF NreadNoMemory, net, client, NoMemory, Keeps
<1>8. CASE Swallow(c)
  BY <1>8 DEF Swallow, net, client, NoMemory, Keeps
<1>9. CASE TransmitSome(c)
  BY <1>9 DEF TransmitSome, net, client, NoMemory, Keeps
<1>10. CASE TransmitBlocked(c)
  BY <1>10 DEF TransmitBlocked, net, client, NoMemory, Keeps
<1>11. CASE TransmitComplete(c)
  BY <1>11 DEF TransmitComplete, net, client, NoMemory, Keeps
<1>12. CASE conn_close(c)
  BY <1>12 DEF conn_close, net, client, NoMemory, Keeps
<1>13. CASE Watch(c)
  BY <1>13 DEF Watch, net, client, NoMemory, Keeps
<1> QED BY <1>1, <1>2, <1>3, <1>4, <1>5, <1>6, <1>7, <1>8, <1>9, <1>10, <1>11, <1>12, <1>13, AsciiKeeps, BinaryKeeps DEF drive_machine

LEMMA NextKeeps == ASSUME ServerNext PROVE Keeps
<1>1. CASE Tick
  BY <1>1 DEF Tick, net, client, Keeps
<1>2. ASSUME NEW c \in Conns, Serve(c) PROVE Keeps
  <2>1. CASE event_handler(c)
    BY <2>1 DEF event_handler, net, client, Keeps
  <2>2. CASE SideThread(c)
    BY <2>2 DEF SideThread, net, Keeps
  <2> QED BY <1>2, <2>1, <2>2, DriveKeeps DEF Serve
<1>3. ASSUME NEW c \in Conns, Send(c) \/ Arrive(c) \/ HangUp(c) PROVE Keeps
  BY <1>3 DEF Send, Arrive, HangUp, client, Keeps
<1> QED BY <1>1, <1>2, <1>3 DEF ServerNext

LEMMA AsciiClean == ASSUME Clean, Counts, ooms' = 0, NEW c \in Conns, AsciiStep(c) PROVE Clean'
<1>1. ~GetKeyNoMemory(c) /\ ~GetEndNoMemory(c)
  BY DEF GetKeyNoMemory, GetEndNoMemory, NoMemory, Counts
<1> QED BY <1>1, NoLineClean, GetBeginClean, GetKeyClean, GetLongKeyClean, GetEndClean, UpdateClean, CompleteClean, ItemUnlinkClean, DeleteClean, TouchClean, ArithmeticClean, FlushClean, QuitClean, PlainAnswerClean, StatClean, HandoverClean, SettingCommandClean, AskThreadClean DEF AsciiStep

LEMMA BinaryClean == ASSUME Clean, Counts, ooms' = 0, NEW c \in Conns, BinaryStep(c) PROVE Clean'
<1>1. ~BinReadKeyNoMemory(c)
  BY DEF BinReadKeyNoMemory, NoMemory, Counts
<1> QED BY <1>1, NoHeaderClean, BadMagicClean, DispatchBinClean, BinGetClean, BinUpdateClean, CompleteUpdateClean, BinDeleteClean, BinDeltaClean, IncrCreateClean, BinFlushClean, BinStatClean, SaslAuthClean, SaslCompleteClean DEF BinaryStep

LEMMA DriveClean == ASSUME Clean, Counts, ooms' = 0, NEW c \in Conns, drive_machine(c) PROVE Clean'
<1>1. ~ReadNoMemory(c) /\ ~NreadNoMemory(c)
  BY DEF ReadNoMemory, NreadNoMemory, NoMemory, Counts
<1> QED BY <1>1, NewCmdClean, WaitingClean, ReadClean, NreadBufferedClean, NreadSocketClean, SwallowClean, TransmitSomeClean, TransmitBlockedClean, TransmitCompleteClean, CloseClean, WatchClean, AsciiClean, BinaryClean DEF drive_machine

LEMMA NextClean == ASSUME Clean, Counts, ooms' = 0, menu \in DOMAIN Menus, ServerNext PROVE Clean'
<1>1. CASE Tick
  BY <1>1, TickClean
<1>2. ASSUME NEW c \in Conns, Serve(c) PROVE Clean'
  BY <1>2, HandlerClean, DriveClean, SideThreadClean DEF Serve
<1>3. ASSUME NEW c \in Conns, Send(c) \/ Arrive(c) \/ HangUp(c) PROVE Clean'
  BY <1>3, SendClean, ArriveClean, HangUpClean
<1> QED BY <1>1, <1>2, <1>3 DEF ServerNext

\* Nothing is cached and nothing is held at first.
LEMMA InitClean == ASSUME ServerInit PROVE Clean
<1>1. PICK D : D = Pool[menu] /\ D \subseteq Items /\ store = StoreInit(D)
  BY PoolAssumption DEF ServerInit
<1>2. PICK f : f = FreeItem
  OBVIOUS
<1>3. /\ DOMAIN store = StoreFields /\ store.item = [i \in D |-> f] /\ store.link = [k \in Keys |-> None]
      /\ store.cas_id = 0 /\ store.now = 2 /\ store.oldest_live = 0 /\ store.oldest_cas = 0
  BY <1>1, <1>2 DEF StoreInit, StoreFields
<1>4. ItemOK(f) /\ f.ref = 0 /\ f.key = None
  BY <1>2, FreeIs
<1>5. DOMAIN store.item = D /\ \A i \in D : store.item[i] = f /\ ~Linked(store, i) /\ Net(store, i) = 0
  BY <1>3, <1>4 DEF Linked, Net, One
<1>6. StoreOK(store)
  <2>1. Distinct(store)
    BY <1>5 DEF Distinct
  <2> QED BY <1>1, <1>3, <1>4, <1>5, <2>1 DEF StoreOK
<1>7. PICK d : d = conn_new
  OBVIOUS
<1>8. /\ DOMAIN d = ConnFields /\ d.write_and_go = "new_cmd" /\ d.sbytes = 0 /\ d.rlbytes = 0 /\ d.state = "new_cmd"
      /\ d.item = None /\ d.purge = None /\ d.ilist = <<>> /\ d.ileft = 0 /\ d.iov = <<>> /\ ~d.noreply /\ d.rbuf = <<>>
  BY <1>7 DEF conn_new, ConnFields
<1>9. Bare(d, D)
  BY <1>8, PlainIs DEF Bare, Loose, Collecting
<1>10. \A j \in D : Mine(d, j) = 0
  BY <1>5, <1>6, <1>9, BareIs
<1>11. /\ conn = [c \in Conns |-> d] /\ DOMAIN conn = Conns /\ \A c \in Conns : conn[c] = d
       /\ reqs = [c \in Conns |-> <<>>] /\ script = [c \in Conns |-> <<>>] /\ sock = [c \in Conns |-> <<>>]
       /\ seen = [c \in Conns |-> [cas |-> 0, val |-> <<>>]] /\ lost = [i \in Items |-> 0]
  BY <1>7 DEF ServerInit
<1>12. ASSUME NEW c \in Conns PROVE Fine(conn[c], store, reqs[c], seen[c]) /\ Known(store, seen[c]) /\ StreamOK(c)
  <2>1. Fine(conn[c], store, reqs[c], seen[c])
    BY <1>5, <1>6, <1>9, <1>11, BareIs
  <2>2. Known(store, seen[c])
    BY <1>3, <1>5, <1>11 DEF Known
  <2>3. StreamOK(c)
    <3>1. conn[c].rbuf = <<>> /\ sock[c] = <<>> /\ script[c] = <<>> /\ reqs[c] = <<>>
      BY <1>8, <1>11
    <3>2. \A T : <<>> \in Seq(T)
      OBVIOUS
    <3>3. reqs[c] \in Seq(Requests)
      BY <3>1, <3>2
    <3> QED BY <3>1, <3>2, <3>3 DEF StreamOK
  <2> QED BY <2>1, <2>2, <2>3
<1>13. ASSUME NEW i \in D PROVE Exact(i)
  <2>1. \A c \in Conns : Counted(conn[c]) /\ Mine(conn[c], i) = 0
    BY <1>10, <1>11, <1>12, FineCounts
  <2>2. \A c \in Conns : Held(conn[c], i) = {}
    <3>1. \A c \in Conns : \A n \in Places(conn[c]) : RefAt(conn[c], n) # i
      BY <2>1, HeldIs
    <3> QED BY <3>1 DEF Held
  <2>3. References(i) = {}
    <3>1. References(i) = Holders(conn, i)
      BY RefsAre
    <3>2. \A c \in Conns : {c} \X Held(conn[c], i) = {}
      BY <2>2
    <3> QED BY <3>1, <3>2 DEF Holders
  <2>4. Cardinality(References(i)) = 0 /\ lost[i] = 0
    BY <1>1, <1>11, <2>3, FS_EmptySet
  <2> QED BY <1>5, <2>4 DEF Exact
<1> QED BY <1>5, <1>6, <1>11, <1>12, <1>13 DEF Clean

\* The inductive invariant holds at first and every step keeps it.
LEMMA InitInv == ASSUME ServerInit PROVE IInv
BY InitClean DEF ServerInit, IInv

LEMMA NextInv == ASSUME IInv, [ServerNext]_connVars PROVE IInv'
<1>1. CASE UNCHANGED connVars
  <2>1. UNCHANGED <<store, conn, menu, reqs, script, sock, seen, lost, ooms>>
    BY <1>1 DEF connVars, net, client
  <2>2. Clean => Clean'
    <3>1. \A i : References(i)' = References(i)
      BY <2>1 DEF References
    <3>2. \A i : Exact(i) => Exact(i)'
      BY <2>1, <3>1 DEF Exact
    <3>3. \A c : StreamOK(c) => StreamOK(c)'
      BY <2>1 DEF StreamOK
    <3> QED BY <2>1, <3>2, <3>3 DEF Clean
  <2> QED BY <2>1, <2>2 DEF IInv
<1>2. CASE ServerNext
  <2>1. Keeps
    BY <1>2, NextKeeps
  <2>2. lost' \in [Items -> Nat] /\ ooms' \in Nat /\ menu' \in DOMAIN Menus
    BY <2>1 DEF Keeps, IInv, Forget
  <2>3. ooms' = 0 => ooms = 0
    BY <2>1 DEF Keeps, IInv
  <2>4. ASSUME ooms' = 0 PROVE Clean'
    <3>1. Clean /\ Counts /\ menu \in DOMAIN Menus
      BY <2>3, <2>4 DEF IInv, Counts
    <3> QED BY <1>2, <2>4, <3>1, NextClean
  <2> QED BY <2>2, <2>4 DEF IInv
<1> QED BY <1>1, <1>2

LEMMA Invariant == ServerSpec => []IInv
BY InitInv, NextInv, PTL DEF ServerSpec

\* While no malloc has failed and no worker waits for itself, the reference count of every item is its link, the
\* references that connections will give back, and those that do_add_delta and SASL have lost.
THEOREM ReferencesAreExact == ServerSpec => []RefcountExact
<1>1. IInv => RefcountExact
  <2> SUFFICES ASSUME IInv, ooms = 0, \A c \in Conns : conn[c].state # "hung", NEW i \in DOMAIN store.item
               PROVE  store.item[i].ref = (IF Linked(store, i) THEN 1 ELSE 0) + lost[i] + Cardinality(References(i))
    BY DEF RefcountExact
  <2>1. Clean
    BY DEF IInv
  <2>2. Net(store, i) = lost[i] + Cardinality(References(i)) /\ StoreOK(store)
    BY <2>1 DEF Clean, Exact
  <2>3. store.item[i].ref \in Nat
    BY <2>2 DEF StoreOK, ItemOK
  <2>4. PICK o \in {0, 1} : o = One(Linked(store, i)) /\ o = IF Linked(store, i) THEN 1 ELSE 0
    BY DEF One
  <2>5. Net(store, i) = store.item[i].ref - o
    BY <2>4 DEF Net
  <2>6. lost[i] \in Nat
    BY <2>2 DEF IInv, StoreOK
  <2>7. Cardinality(References(i)) \in Nat
    <3>1. References(i) = Holders(conn, i)
      BY RefsAre
    <3>2. CASE Conns = {}
      <4>1. References(i) = {}
        BY <3>1, <3>2 DEF Holders
      <4> QED BY <4>1, FS_EmptySet
    <3>3. CASE Conns # {}
      <4>1. PICK c \in Conns : TRUE
        BY <3>3
      <4>2. \A d \in Conns : Counted(conn[d])
        BY <2>1, FineCounts DEF Clean
      <4> QED BY <3>1, <4>1, <4>2, HoldersAre
    <3> QED BY <3>2, <3>3
  <2> QED BY <2>2, <2>3, <2>4, <2>5, <2>6, <2>7
<1> QED BY <1>1, Invariant, PTL

\* A value that is being sent is in memory and is the one that was looked up, while no malloc has failed.
THEOREM RepliesAreIntact == ServerSpec => []ReplyIntact
<1>1. IInv => ReplyIntact
  <2> SUFFICES ASSUME IInv, ooms = 0, NEW c \in Conns, conn[c].state \in {"parse_cmd", "mwrite"},
                      NEW n \in 1 .. Len(conn[c].iov), NEW p, p = conn[c].iov[n], p.it # None
               PROVE  store.item[p.it].ref > 0 /\ store.item[p.it].val = p.val
    BY DEF ReplyIntact
  <2>1. Clean /\ Counts
    BY DEF IInv, Counts
  <2>2. Fine(conn[c], store, reqs[c], seen[c]) /\ StoreOK(store)
    BY <2>1 DEF Clean
  <2>3. n \in DOMAIN conn[c].iov
    <3>1. IsSeq(conn[c].iov)
      BY <2>2 DEF Fine
    <3> QED BY <3>1 DEF IsSeq
  <2>4. PieceOK(p, conn[c], store)
    BY <2>2, <2>3 DEF Fine
  <2>5. PICK m \in Places(conn[c]) : p.it \in DOMAIN store.item /\ store.item[p.it].val = p.val /\ RefAt(conn[c], m) = p.it
    BY <2>4 DEF PieceOK
  <2>6. Mine(conn[c], p.it) >= 1
    BY <2>2, <2>5, FineCounts, HeldIs
  <2>7. Net(store, p.it) \in Nat /\ Net(store, p.it) >= Mine(conn[c], p.it) /\ Mine(conn[c], p.it) \in Nat
    BY <2>1, <2>5, MineNet
  <2>8. store.item[p.it].ref \in Nat
    BY <2>2, <2>5 DEF StoreOK, ItemOK
  <2>9. PICK o \in {0, 1} : Net(store, p.it) = store.item[p.it].ref - o
    BY DEF Net, One
  <2> QED BY <2>5, <2>6, <2>7, <2>8, <2>9
<1> QED BY <1>1, Invariant, PTL

-----------------------------------------------------------------------------
(* What a cas replaces, and what a lookup finds after a flush.             *)

LEMMA RemoveLinks == ASSUME NEW s, StoreOK(s), NEW i \in DOMAIN s.item PROVE do_item_remove(s, i).link = s.link
<1>1. do_item_remove(s, i) = [s EXCEPT !.item = [s.item EXCEPT ![i] = Lower(s.item[i])]]
  BY RemoveIs
<1> QED BY <1>1 DEF StoreOK, StoreFields

\* A cas that stores its item replaces one with the cas id it was given.
LEMMA CasStored ==
    ASSUME NEW s, StoreOK(s), NEW i \in DOMAIN s.item, Lone(s, i), NEW k \in Keys, s.item[i].key = k,
           NEW r \in do_store_item(s, i, "cas"), r.s.link[k] = i
    PROVE  s.link[k] # None /\ s.item[i].cas = s.item[s.link[k]].cas
<1>1. PICK g, t, old : g = do_item_get(s, k) /\ t = g.s /\ old = g.it
  OBVIOUS
<1>2. Got(s, k, g)
  BY <1>1, GetIs
<1>3. StoreOK(t) /\ DOMAIN t.item = DOMAIN s.item /\ Goes(s, t, {}) /\ i # None
  BY <1>1, <1>2, StoreAssumption DEF Got, StoreOK
<1>4. t.item[i].cas = s.item[i].cas
  BY <1>3 DEF Goes, Lones
<1>5. CASE old = None
  <2>1. r = [s |-> t, ret |-> "NOT_FOUND"]
    BY <1>1, <1>5 DEF do_store_item
  <2> QED BY <1>1, <1>2, <1>3, <1>5, <2>1 DEF Got
<1>6. CASE old # None
  <2>1. /\ old \in DOMAIN s.item /\ s.link[k] = old /\ Linked(t, old) /\ t.item[old].key = k /\ old # i
        /\ t.item[old].cas = s.item[old].cas
    BY <1>1, <1>2, <1>6 DEF Got, Lone
  <2>2. CASE t.item[i].cas = t.item[old].cas
    BY <1>4, <1>6, <2>1, <2>2
  <2>3. CASE t.item[i].cas # t.item[old].cas
    <3>1. r = [[s |-> t, ret |-> "EXISTS"] EXCEPT !.s = do_item_remove(t, old)]
      BY <1>1, <1>6, <2>3 DEF do_store_item
    <3>2. r.s.link = t.link
      BY <1>3, <2>1, <3>1, RemoveLinks
    <3> QED BY <2>1, <3>2 DEF Linked
  <2> QED BY <2>2, <2>3
<1> QED BY <1>5, <1>6

\* An item that waits to be stored is not linked.
LEMMA CasWaits ==
    ASSUME Clean, Clean', NEW c \in Conns, conn'[c].state = "nread", conn'[c].item = conn[c].item
    PROVE  ~CasStores(c)
<1> SUFFICES ASSUME CasStores(c) PROVE FALSE
  OBVIOUS
<1>1. PICK d, i, t : d = conn[c] /\ i = d.item /\ t = store'
  OBVIOUS
<1>2. d.state = "nread" /\ d.cmd = "cas" /\ Fine(d, store, reqs[c], seen[c])
  BY <1>1 DEF CasStores, Clean
<1>3. i # None
  BY <1>1, <1>2 DEF Fine, Filling
<1>4. PICK k \in Keys : k = store.item[i].key /\ t.link[k] = i
  BY <1>1, <1>2, <1>3 DEF Fine, CasStores
<1>5. Fine(conn'[c], t, reqs'[c], seen'[c]) /\ StoreOK(t)
  BY <1>1 DEF Clean
<1>6. Lone(t, i)
  BY <1>1, <1>3, <1>5 DEF Fine
<1>7. t.item[i].key = k
  BY <1>3, <1>4, <1>5 DEF StoreOK
<1> QED BY <1>3, <1>4, <1>6, <1>7, StoreAssumption DEF Lone, Linked

LEMMA CasWaiting ==
    ASSUME Clean, NEW c \in Conns, CasStores(c)
    PROVE  /\ conn[c].state = "nread" /\ conn[c].cmd = "cas" /\ conn[c].purge = None /\ conn[c].item \in DOMAIN store.item
           /\ conn[c].proto = "binary" => conn[c].substate \in {"set_value", "sasl_auth_data"}
           /\ DOMAIN conn = Conns /\ DOMAIN conn[c] = ConnFields /\ StoreOK(store) /\ Lone(store, conn[c].item)
           /\ store.item[conn[c].item].key \in Keys /\ store.item[conn[c].item].cas \in {0, seen[c].cas}
           /\ store'.link[store.item[conn[c].item].key] = conn[c].item /\ Known(store, seen[c])
<1>1. conn[c].state = "nread" /\ conn[c].cmd = "cas" /\ Fine(conn[c], store, reqs[c], seen[c])
  BY DEF CasStores, Clean
<1>2. conn[c].item # None
  BY <1>1 DEF Fine, Filling
<1>3. conn[c].purge = None
  BY <1>1, <1>2 DEF Fine
<1>4. conn[c].proto = "binary" => conn[c].substate \in {"set_value", "sasl_auth_data"}
  BY <1>1, <1>2 DEF Fine, Filling
<1> QED BY <1>1, <1>2, <1>3, <1>4 DEF Fine, Clean, CasStores

\* The links stay, hence nothing is stored.
LEMMA LinksStay == ASSUME Clean, NEW c \in Conns, CasStores(c) PROVE store'.link # store.link
<1>1. PICK i, k : i = conn[c].item /\ k = store.item[i].key
  OBVIOUS
<1>2. Lone(store, i) /\ k \in Keys /\ store'.link[k] = i
  BY <1>1, CasWaiting
<1> QED BY <1>1, <1>2, StoreAssumption DEF Lone, Linked

\* What the client has seen is replaced.
LEMMA CasReplaces ==
    ASSUME Clean, NEW c \in Conns, CasStores(c), NEW r \in do_store_item(store, conn[c].item, conn[c].cmd),
           store' = r.s \/ store' = do_item_remove(r.s, conn[c].item)
    PROVE  store.item[store.link[store.item[conn[c].item].key]].val = seen[c].val
<1>1. PICK s, i, k : s = store /\ i = conn[c].item /\ k = store.item[i].key
  OBVIOUS
<1>2. /\ StoreOK(s) /\ i \in DOMAIN s.item /\ Lone(s, i) /\ k \in Keys /\ s.item[i].key = k
      /\ s.item[i].cas \in {0, seen[c].cas} /\ Known(s, seen[c]) /\ store'.link[k] = i /\ conn[c].cmd = "cas"
  BY <1>1, CasWaiting
<1>3. r \in do_store_item(s, i, "cas") /\ s.item[i].key \in Keys
  BY <1>1, <1>2
<1>4. Kept(s, i, r)
  BY <1>2, <1>3, StoreItemIs
<1>5. StoreOK(r.s) /\ i \in DOMAIN r.s.item
  BY <1>2, <1>4 DEF Kept, Goes
<1>6. r.s.link[k] = i
  BY <1>1, <1>2, <1>5, RemoveLinks
<1>7. s.link[k] # None /\ s.item[i].cas = s.item[s.link[k]].cas
  BY <1>2, <1>3, <1>6, CasStored
<1>8. PICK old : old = s.link[k]
  OBVIOUS
<1>9. old \in DOMAIN s.item /\ Linked(s, old)
  BY <1>2, <1>7, <1>8, LookedUp
<1>10. s.item[old].cas \in 1 .. s.cas_id
  BY <1>2, <1>9 DEF StoreOK
<1>11. s.item[old].cas = seen[c].cas
  BY <1>2, <1>7, <1>8, <1>10 DEF StoreOK
<1> QED BY <1>1, <1>2, <1>8, <1>9, <1>11 DEF Known

\* Of the steps of the text protocol, only the completion of a cas can store its item.
LEMMA AsciiCas ==
    ASSUME Clean, Clean', Counts, ooms' = 0, NEW c \in Conns, AsciiStep(c), CasStores(c)
    PROVE  store.item[store.link[store.item[conn[c].item].key]].val = seen[c].val
<1>1. conn[c].state = "nread" /\ conn[c].purge = None /\ conn[c].item \in DOMAIN store.item /\ StoreOK(store)
  BY CasWaiting
<1>2. ~NoLine(c) /\ ~GetBegin(c) /\ ~GetKey(c) /\ ~GetKeyNoMemory(c) /\ ~GetLongKey(c) /\ ~GetEnd(c) /\ ~GetEndNoMemory(c)
  BY <1>1 DEF NoLine, GetBegin, GetKey, GetKeyNoMemory, GetLongKey, GetEnd, GetEndNoMemory, Parsing, AtLine, Getting, InState
<1>3. ~AtLine(c) /\ ~ItemUnlink(c)
  BY <1>1 DEF AtLine, Parsing, InState, ItemUnlink
<1>4. /\ ~process_update_command(c) /\ ~process_delete_command(c) /\ ~process_touch_command(c)
      /\ ~process_arithmetic_command(c) /\ ~flush_all(c) /\ ~Quit(c) /\ ~PlainAnswer(c) /\ ~process_stat(c)
  BY <1>3 DEF process_update_command, process_delete_command, process_touch_command, process_arithmetic_command,
              flush_all, Quit, PlainAnswer, process_stat
<1>5. ~Handover(c) /\ ~SettingCommand(c) /\ ~AskThread(c)
  BY <1>3 DEF Handover, SettingCommand, AskThread
<1>6. complete_nread_ascii(c)
  BY <1>2, <1>3, <1>4, <1>5 DEF AsciiStep
<1>7. \/ store' = do_item_remove(store, conn[c].item)
      \/ \E r \in do_store_item(store, conn[c].item, conn[c].cmd) :
           store' = r.s \/ store' = do_item_remove(r.s, conn[c].item)
  BY <1>6 DEF complete_nread_ascii
<1>8. CASE store' = do_item_remove(store, conn[c].item)
  BY <1>1, <1>8, RemoveLinks, LinksStay
<1> QED BY <1>7, <1>8, CasReplaces

LEMMA BinaryCas ==
    ASSUME Clean, Clean', Counts, ooms' = 0, NEW c \in Conns, BinaryStep(c), CasStores(c)
    PROVE  store.item[store.link[store.item[conn[c].item].key]].val = seen[c].val
<1>1. /\ conn[c].state = "nread" /\ conn[c].purge = None /\ conn[c].item \in DOMAIN store.item /\ StoreOK(store)
      /\ conn[c].proto = "binary" => conn[c].substate \in {"set_value", "sasl_auth_data"}
      /\ Lone(store, conn[c].item)
  BY CasWaiting
<1>2. ~NoHeader(c) /\ ~BadMagic(c) /\ ~dispatch_bin_command(c) /\ ~BinReadKeyNoMemory(c)
  BY <1>1 DEF NoHeader, BadMagic, dispatch_bin_command, BinReadKeyNoMemory, HaveHeader, AtHeader, Parsing, InState
<1>3. ~process_bin_get_or_touch(c) /\ ~process_bin_update(c) /\ ~process_bin_delete(c)
  BY <1>1 DEF process_bin_get_or_touch, process_bin_update, process_bin_delete, Complete
<1>4. ~complete_incr_bin(c) /\ ~IncrCreate(c)
  BY <1>1 DEF complete_incr_bin, IncrCreate, Complete
<1>5. ~process_bin_flush(c) /\ ~process_bin_stat(c) /\ ~process_bin_sasl_auth(c)
  BY <1>1 DEF process_bin_flush, process_bin_stat, process_bin_sasl_auth, Complete
<1>6. complete_update_bin(c) \/ process_bin_complete_sasl_auth(c)
  BY <1>2, <1>3, <1>4, <1>5 DEF BinaryStep
<1>7. CASE process_bin_complete_sasl_auth(c)
  <2>1. store' = do_item_unlink(store, conn[c].item)
    BY <1>7 DEF process_bin_complete_sasl_auth
  <2>2. store' = store
    BY <1>1, <2>1 DEF do_item_unlink, Lone
  <2> QED BY <2>2, LinksStay
<1>8. CASE complete_update_bin(c)
  <2>1. \E r \in do_store_item(store, conn[c].item, conn[c].cmd) :
          store' = r.s \/ store' = do_item_remove(r.s, conn[c].item)
    BY <1>8 DEF complete_update_bin
  <2> QED BY <2>1, CasReplaces
<1> QED BY <1>6, <1>7, <1>8

\* A step of a connection leaves the others alone.
Sets(c) == conn' = conn \/ \E e : Set(c, e)

LEMMA AsciiSets == ASSUME NEW c \in Conns, AsciiStep(c) PROVE Sets(c)
<1>1. CASE NoLine(c)
  BY <1>1 DEF NoLine, Reply, Sets
<1>2. CASE GetBegin(c)
  BY <1>2 DEF GetBegin, Reply, Sets
<1>3. CASE GetKey(c)
  BY <1>3 DEF GetKey, Reply, Sets
<1>4. CASE GetKeyNoMemory(c)
  BY <1>4 DEF GetKeyNoMemory, Reply, Sets
<1>5. CASE GetLongKey(c)
  BY <1>5 DEF GetLongKey, Reply, Sets
<1>6. CASE GetEnd(c)
  BY <1>6 DEF GetEnd, Reply, Sets
<1>7. CASE GetEndNoMemory(c)
  BY <1>7 DEF GetEndNoMemory, Reply, Sets
<1>8. CASE process_update_command(c)
  BY <1>8 DEF process_update_command, Reply, Sets
<1>9. CASE complete_nread_ascii(c)
  BY <1>9 DEF complete_nread_ascii, Reply, Sets
<1>10. CASE ItemUnlink(c)
  BY <1>10 DEF ItemUnlink, Reply, Sets
<1>11. CASE process_delete_command(c)
  BY <1>11 DEF process_delete_command, Reply, Sets
<1>12. CASE process_touch_command(c)
  BY <1>12 DEF process_touch_command, Reply, Sets
<1>13. CASE process_arithmetic_command(c)
  BY <1>13 DEF process_arithmetic_command, Reply, Sets
<1>14. CASE flush_all(c)
  BY <1>14 DEF flush_all, Reply, Sets
<1>15. CASE Quit(c)
  BY <1>15 DEF Quit, Reply, Sets
<1>16. CASE PlainAnswer(c)
  BY <1>16 DEF PlainAnswer, Reply, Sets
<1>17. CASE process_stat(c)
  BY <1>17 DEF process_stat, Reply, Sets
<1>18. CASE Handover(c)
  BY <1>18 DEF Handover, Reply, Sets
<1>19. CASE SettingCommand(c)
  BY <1>19 DEF SettingCommand, Reply, Sets
<1>20. CASE AskThread(c)
  BY <1>20 DEF AskThread, Reply, Sets
<1> QED BY <1>1, <1>2, <1>3, <1>4, <1>5, <1>6, <1>7, <1>8, <1>9, <1>10, <1>11, <1>12, <1>13, <1>14, <1>15, <1>16, <1>17, <1>18, <1>19, <1>20 DEF AsciiStep

LEMMA BinarySets == ASSUME NEW c \in Conns, BinaryStep(c) PROVE Sets(c)
<1>1. CASE NoHeader(c)
  BY <1>1 DEF NoHeader, Reply, Sets
<1>2. CASE BadMagic(c)
  BY <1>2 DEF BadMagic, Reply, Sets
<1>3. CASE dispatch_bin_command(c)
  BY <1>3 DEF dispatch_bin_command, Reply, Sets
<1>4. CASE BinReadKeyNoMemory(c)
  BY <1>4 DEF BinReadKeyNoMemory, Reply, Sets
<1>5. CASE process_bin_get_or_touch(c)
  BY <1>5 DEF process_bin_get_or_touch, Reply, Sets
<1>6. CASE process_bin_update(c)
  BY <1>6 DEF process_bin_update, Reply, Sets
<1>7. CASE complete_update_bin(c)
  BY <1>7 DEF complete_update_bin, Reply, Sets
<1>8. CASE process_bin_delete(c)
  BY <1>8 DEF process_bin_delete, Reply, Sets
<1>9. CASE complete_incr_bin(c)
  BY <1>9 DEF complete_incr_bin, Reply, Sets
<1>10. CASE IncrCreate(c)
  BY <1>10 DEF IncrCreate, Reply, Sets
<1>11. CASE process_bin_flush(c)
  BY <1>11 DEF process_bin_flush, Reply, Sets
<1>12. CASE process_bin_stat(c)
  BY <1>12 DEF process_bin_stat, Reply, Sets
<1>13. CASE process_bin_sasl_auth(c)
  BY <1>13 DEF process_bin_sasl_auth, Reply, Sets
<1>14. CASE process_bin_complete_sasl_auth(c)
  BY <1>14 DEF process_bin_complete_sasl_auth, Reply, Sets
<1> QED BY <1>1, <1>2, <1>3, <1>4, <1>5, <1>6, <1>7, <1>8, <1>9, <1>10, <1>11, <1>12, <1>13, <1>14 DEF BinaryStep

LEMMA DriveSets == ASSUME NEW c \in Conns, drive_machine(c) PROVE Sets(c)
<1>1. CASE NewCmd(c)
  BY <1>1 DEF NewCmd, Reply, Sets
<1>2. CASE Waiting(c)
  BY <1>2 DEF Waiting, Reply, Sets
<1>3. CASE Read(c)
  BY <1>3 DEF Read, Reply, Sets
<1>4. CASE ReadNoMemory(c)
  BY <1>4 DEF ReadNoMemory, Reply, Sets
<1>5. CASE NreadBuffered(c)
  BY <1>5 DEF NreadBuffered, Reply, Sets
<1>6. CASE NreadSocket(c)
  BY <1>6 DEF NreadSocket, Reply, Sets
<1>7. CASE NreadNoMemory(c)
  BY <1>7 DEF NreadNoMemory, Reply, Sets
<1>8. CASE Swallow(c)
  BY <1>8 DEF Swallow, Reply, Sets
<1>9. CASE TransmitSome(c)
  BY <1>9 DEF TransmitSome, Reply, Sets
<1>10. CASE TransmitBlocked(c)
  BY <1>10 DEF TransmitBlocked, Reply, Sets
<1>11. CASE TransmitComplete(c)
  BY <1>11 DEF TransmitComplete, Reply, Sets
<1>12. CASE conn_close(c)
  BY <1>12 DEF conn_close, Reply, Sets
<1>13. CASE Watch(c)
  BY <1>13 DEF Watch, Reply, Sets
<1> QED BY <1>1, <1>2, <1>3, <1>4, <1>5, <1>6, <1>7, <1>8, <1>9, <1>10, <1>11, <1>12, <1>13, AsciiSets, BinarySets DEF drive_machine

LEMMA ServeSets ==
    ASSUME Clean, NEW c \in Conns, Serve(c)
    PROVE  \A d \in Conns : d # c => conn'[d] = conn[d]
<1>1. Sets(c)
  <2>1. CASE event_handler(c)
    BY <2>1 DEF event_handler, Sets
  <2>2. CASE SideThread(c)
    BY <2>2 DEF SideThread, Sets
  <2> QED BY <2>1, <2>2, DriveSets DEF Serve
<1> QED BY <1>1 DEF Sets, Set, Clean

LEMMA ServeCas ==
    ASSUME Clean, Clean', Counts, ooms' = 0, NEW c \in Conns, Serve(c), CasStores(c)
    PROVE  store.item[store.link[store.item[conn[c].item].key]].val = seen[c].val
<1>1. /\ conn[c].state = "nread" /\ conn[c].purge = None /\ DOMAIN conn = Conns /\ DOMAIN conn[c] = ConnFields
  BY CasWaiting
<1>2. /\ ~SideThread(c) /\ ~NewCmd(c) /\ ~Waiting(c) /\ ~Read(c) /\ ~ReadNoMemory(c) /\ ~Swallow(c) /\ ~TransmitSome(c)
      /\ ~TransmitBlocked(c) /\ ~TransmitComplete(c) /\ ~conn_close(c) /\ ~Watch(c)
  BY <1>1 DEF SideThread, NewCmd, Waiting, Read, ReadNoMemory, Swallow, TransmitSome, TransmitBlocked, TransmitComplete,
              conn_close, Watch, InState
<1>3. ~NreadNoMemory(c)
  BY DEF NreadNoMemory, NoMemory, Counts
<1>4. CASE event_handler(c)
  <2>1. conn'[c] = [conn[c] EXCEPT !.nreqs = ReqsPerEvent]
    BY <1>1, <1>4 DEF event_handler, Set
  <2>2. conn'[c].state = "nread" /\ conn'[c].item = conn[c].item
    BY <1>1, <2>1 DEF ConnFields
  <2> QED BY <2>2, CasWaits
<1>5. CASE NreadBuffered(c)
  <2>1. PICK n, x, y : conn'[c] = [conn[c] EXCEPT !.rlbytes = @ - n, !.rbuf = x, !.crlf = y]
    BY <1>1, <1>5 DEF NreadBuffered, Set
  <2>2. conn'[c].state = "nread" /\ conn'[c].item = conn[c].item
    BY <1>1, <2>1 DEF ConnFields
  <2> QED BY <2>2, CasWaits
<1>6. CASE NreadSocket(c)
  <2>1. \/ \E n, y : conn'[c] = [conn[c] EXCEPT !.rlbytes = @ - n, !.crlf = y]
        \/ store' = store
    <3>1. PICK m, z : m = Least(conn[c].rlbytes, Len(sock[c])) /\ z = reqs[c][sock[c][m].req].crlf
      OBVIOUS
    <3>2. Set(c, [conn[c] EXCEPT !.rlbytes = @ - m, !.crlf = z]) \/ store' = store
      BY <1>6, <3>1 DEF NreadSocket
    <3> QED BY <1>1, <3>2 DEF Set
  <2>2. CASE store' = store
    BY <2>2, LinksStay
  <2>3. CASE \E n, y : conn'[c] = [conn[c] EXCEPT !.rlbytes = @ - n, !.crlf = y]
    <3>1. PICK n, y : conn'[c] = [conn[c] EXCEPT !.rlbytes = @ - n, !.crlf = y]
      BY <2>3
    <3>2. conn'[c].state = "nread" /\ conn'[c].item = conn[c].item
      BY <1>1, <3>1 DEF ConnFields
    <3> QED BY <3>2, CasWaits
  <2> QED BY <2>1, <2>2, <2>3
<1>7. CASE AsciiStep(c) \/ BinaryStep(c)
  BY <1>7, AsciiCas, BinaryCas
<1> QED BY <1>2, <1>3, <1>4, <1>5, <1>6, <1>7 DEF Serve, drive_machine

LEMMA NextCas ==
    ASSUME Clean, Clean', Counts, ooms' = 0, ServerNext, NEW c \in Conns, CasStores(c)
    PROVE  store.item[store.link[store.item[conn[c].item].key]].val = seen[c].val
<1>1. conn[c].state = "nread"
  BY CasWaiting
<1>2. CASE conn'[c] = conn[c]
  BY <1>1, <1>2, CasWaits
<1>3. CASE Tick
  BY <1>2, <1>3 DEF Tick
<1>4. ASSUME NEW d \in Conns, Send(d) \/ Arrive(d) \/ HangUp(d) PROVE conn'[c] = conn[c]
  BY <1>4 DEF Send, Arrive, HangUp
<1>5. ASSUME NEW d \in Conns, Serve(d), d # c PROVE conn'[c] = conn[c]
  BY <1>5, ServeSets
<1> QED BY <1>2, <1>3, <1>4, <1>5, ServeCas DEF ServerNext

\* While no malloc has failed, a cas that stores its item, in either protocol, replaces the value that its client
\* received with the cas id: whatever other clients stored, appended, incremented, deleted or flushed between.
THEOREM CasIsProtected == ServerSpec /\ [](ooms = 0) => CasProtects
<1> DEFINE F == ooms = 0
           P == \A c \in Conns : CasStores(c) =>
                  store.item[store.link[store.item[conn[c].item].key]].val = seen[c].val
<1>1. IInv /\ IInv' /\ F /\ F' /\ [ServerNext]_connVars => [P]_connVars
  <2> SUFFICES ASSUME IInv, IInv', F, F', [ServerNext]_connVars PROVE [P]_connVars
    OBVIOUS
  <2>1. Clean /\ Clean' /\ Counts /\ ooms' = 0
    BY DEF IInv, Counts
  <2> QED BY <2>1, NextCas
<1>2. CasProtects <=> [][P]_connVars
  BY DEF CasProtects
<1> HIDE DEF F, P
<1>3. ServerSpec /\ []F => [][P]_connVars
  BY <1>1, Invariant, PTL DEF ServerSpec
<1> QED BY <1>2, <1>3 DEF F

\* What is to be sent stays, or is nothing, or a reply without a value.
Sober(d, e) ==
    /\ DOMAIN e = ConnFields
    /\ e.iov = d.iov \/ e.iov = <<>> \/ (Len(e.iov) = 1 /\ e.iov[1].it = None)

LEMMA SoberOn == ASSUME NEW d, NEW e, NEW f, Sober(d, e), Sober(e, f) PROVE Sober(d, f)
BY DEF Sober

LEMMA SoberOut == ASSUME NEW d, DOMAIN d = ConnFields, NEW x PROVE Sober(d, out_string(d, x)) /\ Sober(d, write_and_free(d, x))
BY DEF Sober, out_string, write_and_free, ConnFields

LEMMA SoberHeader == ASSUME NEW d, DOMAIN d = ConnFields, NEW x PROVE Sober(d, add_bin_header(d, x))
<1>1. PICK p, e : p = Piece(d, x) /\ e = add_bin_header(d, x)
  OBVIOUS
<1>2. p.it = None /\ e = [d EXCEPT !.iov = <<p>>]
  BY <1>1 DEF Piece, add_bin_header
<1> QED BY <1>1, <1>2 DEF Sober, ConnFields

LEMMA SoberBin ==
    ASSUME NEW d, DOMAIN d = ConnFields, NEW x
    PROVE  Sober(d, write_bin_response(d, x)) /\ \A n : Sober(d, write_bin_error(d, x, n))
<1>1. PICK b : b = add_bin_header(d, x)
  OBVIOUS
<1>2. Sober(d, b)
  BY <1>1, SoberHeader
<1>3. Sober(b, [b EXCEPT !.state = "mwrite", !.write_and_go = "new_cmd"])
  BY <1>2 DEF Sober, ConnFields
<1>4. Sober(d, conn_set_state(d, "new_cmd"))
  BY DEF Sober, ConnFields, conn_set_state
<1>5. Sober(d, write_bin_response(d, x))
  BY <1>1, <1>2, <1>3, <1>4, SoberOn DEF write_bin_response
<1>6. ASSUME NEW n PROVE Sober(d, write_bin_error(d, x, n))
  <2>1. PICK y, z : write_bin_error(d, x, n) = [b EXCEPT !.state = "mwrite", !.sbytes = y, !.write_and_go = z]
    BY <1>1 DEF write_bin_error
  <2>2. Sober(b, write_bin_error(d, x, n))
    BY <1>2, <2>1 DEF Sober, ConnFields
  <2> QED BY <1>2, <2>2, SoberOn
<1> QED BY <1>5, <1>6

LEMMA SoberMemory == ASSUME NEW d, DOMAIN d = ConnFields, NEW x PROVE Sober(d, out_of_memory(d, x))
BY SoberOut, SoberBin DEF out_of_memory

\* The beginning of a handler.
LEMMA SoberLine ==
    ASSUME NEW c, DOMAIN conn[c] = ConnFields
    PROVE  Sober(conn[c], Line(c)) /\ Sober(conn[c], set_noreply_maybe(c)) /\ Sober(conn[c], Header(c))
<1>1. PICK d : d = conn[c]
  OBVIOUS
<1>2. \E x, y : Line(c) = [d EXCEPT !.proto = "ascii", !.req = x, !.iov = <<>>, !.rbuf = y]
  BY <1>1 DEF Line
<1>3. DOMAIN Line(c) = ConnFields /\ Line(c).iov = <<>>
  BY <1>1, <1>2 DEF ConnFields
<1>4. PICK l : l = Line(c)
  OBVIOUS
<1>5. \E x : set_noreply_maybe(c) = [l EXCEPT !.noreply = x]
  BY <1>4 DEF set_noreply_maybe
<1>6. DOMAIN set_noreply_maybe(c) = ConnFields /\ set_noreply_maybe(c).iov = <<>>
  BY <1>3, <1>4, <1>5 DEF ConnFields
<1>7. \E v, w, x, y : Header(c) = [d EXCEPT !.proto = "binary", !.req = v, !.iov = <<>>, !.cmd = w, !.noreply = x, !.rbuf = y]
  BY <1>1 DEF Header
<1>8. DOMAIN Header(c) = ConnFields /\ Header(c).iov = <<>>
  BY <1>1, <1>7 DEF ConnFields
<1> QED BY <1>3, <1>6, <1>8 DEF Sober

\* A step that adds no value to what is to be sent.
Mild(c) == Sober(conn[c], conn'[c])

LEMMA MildFinds == ASSUME Clean, NEW c \in Conns, Mild(c) PROVE ~Found(c)
<1>1. IsSeq(conn[c].iov)
  BY DEF Clean, Fine
<1>2. Len(conn[c].iov) \in Nat
  BY <1>1, SeqFacts
<1>3. PICK e : e = conn'[c]
  OBVIOUS
<1>4. CASE e.iov = conn[c].iov
  BY <1>2, <1>3, <1>4 DEF Found
<1>5. CASE e.iov = <<>>
  BY <1>2, <1>3, <1>5 DEF Found
<1>6. CASE Len(e.iov) = 1 /\ e.iov[1].it = None
  BY <1>2, <1>3, <1>6 DEF Found
<1> QED BY <1>3, <1>4, <1>5, <1>6 DEF Mild, Sober

LEMMA SetMild == ASSUME Clean, NEW c \in Conns, NEW e, Set(c, e), Sober(conn[c], e) PROVE Mild(c)
BY DEF Mild, Set, Clean

LEMMA Domains == ASSUME Clean, NEW c \in Conns PROVE DOMAIN conn = Conns /\ DOMAIN conn[c] = ConnFields
BY DEF Clean, Fine

LEMMA HandlerMild == ASSUME Clean, NEW c \in Conns, event_handler(c) \/ SideThread(c) \/ Watch(c) PROVE Mild(c)
<1>1. DOMAIN conn = Conns /\ DOMAIN conn[c] = ConnFields
  BY Domains
<1>2. CASE event_handler(c)
  BY <1>1, <1>2 DEF event_handler, Set, Mild, Sober, ConnFields
<1>3. CASE SideThread(c)
  BY <1>1, <1>3 DEF SideThread, Set, Mild, Sober, ConnFields
<1>4. CASE Watch(c)
  BY <1>1, <1>4 DEF Watch, Mild, Sober
<1> QED BY <1>2, <1>3, <1>4

LEMMA ReadsMild ==
    ASSUME Clean, NEW c \in Conns,
           NewCmd(c) \/ Waiting(c) \/ Read(c) \/ NreadBuffered(c) \/ NreadSocket(c) \/ Swallow(c)
    PROVE  Mild(c)
<1>1. DOMAIN conn = Conns /\ DOMAIN conn[c] = ConnFields
  BY Domains
<1>2. CASE NewCmd(c)
  <2>1. PICK x, y : x = (IF conn[c].rbuf # <<>> THEN "parse_cmd" ELSE "waiting") /\ y = YieldEvent(conn[c])
    OBVIOUS
  <2>2. \/ Set(c, [conn[c] EXCEPT !.nreqs = @ - 1, !.cmd = "none", !.substate = "none", !.item = None, !.state = x])
        \/ Set(c, [conn[c] EXCEPT !.ev = y])
    BY <1>2, <2>1 DEF NewCmd
  <2> QED BY <1>1, <2>2 DEF Set, Mild, Sober, ConnFields
<1>3. CASE Waiting(c)
  BY <1>1, <1>3 DEF Waiting, Set, Mild, Sober, ConnFields
<1>4. CASE Read(c)
  <2>1. PICK x, y : x = conn[c].rbuf \o sock[c] /\ y = IF eof[c] THEN "closing" ELSE "waiting"
    OBVIOUS
  <2>2. Set(c, [conn[c] EXCEPT !.rbuf = x, !.state = "parse_cmd"]) \/ Set(c, [conn[c] EXCEPT !.state = y])
    BY <1>4, <2>1 DEF Read, conn_set_state
  <2> QED BY <1>1, <2>2 DEF Set, Mild, Sober, ConnFields
<1>5. CASE NreadBuffered(c)
  <2>1. PICK n, x, y : Set(c, [conn[c] EXCEPT !.rlbytes = @ - n, !.rbuf = x, !.crlf = y])
    BY <1>5 DEF NreadBuffered
  <2> QED BY <1>1, <2>1 DEF Set, Mild, Sober, ConnFields
<1>6. CASE NreadSocket(c)
  <2>1. PICK m, z : m = Least(conn[c].rlbytes, Len(sock[c])) /\ z = reqs[c][sock[c][m].req].crlf
    OBVIOUS
  <2>2. \/ Set(c, [conn[c] EXCEPT !.rlbytes = @ - m, !.crlf = z]) \/ Set(c, [conn[c] EXCEPT !.state = "closing"])
        \/ Set(c, [conn[c] EXCEPT !.ev = "read"])
    BY <1>6, <2>1 DEF NreadSocket, conn_set_state
  <2> QED BY <1>1, <2>2 DEF Set, Mild, Sober, ConnFields
<1>7. CASE Swallow(c)
  <2>1. PICK b, n, x : b = Least(conn[c].sbytes, Len(conn[c].rbuf)) /\ n = Least(conn[c].sbytes, Len(sock[c])) /\ x = Drop(conn[c].rbuf, b)
    OBVIOUS
  <2>2. \/ Set(c, [conn[c] EXCEPT !.state = "new_cmd"]) \/ Set(c, [conn[c] EXCEPT !.sbytes = @ - b, !.rbuf = x])
        \/ Set(c, [conn[c] EXCEPT !.sbytes = @ - n]) \/ Set(c, [conn[c] EXCEPT !.state = "closing"])
        \/ Set(c, [conn[c] EXCEPT !.ev = "read"])
    BY <1>7, <2>1 DEF Swallow, conn_set_state
  <2> QED BY <1>1, <2>2 DEF Set, Mild, Sober, ConnFields
<1> QED BY <1>2, <1>3, <1>4, <1>5, <1>6, <1>7

LEMMA EndsMild == ASSUME Clean, NEW c \in Conns, TransmitComplete(c) \/ conn_close(c) PROVE Mild(c)
<1>1. DOMAIN conn = Conns /\ DOMAIN conn[c] = ConnFields
  BY Domains
<1>2. PICK r : r = ReleaseConn(conn[c])
  OBVIOUS
<1>3. Sober(conn[c], r)
  BY <1>1, <1>2 DEF ReleaseConn, Sober, ConnFields
<1>4. CASE TransmitComplete(c)
  <2>1. (\E x : Set(c, [r EXCEPT !.state = x])) \/ (\E x : Set(c, [conn[c] EXCEPT !.state = x]))
    BY <1>2, <1>4 DEF TransmitComplete, conn_set_state
  <2>2. ASSUME NEW x, Set(c, [r EXCEPT !.state = x]) PROVE Mild(c)
    <3>1. Sober(r, [r EXCEPT !.state = x])
      BY <1>3 DEF Sober, ConnFields
    <3> QED BY <1>3, <2>2, <3>1, SoberOn, SetMild
  <2>3. ASSUME NEW x, Set(c, [conn[c] EXCEPT !.state = x]) PROVE Mild(c)
    BY <1>1, <2>3 DEF Set, Mild, Sober, ConnFields
  <2> QED BY <2>1, <2>2, <2>3
<1>5. CASE conn_close(c)
  <2>1. PICK e : e = [r EXCEPT !.state = "closed", !.ev = "none"]
    OBVIOUS
  <2>2. Set(c, e)
    BY <1>2, <1>5, <2>1 DEF conn_close
  <2>3. Sober(r, e)
    BY <1>3, <2>1 DEF Sober, ConnFields
  <2> QED BY <1>3, <2>2, <2>3, SoberOn, SetMild
<1> QED BY <1>4, <1>5

LEMMA AppendLen ==
    ASSUME NEW q, IsSeq(q), NEW x
    PROVE  Len(q) \in Nat /\ Len(Append(q, x)) = Len(q) + 1 /\ Append(q, x)[Len(q) + 1] = x
<1>1. PICK T : T = {q[n] : n \in DOMAIN q}
  OBVIOUS
<1>2. q \in Seq(T \cup {x})
  BY <1>1 DEF IsSeq
<1> QED BY <1>2

\* What is added is no value.
LEMMA AppendFinds ==
    ASSUME NEW c, NEW p, p.it = None, IsSeq(conn[c].iov), conn'[c].iov = Append(conn[c].iov, p)
    PROVE  ~Found(c)
<1>1. Len(conn'[c].iov) = Len(conn[c].iov) + 1 /\ conn'[c].iov[Len(conn[c].iov) + 1] = p
  BY AppendLen
<1> QED BY <1>1 DEF Found

LEMMA SendsFind == ASSUME Clean, NEW c \in Conns, TransmitSome(c) \/ TransmitBlocked(c) PROVE ~Found(c)
<1>1. PICK d, a : d = conn[c] /\ a = Assembled(d)
  OBVIOUS
<1>2. DOMAIN conn = Conns /\ DOMAIN d = ConnFields
  BY <1>1, Domains
<1>3. IsSeq(d.iov) /\ Len(d.iov) \in Nat
  BY <1>1, SeqFacts DEF Clean, Fine
<1>4. DOMAIN a = ConnFields /\ (a.iov = d.iov \/ \E p : p.it = None /\ a.iov = Append(d.iov, p))
  <2>1. PICK p : p = Piece(d, d.wbuf)
    OBVIOUS
  <2>2. p.it = None
    BY <2>1 DEF Piece
  <2>3. a = d \/ a = [d EXCEPT !.iov = Append(d.iov, p), !.wbuf = ""]
    BY <1>1, <2>1 DEF Assembled
  <2> QED BY <1>2, <2>2, <2>3 DEF ConnFields
<1>5. IsSeq(a.iov) /\ Len(a.iov) \in Nat /\ Len(a.iov) <= Len(d.iov) + 1
  <2>1. CASE a.iov = d.iov
    BY <1>3, <2>1
  <2>2. CASE \E p : p.it = None /\ a.iov = Append(d.iov, p)
    BY <1>3, <2>2, AppendLen, IsSeqs
  <2> QED BY <1>4, <2>1, <2>2
<1>6. CASE TransmitSome(c)
  <2>1. PICK n \in 1 .. Len(a.iov) : Set(c, [a EXCEPT !.iov = Drop(a.iov, n)])
    BY <1>1, <1>6 DEF TransmitSome
  <2>2. conn'[c].iov = Drop(a.iov, n)
    BY <1>2, <1>4, <2>1 DEF Set, ConnFields
  <2>3. PICK T : T = {a.iov[m] : m \in DOMAIN a.iov}
    OBVIOUS
  <2>4. a.iov \in Seq(T)
    BY <1>5, <2>3 DEF IsSeq
  <2>5. Len(Drop(a.iov, n)) = Len(a.iov) - n
    BY <1>5, <2>4 DEF Drop
  <2> QED BY <1>1, <1>3, <1>5, <2>2, <2>5 DEF Found
<1>7. CASE TransmitBlocked(c)
  <2>1. Set(c, [a EXCEPT !.ev = "write"]) \/ Set(c, [a EXCEPT !.state = "closing"])
    BY <1>1, <1>7 DEF TransmitBlocked, conn_set_state
  <2>2. conn'[c].iov = a.iov
    BY <1>2, <1>4, <2>1 DEF Set, ConnFields
  <2>3. CASE a.iov = d.iov
    BY <1>1, <1>3, <2>2, <2>3 DEF Found
  <2>4. CASE \E p : p.it = None /\ a.iov = Append(d.iov, p)
    BY <1>1, <1>3, <2>2, <2>4, AppendFinds
  <2> QED BY <1>4, <2>3, <2>4
<1> QED BY <1>6, <1>7

\* What is found after a flush.
Fresher(p) == p.cas > store.oldest_cas \/ store.oldest_live > store.now

\* An item that a lookup returns is newer than the last flush, or the flush is to come.
LEMMA GotFresher ==
    ASSUME StoreOK(store), NEW k \in Keys, NEW g, Got(store, k, g), g.it # None, NEW d
    PROVE  ValuePiece(d, g.s, g.it).it = g.it /\ Fresher(ValuePiece(d, g.s, g.it))
<1>1. PICK i, t, h : i = g.it /\ t = g.s /\ h = store.item[i]
  OBVIOUS
<1>2. i \in DOMAIN store.item /\ Linked(store, i) /\ t.item[i].cas = h.cas /\ ~item_is_flushed(store, i)
  BY <1>1 DEF Got
<1>3. PICK p : p = ValuePiece(d, t, i)
  OBVIOUS
<1>4. p.it = i /\ p.cas = h.cas
  BY <1>2, <1>3 DEF ValuePiece
<1>5. /\ {store.cas_id, store.now, store.oldest_live, store.oldest_cas} \subseteq Nat
      /\ h.cas \in 1 .. store.cas_id /\ h.cas # store.oldest_cas
      /\ store.oldest_live = 0 => store.oldest_cas = 0
  BY <1>1, <1>2 DEF StoreOK
<1>6. ~(store.oldest_live # 0 /\ store.oldest_live <= store.now /\ store.oldest_cas # 0 /\ h.cas < store.oldest_cas)
  BY <1>1, <1>2, <1>5 DEF item_is_flushed
<1>7. Fresher(p)
  BY <1>4, <1>5, <1>6 DEF Fresher
<1> QED BY <1>1, <1>3, <1>4, <1>7

\* A lookup of get adds its hit to what is to be sent.
LEMMA GetKeyFinds ==
    ASSUME Clean, NEW c \in Conns, GetKey(c), Found(c)
    PROVE  Fresher(conn'[c].iov[Len(conn'[c].iov)])
<1>1. PICK k, g, d : k = Head(conn[c].todo) /\ g = item_get(store, k) /\ d = [conn[c] EXCEPT !.todo = Tail(conn[c].todo)]
  OBVIOUS
<1>2. Getting(c) /\ conn[c].todo # <<>> /\ k # LongKey
  BY <1>1 DEF GetKey
<1>3. conn[c].todo \in Seq(Keys \cup {LongKey}) /\ DOMAIN conn[c] = ConnFields /\ StoreOK(store) /\ IsSeq(conn[c].iov)
  BY <1>2, CollectIs
<1>4. k \in Keys
  BY <1>1, <1>2, <1>3
<1>5. Got(store, k, g)
  BY <1>1, <1>3, <1>4, ItemGetIs
<1>6. DOMAIN d = ConnFields /\ d.iov = conn[c].iov
  BY <1>1, <1>3 DEF ConnFields
<1>7. CASE g.it = None
  <2>1. Set(c, d)
    BY <1>1, <1>7 DEF GetKey
  <2>2. Sober(conn[c], d)
    BY <1>6 DEF Sober
  <2> QED BY <2>1, <2>2, SetMild, MildFinds
<1>8. CASE g.it # None
  <2>1. PICK p : p = ValuePiece(d, g.s, g.it)
    OBVIOUS
  <2>2. PICK b, n, M : b = add_iov(d, p) /\ n = b.hits + 1 /\ M = Append(SubSeq(b.ilist, 1, d.hits), g.it) \o Drop(b.ilist, d.hits + 1)
    OBVIOUS
  <2>3. Set(c, [b EXCEPT !.hits = n, !.ilist = M])
    BY <1>1, <1>8, <2>1, <2>2 DEF GetKey
  <2>4. DOMAIN b = ConnFields /\ b.iov = Append(conn[c].iov, p)
    BY <1>6, <2>2 DEF add_iov, ConnFields
  <2>5. conn'[c].iov = Append(conn[c].iov, p)
    BY <2>3, <2>4, Domains DEF Set, ConnFields
  <2>6. conn'[c].iov[Len(conn'[c].iov)] = p
    BY <1>3, <2>5, AppendLen
  <2>7. Fresher(ValuePiece(d, g.s, g.it))
    BY <1>3, <1>4, <1>5, <1>8, GotFresher
  <2> QED BY <2>1, <2>6, <2>7
<1> QED BY <1>7, <1>8

LEMMA BinGetFinds ==
    ASSUME Clean, NEW c \in Conns, process_bin_get_or_touch(c), Found(c)
    PROVE  Fresher(conn'[c].iov[Len(conn'[c].iov)])
<1>1. PICK d, r, k, x : d = conn[c] /\ r = BinRequest(c) /\ k = r.keys[1] /\ x = realtime(store, r.exp)
  OBVIOUS
<1>2. PICK g : g = IF d.cmd \in {"touch", "gat", "gatk"} THEN item_touch(store, k, x) ELSE item_get(store, k)
  OBVIOUS
<1>3. PICK b : b = add_bin_header(d, "OK")
  OBVIOUS
<1>4. PICK h : h = [b EXCEPT !.state = "mwrite", !.write_and_go = "new_cmd", !.item = g.it]
  OBVIOUS
<1>5. /\ Complete(c, {"get_key", "touch_key"})
      /\ Set(c, IF g.it # None
                  THEN IF d.cmd = "touch" THEN h ELSE add_iov(h, ValuePiece(d, g.s, g.it))
                ELSE IF d.noreply THEN conn_set_state(d, "new_cmd")
                ELSE write_bin_error(d, "KEY_ENOENT", 0))
  BY <1>1, <1>2, <1>3, <1>4 DEF process_bin_get_or_touch
<1>6. conn[c].substate \notin {"set_value", "sasl_auth_data"} /\ conn[c].substate # "flush_exptime"
  BY <1>5 DEF Complete
<1>7. DOMAIN d = ConnFields /\ StoreOK(store) /\ k \in Keys
  BY <1>1, <1>5, <1>6, KeyIs
<1>8. Got(store, k, g)
  <2>1. Got(store, k, item_touch(store, k, x)) /\ Got(store, k, item_get(store, k))
    BY <1>7, ItemTouchIs, ItemGetIs
  <2> QED BY <1>2, <2>1
<1>9. Sober(d, h) /\ DOMAIN h = ConnFields /\ Len(h.iov) = 1 /\ IsSeq(h.iov)
  <2>1. PICK f : f = Piece(d, "OK")
    OBVIOUS
  <2>2. f.it = None
    BY <2>1 DEF Piece
  <2>3. b = [d EXCEPT !.iov = <<f>>]
    BY <1>3, <2>1 DEF add_bin_header
  <2>4. h.iov = <<f>> /\ DOMAIN h = ConnFields
    BY <1>4, <1>7, <2>3 DEF ConnFields
  <2> QED BY <2>2, <2>4, IsSeqs DEF Sober
<1>10. CASE g.it # None /\ d.cmd # "touch"
  <2>1. PICK p : p = ValuePiece(d, g.s, g.it)
    OBVIOUS
  <2>2. Set(c, [h EXCEPT !.iov = Append(h.iov, p)])
    BY <1>5, <1>10, <2>1 DEF add_iov
  <2>3. conn'[c].iov = Append(h.iov, p)
    BY <1>9, <2>2, Domains DEF Set, ConnFields
  <2>4. conn'[c].iov[Len(conn'[c].iov)] = p
    BY <1>9, <2>3, AppendLen
  <2>5. Fresher(ValuePiece(d, g.s, g.it))
    BY <1>7, <1>8, <1>10, GotFresher
  <2> QED BY <2>1, <2>4, <2>5
<1>11. CASE ~(g.it # None /\ d.cmd # "touch")
  <2>1. Sober(d, conn_set_state(d, "new_cmd"))
    BY <1>7 DEF Sober, conn_set_state, ConnFields
  <2>2. Sober(d, write_bin_error(d, "KEY_ENOENT", 0))
    BY <1>7, SoberBin
  <2>3. \E e : Set(c, e) /\ Sober(d, e)
    BY <1>5, <1>9, <1>11, <2>1, <2>2
  <2> QED BY <1>1, <2>3, SetMild, MildFinds
<1> QED BY <1>10, <1>11

LEMMA GetEndFinds == ASSUME Clean, NEW c \in Conns, GetEnd(c) PROVE ~Found(c)
<1>1. PICK d, p, b, n : d = conn[c] /\ p = Piece(d, "END") /\ b = add_iov(d, p) /\ n = d.hits
  OBVIOUS
<1>2. DOMAIN conn = Conns /\ DOMAIN d = ConnFields /\ IsSeq(d.iov) /\ p.it = None
  BY <1>1, Domains DEF Clean, Fine, Piece
<1>3. DOMAIN b = ConnFields /\ b.iov = Append(d.iov, p)
  BY <1>1, <1>2 DEF add_iov, ConnFields
<1>4. Set(c, [b EXCEPT !.ileft = n, !.state = "mwrite"])
  BY <1>1 DEF GetEnd, Reply
<1>5. conn'[c].iov = Append(d.iov, p)
  BY <1>2, <1>3, <1>4 DEF Set, ConnFields
<1> QED BY <1>1, <1>2, <1>5, AppendFinds

LEMMA AnswerMild ==
    ASSUME Clean, NEW c \in Conns, NEW d, d = Line(c) \/ d = set_noreply_maybe(c) \/ d = conn[c],
           NEW x, Set(c, out_string(d, x))
    PROVE  Mild(c)
<1>1. Sober(conn[c], d)
  BY Domains, SoberLine DEF Sober
<1>2. Sober(d, out_string(d, x))
  BY <1>1, SoberOut DEF Sober
<1> QED BY <1>1, <1>2, SoberOn, SetMild

LEMMA LinesMild ==
    ASSUME Clean, NEW c \in Conns,
           \/ process_touch_command(c) \/ process_arithmetic_command(c) \/ flush_all(c) \/ PlainAnswer(c)
           \/ SettingCommand(c) \/ AskThread(c) \/ GetLongKey(c)
    PROVE  Mild(c)
<1>1. PICK l, d : l = Line(c) /\ d = set_noreply_maybe(c)
  OBVIOUS
<1>2. CASE process_touch_command(c)
  <2>1. \E x : Set(c, out_string(d, x))
    BY <1>1, <1>2 DEF process_touch_command, Reply
  <2> QED BY <1>1, <2>1, AnswerMild
<1>3. CASE process_arithmetic_command(c)
  <2>1. \E x : Set(c, out_string(d, x))
    BY <1>1, <1>3 DEF process_arithmetic_command, Reply
  <2> QED BY <1>1, <2>1, AnswerMild
<1>4. CASE flush_all(c)
  <2>1. \E x : Set(c, out_string(d, x))
    BY <1>1, <1>4 DEF flush_all
  <2> QED BY <1>1, <2>1, AnswerMild
<1>5. CASE PlainAnswer(c)
  <2>1. \E x : Set(c, out_string(l, x))
    BY <1>1, <1>5 DEF PlainAnswer, Reply
  <2> QED BY <1>1, <2>1, AnswerMild
<1>6. CASE SettingCommand(c)
  <2>1. \E x : Set(c, out_string(l, x)) \/ Set(c, out_string(d, x))
    BY <1>1, <1>6 DEF SettingCommand
  <2> QED BY <1>1, <2>1, AnswerMild
<1>7. CASE AskThread(c)
  <2>1. \E x : Set(c, out_string(l, x))
    BY <1>1, <1>7 DEF AskThread, Reply
  <2> QED BY <1>1, <2>1, AnswerMild
<1>8. CASE GetLongKey(c)
  <2>1. \E x : Set(c, out_string(conn[c], x))
    BY <1>8 DEF GetLongKey
  <2> QED BY <2>1, AnswerMild
<1> QED BY <1>2, <1>3, <1>4, <1>5, <1>6, <1>7, <1>8

LEMMA BeginsMild ==
    ASSUME Clean, NEW c \in Conns, NoLine(c) \/ GetBegin(c) \/ Quit(c) \/ Handover(c)
    PROVE  Mild(c)
<1>1. PICK l : l = Line(c)
  OBVIOUS
<1>2. DOMAIN conn = Conns /\ DOMAIN conn[c] = ConnFields /\ Sober(conn[c], l) /\ DOMAIN l = ConnFields
  BY <1>1, Domains, SoberLine DEF Sober
<1>3. CASE NoLine(c)
  <2>1. \E x : Set(c, [conn[c] EXCEPT !.proto = "ascii", !.state = x])
    BY <1>3 DEF NoLine
  <2> QED BY <1>2, <2>1 DEF Set, Mild, Sober, ConnFields
<1>4. CASE GetBegin(c)
  <2>1. PICK y : y = Request(c).keys
    OBVIOUS
  <2>2. Set(c, [l EXCEPT !.cmd = "get", !.todo = y, !.hits = 0])
    BY <1>1, <1>4, <2>1 DEF GetBegin, Reply
  <2>3. conn'[c] = [l EXCEPT !.cmd = "get", !.todo = y, !.hits = 0]
    BY <1>2, <2>2 DEF Set
  <2>4. DOMAIN conn'[c] = ConnFields /\ conn'[c].iov = l.iov
    BY <1>2, <2>3 DEF ConnFields
  <2> QED BY <1>2, <2>4 DEF Mild, Sober
<1>5. CASE Quit(c)
  <2>1. conn'[c] = [l EXCEPT !.state = "closing"]
    BY <1>1, <1>2, <1>5 DEF Quit, Reply, Set, conn_set_state
  <2>2. DOMAIN conn'[c] = ConnFields /\ conn'[c].iov = l.iov
    BY <1>2, <2>1 DEF ConnFields
  <2> QED BY <1>2, <2>2 DEF Mild, Sober
<1>6. CASE Handover(c)
  <2>1. PICK d, y : d = set_noreply_maybe(c) /\ y = Command(c)
    OBVIOUS
  <2>2. Set(c, [l EXCEPT !.cmd = y, !.state = "watch", !.ev = "none"]) \/ Set(c, out_string(d, "BUSY"))
    BY <1>1, <1>6, <2>1 DEF Handover, Reply
  <2>3. CASE Set(c, out_string(d, "BUSY"))
    BY <2>1, <2>3, AnswerMild
  <2>4. CASE Set(c, [l EXCEPT !.cmd = y, !.state = "watch", !.ev = "none"])
    <3>1. conn'[c] = [l EXCEPT !.cmd = y, !.state = "watch", !.ev = "none"]
      BY <1>2, <2>4 DEF Set
    <3>2. DOMAIN conn'[c] = ConnFields /\ conn'[c].iov = l.iov
      BY <1>2, <3>1 DEF ConnFields
    <3> QED BY <1>2, <3>2 DEF Mild, Sober
  <2> QED BY <2>2, <2>3, <2>4
<1> QED BY <1>3, <1>4, <1>5, <1>6

LEMMA UpdateMild == ASSUME Clean, NEW c \in Conns, process_update_command(c) PROVE Mild(c)
<1>1. PICK d, m, r : d = set_noreply_maybe(c) /\ m = out_of_memory(d, "SERVER_ERROR") /\ r = Request(c)
  OBVIOUS
<1>2. DOMAIN conn = Conns /\ DOMAIN conn[c] = ConnFields /\ Sober(conn[c], d) /\ DOMAIN d = ConnFields
  BY <1>1, Domains, SoberLine DEF Sober
<1>3. Sober(conn[c], m) /\ DOMAIN m = ConnFields
  BY <1>1, <1>2, SoberMemory, SoberOn DEF Sober
<1>4. \/ \E x : Set(c, out_string(d, x))
      \/ \E x, y : Set(c, [m EXCEPT !.write_and_go = "swallow", !.sbytes = x, !.purge = y])
      \/ \E x, y, z : Set(c, [d EXCEPT !.item = x, !.rlbytes = y, !.cmd = z, !.state = "nread"])
  <2>1. CASE Reply(c, out_string(d, "CLIENT_ERROR"))
    BY <2>1 DEF Reply
  <2>2. CASE ~Reply(c, out_string(d, "CLIENT_ERROR"))
    <3>1. PICK a \in Alloc(r, realtime(store, r.exp)) :
            IF a.it = None
              THEN \E y : Set(c, [m EXCEPT !.write_and_go = "swallow", !.sbytes = r.parts, !.purge = y])
              ELSE Set(c, [d EXCEPT !.item = a.it, !.rlbytes = r.parts, !.cmd = r.op, !.state = "nread"])
      BY <1>1, <2>2 DEF process_update_command
    <3> QED BY <3>1
  <2> QED BY <2>1, <2>2
<1>5. CASE \E x : Set(c, out_string(d, x))
  BY <1>1, <1>5, AnswerMild
<1>6. CASE \E x, y : Set(c, [m EXCEPT !.write_and_go = "swallow", !.sbytes = x, !.purge = y])
  <2>1. PICK x, y : Set(c, [m EXCEPT !.write_and_go = "swallow", !.sbytes = x, !.purge = y])
    BY <1>6
  <2>2. conn'[c] = [m EXCEPT !.write_and_go = "swallow", !.sbytes = x, !.purge = y]
    BY <1>2, <2>1 DEF Set
  <2>3. DOMAIN conn'[c] = ConnFields /\ conn'[c].iov = m.iov
    BY <1>3, <2>2 DEF ConnFields
  <2> QED BY <1>3, <2>3 DEF Mild, Sober
<1>7. CASE \E x, y, z : Set(c, [d EXCEPT !.item = x, !.rlbytes = y, !.cmd = z, !.state = "nread"])
  <2>1. PICK x, y, z : Set(c, [d EXCEPT !.item = x, !.rlbytes = y, !.cmd = z, !.state = "nread"])
    BY <1>7
  <2>2. conn'[c] = [d EXCEPT !.item = x, !.rlbytes = y, !.cmd = z, !.state = "nread"]
    BY <1>2, <2>1 DEF Set
  <2>3. DOMAIN conn'[c] = ConnFields /\ conn'[c].iov = d.iov
    BY <1>2, <2>2 DEF ConnFields
  <2> QED BY <1>2, <2>3 DEF Mild, Sober
<1> QED BY <1>4, <1>5, <1>6, <1>7

LEMMA DeleteMild == ASSUME Clean, NEW c \in Conns, process_delete_command(c) PROVE Mild(c)
<1>1. PICK l, d, r, g : /\ l = set_noreply_maybe(c) /\ d = [l EXCEPT !.cmd = "delete"] /\ r = Request(c)
                        /\ g = do_item_get(store, r.keys[1])
  OBVIOUS
<1>2. DOMAIN conn = Conns /\ Sober(conn[c], l) /\ DOMAIN l = ConnFields
  BY <1>1, Domains, SoberLine DEF Sober
<1>3. Sober(l, d) /\ DOMAIN d = ConnFields
  BY <1>1, <1>2 DEF Sober, ConnFields
<1>4. (\E x : Set(c, out_string(d, x))) \/ (\E x : Set(c, [d EXCEPT !.purge = x]))
  BY <1>1 DEF process_delete_command, Reply
<1>5. ASSUME NEW x, Set(c, out_string(d, x)) PROVE Mild(c)
  <2>1. Sober(d, out_string(d, x))
    BY <1>3, SoberOut
  <2> QED BY <1>2, <1>3, <1>5, <2>1, SoberOn, SetMild
<1>6. ASSUME NEW x, Set(c, [d EXCEPT !.purge = x]) PROVE Mild(c)
  <2>1. PICK e : e = [d EXCEPT !.purge = x]
    OBVIOUS
  <2>2. Sober(d, e)
    BY <1>3, <2>1 DEF Sober, ConnFields
  <2> QED BY <1>2, <1>3, <1>6, <2>1, <2>2, SoberOn, SetMild
<1> QED BY <1>4, <1>5, <1>6

LEMMA StatMild == ASSUME Clean, NEW c \in Conns, process_stat(c) PROVE Mild(c)
<1>1. PICK d : d = Line(c)
  OBVIOUS
<1>2. Sober(conn[c], d) /\ DOMAIN d = ConnFields
  BY <1>1, Domains, SoberLine DEF Sober
<1>3. \/ Set(c, write_and_free(d, "END")) \/ Set(c, out_of_memory(d, "SERVER_ERROR"))
      \/ \E x : Set(c, out_string(d, x))
  BY <1>1 DEF process_stat, Reply
<1>4. /\ Sober(d, write_and_free(d, "END")) /\ Sober(d, out_of_memory(d, "SERVER_ERROR"))
      /\ \A x : Sober(d, out_string(d, x))
  BY <1>2, SoberOut, SoberMemory
<1>5. \E e : Set(c, e) /\ Sober(d, e)
  BY <1>3, <1>4
<1> QED BY <1>2, <1>5, SoberOn, SetMild

LEMMA CompleteMild == ASSUME Clean, NEW c \in Conns, complete_nread_ascii(c) PROVE Mild(c)
<1>1. PICK d : d = conn[c]
  OBVIOUS
<1>2. DOMAIN d = ConnFields
  BY <1>1, Domains
<1>3. (\E x : Set(c, [out_string(d, x) EXCEPT !.item = None])) \/ Set(c, [d EXCEPT !.state = "hung"])
  BY <1>1 DEF complete_nread_ascii, Hung
<1>4. ASSUME NEW x, Set(c, [out_string(d, x) EXCEPT !.item = None]) PROVE Mild(c)
  <2>1. PICK b, e : b = out_string(d, x) /\ e = [b EXCEPT !.item = None]
    OBVIOUS
  <2>2. Sober(d, b)
    BY <1>2, <2>1, SoberOut
  <2>3. Sober(b, e)
    BY <2>1, <2>2 DEF Sober, ConnFields
  <2> QED BY <1>1, <1>4, <2>1, <2>2, <2>3, SoberOn, SetMild
<1>5. CASE Set(c, [d EXCEPT !.state = "hung"])
  <2>1. PICK e : e = [d EXCEPT !.state = "hung"]
    OBVIOUS
  <2>2. Sober(d, e)
    BY <1>2, <2>1 DEF Sober, ConnFields
  <2> QED BY <1>1, <1>5, <2>1, <2>2, SetMild
<1> QED BY <1>3, <1>4, <1>5

LEMMA ItemUnlinkMild == ASSUME Clean, NEW c \in Conns, ItemUnlink(c) PROVE Mild(c)
<1>1. PICK d : d = [conn[c] EXCEPT !.purge = None]
  OBVIOUS
<1>2. Sober(conn[c], d) /\ DOMAIN d = ConnFields
  BY <1>1, Domains DEF Sober, ConnFields
<1>3. Set(c, d) \/ Set(c, write_bin_response(d, "OK")) \/ Set(c, out_string(d, "DELETED"))
  BY <1>1 DEF ItemUnlink
<1>4. Sober(d, d) /\ Sober(d, write_bin_response(d, "OK")) /\ Sober(d, out_string(d, "DELETED"))
  BY <1>2, SoberOut, SoberBin DEF Sober
<1>5. \E e : Set(c, e) /\ Sober(d, e)
  BY <1>3, <1>4
<1> QED BY <1>2, <1>5, SoberOn, SetMild

\* A reply of the binary protocol that also says how to go on.
LEMMA SoberGoes ==
    ASSUME NEW d, NEW b, Sober(d, b), NEW x, NEW y, NEW z
    PROVE  /\ Sober(d, [b EXCEPT !.write_and_go = x]) /\ Sober(d, [b EXCEPT !.item = x])
           /\ Sober(d, [b EXCEPT !.sbytes = x]) /\ Sober(d, conn_set_state(b, x))
           /\ Sober(d, [b EXCEPT !.write_and_go = x, !.purge = y])
BY DEF Sober, conn_set_state, ConnFields

LEMMA HeadersMild == ASSUME Clean, NEW c \in Conns, NoHeader(c) \/ BadMagic(c) PROVE Mild(c)
<1>1. DOMAIN conn = Conns /\ DOMAIN conn[c] = ConnFields
  BY Domains
<1> QED BY <1>1 DEF NoHeader, BadMagic, Reply, conn_set_state, Set, Mild, Sober, ConnFields

LEMMA DispatchMild == ASSUME Clean, NEW c \in Conns, dispatch_bin_command(c) PROVE Mild(c)
<1>1. PICK d, r : d = Header(c) /\ r = Request(c)
  OBVIOUS
<1>2. Sober(conn[c], d) /\ DOMAIN d = ConnFields
  BY <1>1, Domains, SoberLine DEF Sober
<1>3. \A x, n : Sober(d, write_bin_response(d, x)) /\ Sober(d, write_bin_error(d, x, n))
  BY <1>2, SoberBin
<1>4. Sober(d, handle_binary_protocol_error(d))
  BY <1>3, SoberGoes DEF handle_binary_protocol_error
<1>5. Sober(d, [write_bin_error(d, "AUTH_ERROR", 0) EXCEPT !.write_and_go = "closing"])
  BY <1>3, SoberGoes
<1>6. Sober(d, BinQuit(d))
  BY <1>3, SoberGoes DEF BinQuit
<1>7. Sober(d, bin_list_sasl_mechs(d))
  BY <1>3 DEF bin_list_sasl_mechs
<1>8. Sober(d, bin_read_key(d))
  <2>1. PICK x, y : bin_read_key(d) = [d EXCEPT !.substate = x, !.state = "nread", !.rlbytes = y]
    BY DEF bin_read_key
  <2> QED BY <1>2, <2>1 DEF Sober, ConnFields
<1>9. \E e : Set(c, e) /\ Sober(d, e)
  <2>1. PICK e : /\ Set(c, e)
                 /\ e = IF settings.sasl /\ ~authenticated(c)
                          THEN [write_bin_error(d, "AUTH_ERROR", 0) EXCEPT !.write_and_go = "closing"]
                        ELSE IF r.bad \/ (r.op \notin NoKeyOps /\ r.keys[1] = LongKey)
                          THEN handle_binary_protocol_error(d)
                        ELSE CASE r.op \in {"version", "noop"} -> write_bin_response(d, "OK")
                               [] r.op = "quit" -> BinQuit(d)
                               [] r.op = "list_mechs" -> bin_list_sasl_mechs(d)
                               [] r.op = "unknown" -> write_bin_error(d, "UNKNOWN_COMMAND", r.parts)
                               [] OTHER -> bin_read_key(d)
    BY <1>1 DEF dispatch_bin_command, Reply
  <2> QED BY <1>3, <1>4, <1>5, <1>6, <1>7, <1>8, <2>1
<1> QED BY <1>2, <1>9, SoberOn, SetMild

LEMMA BinRepliesMild ==
    ASSUME Clean, NEW c \in Conns,
           \/ process_bin_delete(c) \/ complete_incr_bin(c) \/ IncrCreate(c) \/ process_bin_flush(c)
           \/ process_bin_stat(c) \/ complete_update_bin(c)
    PROVE  Mild(c)
<1>1. PICK d : d = conn[c]
  OBVIOUS
<1>2. DOMAIN d = ConnFields
  BY <1>1, Domains
<1>3. \A x, n : Sober(d, write_bin_response(d, x)) /\ Sober(d, write_bin_error(d, x, n)) /\ Sober(d, write_and_free(d, x))
  BY <1>2, SoberBin, SoberOut
<1>4. \A x : Sober(d, [d EXCEPT !.purge = x]) /\ Sober(d, [d EXCEPT !.substate = x]) /\ Sober(d, [d EXCEPT !.state = x])
  BY <1>2 DEF Sober, ConnFields
<1>5. CASE process_bin_delete(c)
  <2>1. \E x : Set(c, write_bin_error(d, x, 0)) \/ Set(c, [d EXCEPT !.purge = x])
    BY <1>1, <1>5 DEF process_bin_delete
  <2> QED BY <1>1, <1>3, <1>4, <2>1, SetMild
<1>6. CASE complete_incr_bin(c)
  <2>1. \/ \E x : Set(c, write_bin_error(d, x, 0)) \/ Set(c, write_bin_response(d, x))
        \/ Set(c, [d EXCEPT !.substate = "incr_create"])
    BY <1>1, <1>6 DEF complete_incr_bin
  <2> QED BY <1>1, <1>3, <1>4, <2>1, SetMild
<1>7. CASE IncrCreate(c)
  <2>1. \E x : Set(c, write_bin_error(d, x, 0)) \/ Set(c, write_bin_response(d, x))
    BY <1>1, <1>7 DEF IncrCreate
  <2> QED BY <1>1, <1>3, <2>1, SetMild
<1>8. CASE process_bin_flush(c)
  <2>1. \E x : Set(c, write_bin_error(d, x, 0)) \/ Set(c, write_bin_response(d, x))
    BY <1>1, <1>8 DEF process_bin_flush
  <2> QED BY <1>1, <1>3, <2>1, SetMild
<1>9. CASE process_bin_stat(c)
  <2>1. \E x : Set(c, write_bin_error(d, x, 0)) \/ Set(c, write_and_free(d, x))
    BY <1>1, <1>9 DEF process_bin_stat
  <2> QED BY <1>1, <1>3, <2>1, SetMild
<1>10. CASE complete_update_bin(c)
  <2>1. \/ \E x : Set(c, [write_bin_error(d, x, 0) EXCEPT !.item = None])
        \/ Set(c, [write_bin_response(d, "OK") EXCEPT !.item = None])
        \/ Set(c, [d EXCEPT !.state = "hung"])
    <3>1. PICK r \in do_store_item(store, d.item, d.cmd) :
            IF r.ret = "HANG" THEN Set(c, [d EXCEPT !.state = "hung"])
            ELSE Set(c, [IF r.ret = "STORED" THEN write_bin_response(d, "OK")
                         ELSE write_bin_error(d, StoreError(d.cmd, r.ret), 0) EXCEPT !.item = None])
      BY <1>1, <1>10 DEF complete_update_bin, Hung
    <3> QED BY <3>1
  <2>2. ASSUME NEW b, Sober(d, b), Set(c, [b EXCEPT !.item = None]) PROVE Mild(c)
    BY <1>1, <2>2, SoberGoes, SetMild
  <2> QED BY <1>1, <1>3, <1>4, <2>1, <2>2, SetMild
<1> QED BY <1>5, <1>6, <1>7, <1>8, <1>9, <1>10

LEMMA BinUpdateMild == ASSUME Clean, NEW c \in Conns, process_bin_update(c) PROVE Mild(c)
<1>1. PICK d, r : d = conn[c] /\ r = BinRequest(c)
  OBVIOUS
<1>2. DOMAIN d = ConnFields
  BY <1>1, Domains
<1>3. PICK v, m : v = r.parts /\ m = out_of_memory(d, "SERVER_ERROR")
  OBVIOUS
<1>4. PICK b : b = IF r.big THEN write_bin_error(d, "E2BIG", v) ELSE [m EXCEPT !.sbytes = v]
  OBVIOUS
<1>5. Sober(d, b)
  BY <1>2, <1>3, <1>4, SoberBin, SoberMemory, SoberGoes
<1>6. \/ \E y : Set(c, [b EXCEPT !.write_and_go = "swallow", !.purge = y])
      \/ \E x, y : Set(c, [d EXCEPT !.cmd = x, !.item = y, !.rlbytes = v, !.state = "nread", !.substate = "set_value"])
  <2>1. \E a, y : /\ a.it = None => Set(c, [b EXCEPT !.write_and_go = "swallow", !.purge = y])
                  /\ a.it # None => \E x : Set(c, [d EXCEPT !.cmd = x, !.item = a.it, !.rlbytes = v, !.state = "nread", !.substate = "set_value"])
    BY <1>1, <1>3, <1>4 DEF process_bin_update
  <2> QED BY <2>1
<1>7. ASSUME NEW y, Set(c, [b EXCEPT !.write_and_go = "swallow", !.purge = y]) PROVE Mild(c)
  BY <1>1, <1>5, <1>7, SoberGoes, SetMild
<1>8. ASSUME NEW x, NEW y, Set(c, [d EXCEPT !.cmd = x, !.item = y, !.rlbytes = v, !.state = "nread", !.substate = "set_value"])
      PROVE  Mild(c)
  <2>1. PICK e : e = [d EXCEPT !.cmd = x, !.item = y, !.rlbytes = v, !.state = "nread", !.substate = "set_value"]
    OBVIOUS
  <2>2. Sober(d, e)
    BY <1>2, <2>1 DEF Sober, ConnFields
  <2> QED BY <1>1, <1>8, <2>1, <2>2, SetMild
<1> QED BY <1>6, <1>7, <1>8

LEMMA SaslMild == ASSUME Clean, NEW c \in Conns, process_bin_sasl_auth(c) \/ process_bin_complete_sasl_auth(c) PROVE Mild(c)
<1>1. PICK d : d = conn[c]
  OBVIOUS
<1>2. DOMAIN d = ConnFields
  BY <1>1, Domains
<1>3. CASE process_bin_sasl_auth(c)
  <2>1. PICK v, b : v = BinRequest(c).parts /\ b = write_bin_error(d, "ENOMEM", v)
    OBVIOUS
  <2>2. Sober(d, b) /\ Sober(d, write_bin_error(d, "UNKNOWN_COMMAND", v))
    BY <1>2, <2>1, SoberBin
  <2>3. \/ Set(c, write_bin_error(d, "UNKNOWN_COMMAND", v)) \/ Set(c, [b EXCEPT !.write_and_go = "swallow"])
        \/ \E x : Set(c, [d EXCEPT !.item = x, !.rlbytes = v, !.substate = "sasl_auth_data"])
    BY <1>1, <1>3, <2>1 DEF process_bin_sasl_auth
  <2>4. CASE Set(c, write_bin_error(d, "UNKNOWN_COMMAND", v))
    BY <1>1, <2>2, <2>4, SetMild
  <2>5. CASE Set(c, [b EXCEPT !.write_and_go = "swallow"])
    BY <1>1, <2>2, <2>5, SoberGoes, SetMild
  <2>6. ASSUME NEW x, Set(c, [d EXCEPT !.item = x, !.rlbytes = v, !.substate = "sasl_auth_data"]) PROVE Mild(c)
    <3>1. PICK e : e = [d EXCEPT !.item = x, !.rlbytes = v, !.substate = "sasl_auth_data"]
      OBVIOUS
    <3>2. Sober(d, e)
      BY <1>2, <3>1 DEF Sober, ConnFields
    <3> QED BY <1>1, <2>6, <3>1, <3>2, SetMild
  <2> QED BY <2>3, <2>4, <2>5, <2>6
<1>4. CASE process_bin_complete_sasl_auth(c)
  <2>1. PICK a : a = [d EXCEPT !.authenticated = TRUE]
    OBVIOUS
  <2>2. Sober(d, a) /\ DOMAIN a = ConnFields
    BY <1>2, <2>1 DEF Sober, ConnFields
  <2>3. Sober(a, write_bin_response(a, "OK"))
    BY <2>2, SoberBin
  <2>4. Sober(d, write_bin_response(a, "OK")) /\ \A x : Sober(d, write_bin_error(d, x, 0))
    BY <1>2, <2>2, <2>3, SoberOn, SoberBin
  <2>5. Set(c, write_bin_response(a, "OK")) \/ \E x : Set(c, write_bin_error(d, x, 0))
    BY <1>1, <1>4, <2>1 DEF process_bin_complete_sasl_auth
  <2> QED BY <1>1, <2>4, <2>5, SetMild
<1> QED BY <1>3, <1>4

LEMMA AsciiFinds ==
    ASSUME Clean, Counts, ooms' = 0, NEW c \in Conns, AsciiStep(c), Found(c)
    PROVE  Fresher(conn'[c].iov[Len(conn'[c].iov)])
<1>1. ~GetKeyNoMemory(c) /\ ~GetEndNoMemory(c)
  BY DEF GetKeyNoMemory, GetEndNoMemory, NoMemory, Counts
<1>2. ~Mild(c)
  BY MildFinds
<1>3. GetKey(c)
  BY <1>1, <1>2, LinesMild, BeginsMild, UpdateMild, DeleteMild, StatMild, CompleteMild, ItemUnlinkMild, GetEndFinds DEF AsciiStep
<1> QED BY <1>3, GetKeyFinds

LEMMA BinaryFinds ==
    ASSUME Clean, Counts, ooms' = 0, NEW c \in Conns, BinaryStep(c), Found(c)
    PROVE  Fresher(conn'[c].iov[Len(conn'[c].iov)])
<1>1. ~BinReadKeyNoMemory(c)
  BY DEF BinReadKeyNoMemory, NoMemory, Counts
<1>2. ~Mild(c)
  BY MildFinds
<1>3. process_bin_get_or_touch(c)
  BY <1>1, <1>2, HeadersMild, DispatchMild, BinRepliesMild, BinUpdateMild, SaslMild DEF BinaryStep
<1> QED BY <1>3, BinGetFinds

LEMMA NextFinds ==
    ASSUME Clean, Counts, ooms' = 0, ServerNext, NEW c \in Conns, Found(c)
    PROVE  Fresher(conn'[c].iov[Len(conn'[c].iov)])
<1>1. ~Mild(c)
  BY MildFinds
<1>2. conn'[c] # conn[c]
  BY <1>1, Domains DEF Mild, Sober
<1>3. ~Tick /\ \A d \in Conns : ~Send(d) /\ ~Arrive(d) /\ ~HangUp(d)
  BY <1>2 DEF Tick, Send, Arrive, HangUp
<1>4. Serve(c)
  BY <1>2, <1>3, ServeSets DEF ServerNext
<1>5. ~ReadNoMemory(c) /\ ~NreadNoMemory(c)
  BY DEF ReadNoMemory, NreadNoMemory, NoMemory, Counts
<1>6. AsciiStep(c) \/ BinaryStep(c)
  BY <1>1, <1>4, <1>5, HandlerMild, ReadsMild, EndsMild, SendsFind DEF Serve, drive_machine
<1> QED BY <1>6, AsciiFinds, BinaryFinds

\* While no malloc has failed, what a lookup adds to an answer, in either protocol, is an item stored after the last
\* immediate flush_all, also in the second of the flush, unless a later flush_all has put the flush off.
THEOREM FlushIsKept == ServerSpec /\ [](ooms = 0) => FlushHides
<1> DEFINE F == ooms = 0
           P == \A c \in Conns : Found(c) =>
                  \/ conn'[c].iov[Len(conn'[c].iov)].cas > store.oldest_cas
                  \/ store.oldest_live > store.now
<1>1. IInv /\ F /\ F' /\ [ServerNext]_connVars => [P]_connVars
  <2> SUFFICES ASSUME IInv, F, F', [ServerNext]_connVars PROVE [P]_connVars
    OBVIOUS
  <2>1. Clean /\ Counts /\ ooms' = 0
    BY DEF IInv, Counts
  <2> QED BY <2>1, NextFinds DEF Fresher
<1>2. FlushHides <=> [][P]_connVars
  BY DEF FlushHides
<1> HIDE DEF F, P
<1>3. ServerSpec /\ []F => [][P]_connVars
  BY <1>1, Invariant, PTL DEF ServerSpec
<1> QED BY <1>2, <1>3 DEF F

-----------------------------------------------------------------------------
=============================================================================
