----------------------------- MODULE LruCrawler -----------------------------
(***************************************************************************)
(* The LRU crawler beside the maintainer: a thread that walks a pseudo     *)
(* item through the HOT, WARM and COLD lists, from tail to head, and       *)
(* reclaims what has expired or dumps what it meets to a client.           *)
(*                                                                         *)
(* lru_crawler_lock is held from the wake-up to the end of a crawl.  The   *)
(* client's buffer is the queue BipBuffer implements, in lines.  A list    *)
(* that the code corrupts ends a behaviour (broken).  Failures of malloc   *)
(* are not modelled here.                                                  *)
(***************************************************************************)
EXTENDS LruMaintainer

CONSTANTS
    Dumpers,           \* connections that ask for metadump
    DumpLines,         \* lines the client's buffer holds
    Hour, MaxWait,     \* buckets of the histogram, MAX_MAINTCRAWL_WAIT, in minutes
    CrawlerThread, Pauser

ASSUME CrawlerAssumption ==
    /\ Hour \in Nat \ {0} /\ MaxWait \in Nat /\ DumpLines \in Nat \ {0}
    /\ Nobody \notin Dumpers \cup {CrawlerThread, Pauser}
    /\ CrawlerThread \notin Pullers /\ Pauser \notin Pullers /\ CrawlerThread # Pauser

Order == <<"HOT", "WARM", "COLD">>
Swept == {Order[n] : n \in DOMAIN Order}

VARIABLES
    crawlers,          \* crawlers[i]: it_flags and remaining
    crawler_count,
    cr,                \* the crawler thread
    crawler_lock,      \* owner of lru_crawler_lock
    mod,               \* active_crawler_mod.mod, and whether its data is the maintainer's
    client, cbuf,      \* the client of a dump and the lines in its buffer
    dumpers,           \* how often each connection was handed over and came back
    cdata,             \* crawlerstats of the maintainer, and when to crawl next
    enabled, do_run,   \* settings.lru_crawler, do_run_lru_crawler_thread
    admin, pauser,     \* the thread that disables or enables; pause_threads
    stranded,          \* a crawl was started that no thread will run
    broken

crawlVars == <<crawlers, crawler_count, cr, crawler_lock, mod, client, cbuf, dumpers, cdata, enabled,
               do_run, admin, pauser, stranded, broken>>

NoStats == [complete |-> FALSE, seen |-> 0, noexp |-> 0, histo |-> [b \in 0 .. Hour - 1 |-> 0]]

CrawlerInit ==
    /\ LruInit
    /\ crawlers = [l \in Swept |-> [on |-> FALSE, remaining |-> 0]]
    /\ crawler_count = 0
    /\ cr = [at |-> IF left.lru_crawler THEN "wait" ELSE "off", wake |-> FALSE, n |-> 1, search |-> Nobody]
    /\ crawler_lock = Nobody
    /\ mod = [type |-> "", external |-> FALSE]
    /\ client = Nobody /\ cbuf = 0
    /\ dumpers = [d \in Dumpers |-> [handed |-> 0, back |-> 0, closed |-> 0, gone |-> FALSE]]
    /\ cdata = [stats |-> NoStats, wait |-> 0, next |-> 0, last |-> 0]
    /\ enabled = left.lru_crawler /\ do_run = left.lru_crawler
    /\ admin = "idle" /\ pauser = "idle"
    /\ stranded = FALSE /\ broken = ""

-----------------------------------------------------------------------------
(* Starting a crawl.                                                       *)

thread == <<enabled, do_run, admin, pauser>>

\* Mutant: the thread is not woken.
SignalNobody == cr

Signal == [cr EXCEPT !.wake = @ \/ cr.at = "wait"]

\* do_lru_crawler_start appends a crawler to each list, also to one that has its crawler still.
do_lru_crawler_start(remaining) ==
    /\ \A l \in Swept : Unlocked(l)
    /\ crawlers' = [l \in Swept |-> [on |-> TRUE, remaining |-> remaining]]
    /\ lists' = [l \in Lrus |-> IF l \in Swept THEN Append(lists[l], Crawler) ELSE lists[l]]
    /\ crawler_count' = crawler_count + Cardinality(Swept)
    /\ broken' = IF \E l \in Swept : crawlers[l].on THEN "relinked" ELSE broken
    /\ stranded' = (stranded \/ cr.at = "off")
    /\ cr' = Signal

Configure(type, external, data) ==
    /\ mod' = [type |-> type, external |-> external]
    /\ cdata' = data

\* lru_crawler_start, having got the lock: CRAWLER_EXPIRED.
StartExpired(external, data) ==
    /\ crawler_lock = Nobody
    /\ Configure("expired", external, data)
    /\ do_lru_crawler_start(left.tocrawl)
    /\ UNCHANGED <<crawler_lock, client, cbuf, dumpers, thread>>

lruButLists == <<clock, items, ilock, lru_lock, pull, wk, bumps, mt, maint_lock, left>>
Spend(what) == left[what] > 0 /\ left' = [left EXCEPT ![what] = @ - 1]

\* lru_crawler crawl, with data of its own.  A taken lock is answered with BUSY.
lru_crawler_crawl ==
    /\ enabled /\ Spend("crawls")
    /\ StartExpired(FALSE, cdata)
    /\ UNCHANGED <<clock, items, ilock, lru_lock, pull, wk, bumps, mt, maint_lock>>

\* lru_crawler metadump; when a client waits for its dump already the module is set all the same.
lru_crawler_metadump(d) ==
    /\ enabled /\ Spend("dumps") /\ crawler_lock = Nobody
    /\ d # client /\ dumpers[d].closed = 0 /\ ~dumpers[d].gone
    /\ Configure("metadump", FALSE, cdata)
    /\ IF client # Nobody
       THEN UNCHANGED <<crawlers, crawler_count, lists, cr, client, dumpers, stranded, broken>>
       ELSE /\ client' = d
            /\ dumpers' = [dumpers EXCEPT ![d].handed = @ + 1]
            /\ do_lru_crawler_start(left.tocrawl)
    /\ UNCHANGED <<clock, items, ilock, lru_lock, pull, wk, bumps, mt, maint_lock, crawler_lock, cbuf, thread>>

\* How long to wait for the next crawl, from what the last one saw.
NextWait(s, wait) ==
    LET low == (s.seen - s.noexp) \div 100 + 1
        Available(b) == LET S[n \in 0 .. b] == s.histo[n] + (IF n = 0 THEN 0 ELSE S[n - 1]) IN S[b]
        enough == {b \in 0 .. Hour - 1 : Available(b) > low}
        b0 == CHOOSE b \in enough : \A c \in enough : b <= c
        w1 == IF enough = {} THEN wait
              ELSE IF wait < b0 THEN wait + 1 ELSE IF wait >= 1 THEN wait - 1 ELSE wait
        w2 == IF Available(Hour - 1) = 0 THEN w1 + 1 ELSE w1
    IN  IF w2 > MaxWait THEN MaxWait ELSE w2

\* The last thing the maintainer does in a pass, at most once in a tick of the clock; waits
\* are in minutes, to which the 5 seconds the code adds are rounded.
lru_maintainer_crawler_check ==
    LET wait == IF cdata.stats.complete THEN NextWait(cdata.stats, cdata.wait) ELSE cdata.wait
        next == IF cdata.stats.complete THEN clock + wait ELSE cdata.next
        checked == [cdata EXCEPT !.stats.complete = FALSE, !.wait = wait, !.next = next, !.last = clock]
    IN  /\ mt.at = "bumps" /\ mt.bufs = {} /\ enabled /\ cdata.last # clock
        /\ IF clock > next /\ crawler_lock = Nobody
           THEN /\ StartExpired(TRUE, [checked EXCEPT !.next = clock, !.stats = NoStats])
                /\ UNCHANGED lruButLists
           ELSE /\ cdata' = [checked EXCEPT !.next = IF clock > next THEN clock ELSE next]
                /\ UNCHANGED <<lruVars, crawlers, crawler_count, cr, crawler_lock, mod, client, cbuf, dumpers,
                               thread, stranded, broken>>

MaintainerRests == (~enabled \/ cdata.last = clock) /\ Rest /\ UNCHANGED crawlVars

-----------------------------------------------------------------------------
(* The crawler thread.                                                     *)

CrawlerWakes ==
    /\ cr.at = "wait" /\ cr.wake /\ crawler_lock = Nobody
    /\ crawler_lock' = CrawlerThread
    /\ cr' = [cr EXCEPT !.at = IF crawler_count = 0 THEN "flush" ELSE "crawl", !.wake = FALSE, !.n = 1]
    /\ UNCHANGED <<lruVars, crawlers, crawler_count, mod, client, cbuf, dumpers, cdata, thread,
                   stranded, broken>>

NextList == cr' = [cr EXCEPT !.at = "crawl", !.n = @ + 1, !.search = Nobody]
Crawling(l) == cr.at = "crawl" /\ cr.n \in DOMAIN Order /\ Order[cr.n] = l
Crawls(l) == Crawling(l) /\ crawlers[l].on

CrawlNotOn(l) ==
    /\ Crawling(l) /\ ~crawlers[l].on /\ NextList
    /\ UNCHANGED <<lruVars, crawlers, crawler_count, crawler_lock, mod, client, cbuf, dumpers, cdata,
                   thread, stranded, broken>>

\* while (crawler_count), after a pass over the lists.
CrawlPassEnds ==
    /\ cr.at = "crawl" /\ cr.n > Len(Order)
    /\ cr' = [cr EXCEPT !.at = IF crawler_count = 0 THEN "flush" ELSE "crawl", !.n = 1]
    /\ UNCHANGED <<lruVars, crawlers, crawler_count, crawler_lock, mod, client, cbuf, dumpers, cdata,
                   thread, stranded, broken>>

Uncounted == crawler_count - 1

\* L: the lists when the crawler has made its last move.
lru_crawler_class_done(l, L) ==
    /\ crawlers' = [crawlers EXCEPT ![l] = [on |-> FALSE, remaining |-> 0]]
    /\ crawler_count' = Uncounted
    /\ lists' = UnlinkQ(L, Crawler, l)
    /\ cdata' = IF mod.type = "expired" /\ mod.external THEN [cdata EXCEPT !.stats.complete = TRUE] ELSE cdata

\* The two early exits call it without the list's lock, which it unlocks: whoever holds the
\* lock is then no longer alone.
DoneEarly(l) ==
    /\ lru_crawler_class_done(l, lists)
    /\ NextList
    /\ broken' = IF Unlocked(l) THEN broken ELSE "raced"
    /\ UNCHANGED <<lruButLists, crawler_lock, mod, thread, stranded>>

CrawlNoClient(l) ==
    /\ Crawls(l) /\ client = Nobody /\ mod.type = "metadump"
    /\ DoneEarly(l) /\ UNCHANGED <<client, cbuf, dumpers>>

Full == client # Nobody /\ cbuf >= DumpLines

\* Mutant: the closed client is not forgotten.
CloseKeeping == dumpers' = [dumpers EXCEPT ![client].closed = @ + 1] /\ cbuf' = 0 /\ client' = client

lru_crawler_close_client == dumpers' = [dumpers EXCEPT ![client].closed = @ + 1] /\ cbuf' = 0 /\ client' = Nobody

\* lru_crawler_client_getbuf while there is no room: the client is gone, or poll fails.
CrawlGetbufFails(l) ==
    /\ Crawls(l) /\ Full
    /\ \/ dumpers[client].gone /\ lru_crawler_close_client
       \/ UNCHANGED <<client, cbuf, dumpers>>
    /\ DoneEarly(l)

\* poll and write: the client takes some of the lines.
lru_crawler_poll ==
    /\ client # Nobody /\ cbuf > 0 /\ ~dumpers[client].gone
    /\ (\E l \in Swept : Crawls(l) /\ Full) \/ cr.at = "flush"
    /\ \E n \in 1 .. cbuf : cbuf' = cbuf - n
    /\ UNCHANGED <<lruVars, crawlers, crawler_count, cr, crawler_lock, mod, client, dumpers, cdata,
                   thread, stranded, broken>>

\* do_item_crawl_q: the crawler and the item above it change places.
Swing(s) == LET n == Place(s, Crawler) IN [s EXCEPT ![n] = s[n - 1], ![n - 1] = s[n]]
AtHead(l) == lists[l][1] = Crawler
MayMove(l) == Crawls(l) /\ Unlocked(l) /\ ~Full /\ ~(client = Nobody /\ mod.type = "metadump")
Left(l) == crawlers[l].remaining = 1      \* remaining && --remaining < 1

CrawlListDone(l) ==
    /\ MayMove(l) /\ (AtHead(l) \/ Left(l))
    /\ lru_crawler_class_done(l, IF AtHead(l) THEN lists ELSE [lists EXCEPT ![l] = Swing(@)])
    /\ NextList
    /\ UNCHANGED <<lruButLists, crawler_lock, mod, client, cbuf, dumpers, thread, stranded, broken>>

Met(l) == Above(l, Crawler)
CrawlMove(l) ==
    /\ MayMove(l) /\ ~AtHead(l) /\ ~Left(l)
    /\ crawlers' = [crawlers EXCEPT ![l].remaining = IF @ = 0 THEN 0 ELSE @ - 1]
    /\ UNCHANGED <<crawler_count, crawler_lock, mod, client, dumpers, thread, stranded, broken>>

Alone(i) == ilock[i] = Nobody /\ items[i].ref = 1
Moved(l) == [lists EXCEPT ![l] = Swing(@)]

\* The item is locked, or somebody uses it.
CrawlBusy(l) ==
    /\ CrawlMove(l) /\ ~Alone(Met(l))
    /\ lists' = Moved(l)
    /\ NextList
    /\ UNCHANGED <<lruButLists, cbuf, cdata>>

Counted(s, i) ==
    [s EXCEPT !.seen = @ + 1, !.noexp = IF items[i].exp = 0 THEN @ + 1 ELSE @,
              !.histo = IF items[i].exp = 0 \/ items[i].exp - clock >= Hour THEN @
                        ELSE [s.histo EXCEPT ![items[i].exp - clock] = @ + 1]]

\* crawler_expired_eval, under the list's lock.
crawler_expired_eval(l) ==
    LET i == Met(l)
    IN  /\ CrawlMove(l) /\ Alone(i) /\ mod.type = "expired"
        /\ IF Expired(i)
           THEN /\ items' = do_item_unlink(items, i)
                /\ lists' = UnlinkQ(Moved(l), i, l)
                /\ UNCHANGED cdata
           ELSE /\ lists' = Moved(l)
                /\ cdata' = IF mod.external THEN [cdata EXCEPT !.stats = Counted(@, i)] ELSE cdata
                /\ UNCHANGED items
        /\ NextList
        /\ UNCHANGED <<clock, ilock, lru_lock, pull, wk, bumps, mt, maint_lock, left, cbuf>>

\* For a dump the list's lock is released first: the item is kept by its lock and a reference.
CrawlHolds(l) ==
    LET i == Met(l)
    IN  /\ CrawlMove(l) /\ Alone(i) /\ mod.type = "metadump"
        /\ lists' = Moved(l)
        /\ items' = [items EXCEPT ![i].ref = @ + 1]
        /\ ilock' = [ilock EXCEPT ![i] = CrawlerThread]
        /\ cr' = [cr EXCEPT !.at = "dump", !.search = i]
        /\ UNCHANGED <<clock, lru_lock, pull, wk, bumps, mt, maint_lock, left, cbuf, cdata>>

crawler_metadump_eval ==
    LET i == cr.search
    IN  /\ cr.at = "dump"
        /\ items' = [items EXCEPT ![i].ref = @ - 1]
        /\ ilock' = [ilock EXCEPT ![i] = Nobody]
        /\ cbuf' = IF Expired(i) THEN cbuf ELSE cbuf + 1
        /\ NextList
        /\ UNCHANGED <<clock, lists, lru_lock, pull, wk, bumps, mt, maint_lock, left, crawlers, crawler_count,
                       crawler_lock, mod, client, dumpers, cdata, thread, stranded, broken>>

\* The last lines are written, or the client turns out to be gone, which the loop tolerates.
FlushCloses ==
    /\ cr.at = "flush" /\ client # Nobody /\ cbuf > 0 /\ dumpers[client].gone
    /\ lru_crawler_close_client
    /\ UNCHANGED <<lruVars, crawlers, crawler_count, cr, crawler_lock, mod, cdata, thread, stranded,
                   broken>>

lru_crawler_release_client ==
    dumpers' = IF client = Nobody THEN dumpers ELSE [dumpers EXCEPT ![client].back = @ + 1]

\* The end of a crawl: finalize, release the client, wait again or leave.
CrawlEnd ==
    /\ cr.at = "flush" /\ (client = Nobody \/ cbuf = 0)
    /\ lru_crawler_release_client
    /\ client' = Nobody
    /\ mod' = [type |-> "", external |-> FALSE]
    /\ cr' = [cr EXCEPT !.at = IF do_run THEN "wait" ELSE "off"]
    /\ crawler_lock' = Nobody
    /\ UNCHANGED <<lruVars, crawlers, crawler_count, cbuf, cdata, thread, stranded, broken>>

CrawlerStarts ==
    /\ cr.at = "start" /\ crawler_lock = Nobody
    /\ enabled' = TRUE
    /\ cr' = [cr EXCEPT !.at = "wait"]
    /\ UNCHANGED <<lruVars, crawlers, crawler_count, crawler_lock, mod, client, cbuf, dumpers, cdata, do_run,
                   admin, pauser, stranded, broken>>

-----------------------------------------------------------------------------
(* Those who stop the crawler, start it again, or pause it.                *)

lruButLeft == <<clock, items, lists, ilock, lru_lock, pull, wk, bumps, mt, maint_lock>>
crawlRest == <<lruButLeft, crawlers, crawler_count, mod, client, cbuf, dumpers, cdata, stranded, broken>>

stop_item_crawler_thread ==
    /\ admin = "idle" /\ enabled /\ do_run /\ crawler_lock = Nobody /\ Spend("toggles")
    /\ do_run' = FALSE
    /\ cr' = Signal
    /\ admin' = "join"
    /\ UNCHANGED <<crawlRest, crawler_lock, enabled, pauser>>

CrawlerJoined ==
    /\ admin = "join" /\ cr.at = "off"
    /\ enabled' = FALSE /\ admin' = "idle"
    /\ UNCHANGED <<crawlRest, crawler_lock, cr, do_run, pauser, left>>

\* The caller waits until the thread has taken the lock and waits for its condition.
start_item_crawler_thread ==
    /\ admin = "idle" /\ ~enabled /\ cr.at = "off" /\ crawler_lock = Nobody /\ Spend("toggles")
    /\ do_run' = TRUE
    /\ cr' = [cr EXCEPT !.at = "start"]
    /\ UNCHANGED <<crawlRest, crawler_lock, enabled, admin, pauser>>

\* pause_threads(PAUSE_ALL_THREADS), the crawler first, then the maintainer.
lru_crawler_pause ==
    /\ pauser = "idle" /\ Spend("pauses")
    /\ pauser' = "asks"
    /\ UNCHANGED <<crawlRest, cr, crawler_lock, enabled, do_run, admin>>

CrawlerPaused ==
    /\ pauser = "asks" /\ crawler_lock = Nobody
    /\ crawler_lock' = Pauser /\ pauser' = "half"
    /\ UNCHANGED <<crawlRest, cr, enabled, do_run, admin, left>>

lru_maintainer_pause ==
    /\ pauser = "half" /\ maint_lock = Nobody
    /\ maint_lock' = Pauser /\ pauser' = "paused"
    /\ UNCHANGED <<clock, items, lists, ilock, lru_lock, pull, wk, bumps, mt, left, crawlers, crawler_count, cr,
                   crawler_lock, mod, client, cbuf, dumpers, cdata, enabled, do_run, admin, stranded,
                   broken>>

ResumeAll ==
    /\ pauser = "paused"
    /\ maint_lock' = Nobody /\ crawler_lock' = Nobody /\ pauser' = "idle"
    /\ UNCHANGED <<clock, items, lists, ilock, lru_lock, pull, wk, bumps, mt, left, crawlers, crawler_count, cr,
                   mod, client, cbuf, dumpers, cdata, enabled, do_run, admin, stranded, broken>>

HangUp(d) ==
    /\ client = d /\ ~dumpers[d].gone
    /\ dumpers' = [dumpers EXCEPT ![d].gone = TRUE]
    /\ UNCHANGED <<lruVars, crawlers, crawler_count, cr, crawler_lock, mod, client, cbuf, cdata, thread,
                   stranded, broken>>

-----------------------------------------------------------------------------

CrawlStep == \/ CrawlerWakes \/ CrawlPassEnds \/ crawler_metadump_eval \/ FlushCloses \/ CrawlEnd \/ CrawlerStarts
             \/ \E l \in Swept : CrawlNotOn(l) \/ CrawlNoClient(l) \/ CrawlGetbufFails(l) \/ CrawlListDone(l)
                                   \/ CrawlBusy(l) \/ crawler_expired_eval(l) \/ CrawlHolds(l)

MaintainStep == \/ Maintain /\ UNCHANGED crawlVars
                \/ lru_maintainer_crawler_check
                \/ MaintainerRests

LruThreadsNext ==
    /\ broken = ""
    /\ \/ Tick /\ UNCHANGED crawlVars
       \/ \E w \in LruWorkers : (Request(w) \/ AllocPull(w) \/ PullStep(w)) /\ UNCHANGED crawlVars
       \/ MaintainStep
       \/ CrawlStep \/ lru_crawler_poll
       \/ lru_crawler_crawl
       \/ \E d \in Dumpers : lru_crawler_metadump(d) \/ HangUp(d)
       \/ stop_item_crawler_thread \/ CrawlerJoined \/ start_item_crawler_thread
       \/ lru_crawler_pause \/ CrawlerPaused \/ lru_maintainer_pause \/ ResumeAll

allVars == <<lruVars, crawlVars>>
LruThreadsSpec == CrawlerInit /\ [][LruThreadsNext]_allVars

\* The threads run, a mutex is granted to one who waits for it, and the client of a dump
\* reads or hangs up.
Live(A) == broken = "" /\ A
LruThreadsFair ==
    /\ \A w \in LruWorkers : SF_allVars(Live(Finish(w) /\ UNCHANGED crawlVars))
    /\ SF_allVars(Live(MaintainStep)) /\ SF_allVars(Live(CrawlStep)) /\ WF_allVars(Live(lru_crawler_poll))
    /\ SF_allVars(Live(CrawlerPaused)) /\ SF_allVars(Live(lru_maintainer_pause)) /\ WF_allVars(Live(ResumeAll))
LruThreadsFairSpec == LruThreadsSpec /\ LruThreadsFair

-----------------------------------------------------------------------------
(* Properties.                                                             *)

Sound == broken = ""

\* The sets the values stay in; a client's buffer is never written beyond its size.
LruTypeOK ==
    /\ clock \in 0 .. MaxTime /\ crawler_count \in 0 .. 2 * Cardinality(Swept)
    /\ \A i \in Items : items[i].lru \in Lrus \cup {""} /\ items[i].ref \in Nat
    /\ \A l \in Lrus : Range(lists[l]) \subseteq Items \cup {Crawler}
    /\ \A w \in LruWorkers : wk[w].got \subseteq Items /\ Len(bumps[w]) <= BumpSize
    /\ cbuf \in 0 .. DumpLines /\ cdata.wait \in 0 .. MaxWait
    /\ mt.i \in 0 .. JuggleLoops - 1 /\ mt.sleep \in 0 .. MaxSleep

InTransit(i) == \E p \in Pullers : pull[p].at = "settle" /\ At(p) = i /\ pull[p].to # ""

\* Every linked item is in the list its header names, once, and in no other, except one that
\* lru_pull_tail carries from one list to another under its item lock.
ListsExact ==
    Sound => \A i \in Items : \A l \in Lrus :
        Cardinality(Positions(lists[l], i)) =
            IF items[i].linked /\ ~InTransit(i) /\ items[i].lru = l THEN 1 ELSE 0

\* crawler_count is the number of crawlers that are in their lists: it ends the crawl.
CrawlersCounted ==
    Sound => /\ crawler_count = Cardinality({l \in Swept : crawlers[l].on})
             /\ \A l \in Lrus : Cardinality(Positions(lists[l], Crawler)) =
                                  IF l \in Swept /\ crawlers[l].on THEN 1 ELSE 0

\* Worker, maintainer and crawler, which take LRU locks for a few steps each,
\* leave the lists whole: items and crawlers are where their headers say.
ListsWhole == LruTypeOK /\ ListsExact /\ CrawlersCounted

Pending(w) == IF mt.cur = w THEN mt.todo \o SubSeq(bumps[w], mt.size + 1, Len(bumps[w])) ELSE bumps[w]
Queued(i) == UNION {{<<w, n>> : n \in {m \in DOMAIN Pending(w) : Pending(w)[m] = i}} : w \in LruWorkers}

Got(i) == {w \in LruWorkers : i \in wk[w].got}
Settling(i) == {p \in Pullers : pull[p].at = "settle" /\ At(p) = i}

\* The references of an item are its link, those of workers, of queued bumps, of lru_pull_tail
\* and of the crawler; an item without any is free.
RefsExact ==
    \A i \in Items :
        items[i].ref = (IF items[i].linked THEN 1 ELSE 0)
                         + Cardinality(Got(i)) + Cardinality(Queued(i)) + Cardinality(Settling(i))
                         + (IF cr.search = i THEN 1 ELSE 0)

\* A COLD item that is marked ACTIVE, which no further hit will queue, is queued.
ActiveIsQueued ==
    \A i \in Items : items[i].linked /\ items[i].lru = "COLD" /\ items[i].active => Queued(i) # {}

\* A bump that is queued, dropped because the buffer is full, or overtaken by
\* a delete keeps neither a reference nor the ACTIVE mark for ever.
BumpsKept == RefsExact /\ ActiveIsQueued

\* The crawler returns each connection it was given once: to its worker, or closed.
ClientReturned ==
    \A d \in Dumpers : dumpers[d].handed = dumpers[d].back + dumpers[d].closed + (IF client = d THEN 1 ELSE 0)

\* Bumps are applied: a bump buffer is emptied again and again.
BumpsDrain == \A w \in LruWorkers : (bumps[w] # <<>>) ~> (bumps[w] = <<>> \/ ~Sound)

\* A crawl that a thread was there to run ends, and so does the dump of a client.
CrawlEnds == (crawler_count > 0 \/ client # Nobody) /\ ~stranded ~> (crawler_count = 0 /\ client = Nobody) \/ stranded \/ ~Sound

\* Whoever pauses all threads gets its pause.
PauseGranted == (pauser = "asks") ~> (pauser = "paused" \/ ~Sound)

\* HOT shrinks to its share: what is over it sinks to COLD.
HotSinks == (Len(lists["HOT"]) > HotLimit) ~> (Size("HOT") <= HotLimit \/ stranded \/ ~Sound)

\* The maintainer's juggling comes to every class, list and buffer again,
\* although it sleeps between rounds and stops early when a lock is busy.
MaintainerWorks == BumpsDrain /\ HotSinks

\* The crawler thread neither sleeps through a start nor holds up whoever
\* pauses all threads, although it stops to wait for a dump's client.
CrawlerWorks == CrawlEnds /\ PauseGranted

\* What doc/protocol.txt says of BUSY: a crawl is not accepted while another is processed.
BusyWhileCrawling == broken # "relinked"
=============================================================================
