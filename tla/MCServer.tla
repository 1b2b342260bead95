------------------------------ MODULE MCServer ------------------------------
(***************************************************************************)
(* Small instances of the server.  A menu gives for each connection the    *)
(* requests it may send, first, second and so on; an initial state has one *)
(* menu.                                                                   *)
(***************************************************************************)
EXTENDS Server, TLC
CONSTANTS c1, c2, k1, k2, i1, i2, i3

Base == [proto |-> "ascii", op |-> "get", keys |-> <<k1>>, quiet |-> FALSE, bad |-> FALSE,
         val |-> <<>>, parts |-> 0, crlf |-> TRUE, cas |-> FALSE, big |-> FALSE, exp |-> 0,
         delta |-> 1, create |-> FALSE, sub |-> "", arg |-> 0, frags |-> 0]
A(op) == [Base EXCEPT !.op = op]
B(op) == [Base EXCEPT !.op = op, !.proto = "binary"]
Data(r, val) == [r EXCEPT !.val = val, !.parts = 1]
Quiet(r) == [r EXCEPT !.quiet = TRUE]
Bad(r) == [r EXCEPT !.bad = TRUE]
InPieces(r) == [r EXCEPT !.frags = 1]
Arg(r, n) == [r EXCEPT !.arg = n]
Sub(r, s) == [r EXCEPT !.sub = s]

\* Every command of the text protocol.
AsciiMenu ==
    {Data(A(op), <<9>>) : op \in {"set", "add", "replace", "append", "prepend"}}
    \cup {Quiet(Data(A("set"), <<9>>)), Bad(Data(A("set"), <<9>>)),
          [Data(A("set"), <<9, 9, 9>>) EXCEPT !.parts = 2], Data(A("set"), <<>>),
          [Data(A("set"), <<9>>) EXCEPT !.crlf = FALSE],
          [Data(A("set"), <<9>>) EXCEPT !.big = TRUE],
          Quiet([Data(A("set"), <<9>>) EXCEPT !.big = TRUE]),
          [Data(A("cas"), <<1>>) EXCEPT !.cas = TRUE],
          [A("get") EXCEPT !.keys = <<k1, k2>>], [A("get") EXCEPT !.keys = <<k1, LongKey>>],
          [A("gets") EXCEPT !.frags = 2], [A("unknown") EXCEPT !.frags = 2],
          A("incr"), Quiet(A("decr")), Bad(A("incr")), A("delete"), Bad(A("delete")),
          A("touch"), Bad(A("touch")), A("flush_all"), A("quit"), A("version"),
          A("watch"), A("metadump"), A("crawl"),
          Sub(A("stats"), ""), Sub(A("stats"), "reset"), Sub(A("stats"), "on"),
          Sub(A("stats"), "bad"), Arg(A("verbosity"), 3), Arg(A("automove"), 3),
          Arg(A("memlimit"), 8), Arg(Quiet(A("lru_tune")), 80), Arg(A("sleep"), 1)}

BinaryMenu ==
    {Data(B(op), <<9>>) : op \in {"set", "add", "replace", "append", "prepend"}}
    \cup {Quiet(Data(B("set"), <<9>>)), B("set"), Bad(Data(B("add"), <<9>>)),
          [Data(B("set"), <<9, 9, 9>>) EXCEPT !.parts = 2], InPieces(B("get")), Quiet(B("get")), B("getk"),
          [Data(B("set"), <<9>>) EXCEPT !.big = TRUE],
          Quiet([Data(B("append"), <<9>>) EXCEPT !.big = TRUE]),
          [Data(B("set"), <<1>>) EXCEPT !.cas = TRUE],
          Quiet(B("gat")), B("touch"), B("delete"), [B("delete") EXCEPT !.cas = TRUE],
          [B("incr") EXCEPT !.create = TRUE, !.val = <<5>>], [B("decr") EXCEPT !.cas = TRUE],
          Quiet(B("incr")), B("flush"), Quiet(B("flush0")), B("noop"), B("version"),
          B("quit"), Quiet(B("quit")), Sub(B("stat"), ""), Sub(B("stat"), "bad"),
          Sub(B("stat"), "off"), [B("unknown") EXCEPT !.parts = 1], B("list_mechs"),
          Data(B("sasl_auth"), <<1>>)}

SaslMenu == {Data(B("sasl_auth"), <<1>>), Data(B("sasl_step"), <<9, 9, 9>>), B("list_mechs"), B("get")}

\* A first request of any kind on an empty cache, any request when something
\* is stored, one request after another on a stored number, two clients on
\* one key, and flushes in time.
Set9 == Data(A("set"), <<9>>)
BSet9 == Data(B("set"), <<9>>)
Values == {Set9, Data(A("set"), <<>>), Data(A("set"), <<9, 9>>)}
Other == {A("decr"), A("delete"), Data(A("append"), <<1>>), Set9}
FlushMenu == {A("get"), A("flush_all"), [A("flush_all") EXCEPT !.exp = 3]}

On1(m) == (c1 :> m) @@ (c2 :> <<>>)
MCMenus ==
    [ascii1 |-> On1(<<AsciiMenu, {A("get")}>>),
     ascii2 |-> On1(<<Values, AsciiMenu>>),
     binary1 |-> On1(<<BinaryMenu, {B("get"), A("get")}>>),
     binary2 |-> On1(<<{BSet9, Data(B("set"), <<9, 9>>)}, BinaryMenu>>),
     sasl |-> On1(<<SaslMenu, SaslMenu>>),
     race |-> (c1 :> <<{Set9}, {[A("gets") EXCEPT !.keys = <<k1, k1>>]},
                       {[Data(A("cas"), <<1>>) EXCEPT !.cas = TRUE]}>>) @@
              (c2 :> <<Other>>),
     brace |-> (c1 :> <<{BSet9}, {Quiet(B("get"))},
                        {[B(op) EXCEPT !.cas = TRUE] : op \in {"delete", "decr"}}>>) @@
               (c2 :> <<{B("incr"), BSet9}>>),
     flush |-> On1(<<{Set9}, FlushMenu, FlushMenu, FlushMenu>>)]
MCMaxTime == [m \in DOMAIN MCMenus |-> IF m = "flush" THEN 4 ELSE 2]
MCMaxFailures == [m \in DOMAIN MCMenus |-> IF m \in {"race", "brace", "flush"} THEN 0 ELSE 1]
MCPool == [m \in DOMAIN MCMenus |-> IF m \in {"ascii2", "binary2"} THEN {i1, i2, i3} ELSE {i1, i2}]
MCWorkerOf == (c1 :> 1) @@ (c2 :> 2)
=============================================================================
