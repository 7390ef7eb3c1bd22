------------------------- MODULE FeatureConfigProofs -------------------------
(***************************************************************************)
(* Proofs about FeatureConfig, for any RFC switches, any stored values and  *)
(* documents and any number of requests, failures, restarts and changes.    *)
(*                                                                          *)
(* The steps a handler still has to run are well formed: what one step      *)
(* leaves half done the next one goes on with.  So where a handler stands   *)
(* says how memory, syscfg and flash may differ.                            *)
(***************************************************************************)
EXTENDS FeatureConfig, SequenceTheorems, TLAPS

-----------------------------------------------------------------------------
(* Well-formed handlers.                                                    *)

BootOps == {"load", "wifiTry", "dclBoot", "dclValue", "agentBoot"}
EntryOps == {"precheck", "precheckLevl", "init", "deinit", "dclAtInit", "dclAtDeInit", "dclIfOff", "dclIfOn",
             "completed", "initialized", "update", "agent", "wifiSet", "wifiWait"}
Ops == BootOps \cup EntryOps \cup {"set", "commit", "mem", "initOrClear"}
Steps == {x \in [op : Ops, f : Features, v : BOOLEAN] :
             (x.op = "update" => x.f \notin {"fp", "dcl"}) /\ (x.op = "agent" => x.f = "fp")}

(* Ops that write a switch, at once or after a comparison.                  *)
Writes == {"set", "commit", "mem", "update", "agent"}

Is(y, op, f, v) == y.op = op /\ y.f = f /\ y.v = v

(* The steps that leave something to the next one, and what they leave.     *)
Bound(x) ==
    \/ x.op \in {"set", "init", "deinit", "dclAtInit", "initOrClear", "dclAtDeInit"}
    \/ x.op \in {"load", "wifiTry", "dclBoot", "dclValue"}
    \/ x.op = "commit" /\ x.f # "fp"
    \/ x.op = "mem" /\ x.f = "fp"

(* The steps a handler may start with, or go on with after the others.      *)
Entry(y) == y.op \in EntryOps \/ (y.op = "set" /\ y.f \notin {"fp", "dcl"})

Leads(x, y) ==
    /\ x.op = "set" => Is(y, "commit", x.f, x.v)
    /\ x.op = "commit" /\ x.f # "fp" => Is(y, "mem", x.f, x.v)
    /\ x.op = "mem" /\ x.f = "fp" => Is(y, "set", "fp", x.v)
    /\ x.op \in {"dclAtInit", "initOrClear"} => Is(y, "mem", "fp", TRUE)
    /\ x.op = "dclAtDeInit" => Is(y, "mem", "fp", FALSE)
    /\ x.op = "init" => Is(y, "set", "dcl", TRUE)
    /\ x.op = "deinit" => Is(y, "set", "dcl", FALSE) \/ Is(y, "mem", "fp", FALSE)
    /\ x.op = "load" => y.op = "wifiTry"
    /\ x.op = "wifiTry" => y.op = "dclBoot"
    /\ x.op \in {"dclBoot", "dclValue"} => y.op = "agentBoot"
    /\ ~Bound(x) => Entry(y)

(* CosaAdvSecStartFeatures ends with an assignment to the agent's switch    *)
(* that stands alone.                                                       *)
Lone(s, i) == i = Len(s) /\ Is(s[i], "mem", "fp", TRUE)

WellFormed(s) ==
    /\ s \in Seq(Steps)
    /\ \A i \in 1 .. Len(s) :
          IF i < Len(s) THEN Leads(s[i], s[i + 1]) \/ (~Bound(s[i]) /\ Lone(s, i + 1))
                        ELSE ~Bound(s[i]) \/ Lone(s, i)

Loading == todo["bus"] # <<>> /\ Head(todo["bus"]).op = "load"

(* Once the component is up no handler boots; the event callback deals with *)
(* data collection only; who has steps to run is serving a request.         *)
Control ==
    /\ \A a \in Actors : WellFormed(todo[a])
    /\ \A i \in 1 .. Len(todo["wifi"]) : todo["wifi"][i].f = "dcl"
    /\ up => \A a \in Actors : \A i \in 1 .. Len(todo[a]) : todo[a][i].op \notin BootOps
    /\ ~up => todo["webconfig"] = <<>> /\ todo["wifi"] = <<>> /\ \A a \in Actors : ~job[a].busy
    /\ \A a \in Actors : todo[a] # <<>> => job[a].busy \/ (a = "bus" /\ ~up)
    /\ \A a \in Actors : ~job[a].busy => DOMAIN job[a].asks = {}
    /\ DOMAIN job["wifi"].asks = {}
    /\ Loading => todo["bus"] = CosaSecurityInitialize

(* One setter or blob at a time.                                            *)
Exclusive ==
    /\ ~(job["bus"].busy /\ job["webconfig"].busy)
    /\ ~faults.overlap => \A a \in Actors : job["wifi"].busy /\ job[a].busy => a = "wifi"

(* A handler writes what it was asked for, and otherwise what is there.     *)
Aimed ==
    \A a \in Actors : \A i \in 1 .. Len(todo[a]) :
        LET x == todo[a][i]
        IN  /\ x.op \in Writes /\ x.f # "dcl" =>
                 x.v = IF x.f \in DOMAIN job[a].asks THEN job[a].asks[x.f] ELSE mem[x.f]
            /\ Lone(todo[a], i) => "fp" \notin DOMAIN job[a].asks

-----------------------------------------------------------------------------
(* The values of a switch.                                                  *)

(* A handler is between the first and the last of its writes to f.          *)
Moving(a, f) ==
    /\ todo[a] # <<>> /\ Feature(a) = f
    /\ Head(todo[a]).op \in (IF f = "fp" THEN {"set", "commit"} ELSE {"commit", "mem"})

Moved(a, f) ==
    IF f = "fp" THEN /\ mem[f] = Value(a)
                     /\ Doing(a, "commit") => cfg[f] = Value(a)
                ELSE /\ cfg[f] = Value(a)
                     /\ Doing(a, "mem") => flash[f] = Value(a)

Pending(a, f) == \E i \in 1 .. Len(todo[a]) : todo[a][i].f = f /\ todo[a][i].op \in Writes
Midway(a, f) == \E i \in 1 .. Len(todo[a]) : todo[a][i].f = f /\ todo[a][i].op \in {"set", "commit", "mem"}

(* The three copies of f hold v.                                            *)
Settled(f, v) == mem[f] = v /\ cfg[f] = v /\ flash[f] = v

(* What a handler promises of f is there, or is still to be written; a step *)
(* that may find it in memory and write nothing is not all that is left.    *)
Due(a, f) ==
    LET v == job[a].asks[f]
    IN  Settled(f, v) \/ Midway(a, f) \/ (Pending(a, f) /\ mem[f] # v)

Kept(f) ==
    /\ \A a \in Actors : Moving(a, f) => Moved(a, f)
    /\ flash[f] \in promised[f] /\ cfg[f] \in promised[f] /\ (Loading \/ mem[f] \in promised[f])
    /\ \A a \in Actors : f \in DOMAIN job[a].asks => job[a].asks[f] \in promised[f] /\ Due(a, f)

AllKept == \A f \in Features \ {"dcl"} : Kept(f)

(* Between two handlers the copies agree, while no write has failed.        *)
Same(f) ==
    (\A a \in Actors : ~Moving(a, f)) => (faults.cut \/ cfg[f] = flash[f]) /\ (Loading \/ mem[f] = cfg[f])

AllSame == faults.set + faults.commit = 0 => \A f \in Features \ {"dcl"} : Same(f)

-----------------------------------------------------------------------------
(* Data collection.                                                         *)

Collecting == mem["fp"] /\ mem["dcl"] => consumer

(* What holds when h comes next, of the agent's switch, data collection's   *)
(* and the consumer.                                                        *)
RunsAt(h, fp, dcl, runs) ==
    CASE h.op \in BootOps \cup {"dclAtInit", "initOrClear"} -> TRUE
      [] h.op \in {"set", "commit", "mem"} /\ h.f = "dcl" -> h.v => runs
      [] h.op = "mem" /\ h.f = "fp" -> h.v /\ dcl => runs
      [] OTHER -> fp /\ dcl => runs
HeadRuns(h) == RunsAt(h, mem["fp"], mem["dcl"], consumer)

Runs ==
    faults.set + faults.commit = 0 /\ ~faults.overlap =>
        /\ (\A a \in Actors : todo[a] = <<>>) => Collecting
        /\ \A a \in Actors : todo[a] # <<>> => HeadRuns(Head(todo[a]))

-----------------------------------------------------------------------------
(* The handlers as lists.                                                   *)

(* Lists put together.                                                      *)
LEMMA Join21 ==
    ASSUME NEW a, NEW b, NEW c
    PROVE  <<a, b>> \o <<c>> = <<a, b, c>>
<1> DEFINE S == {a, b, c}
           R == <<a, b>> \o <<c>>
<1>1. <<a, b>> \in Seq(S) /\ Len(<<a, b>>) = 2 /\ <<c>> \in Seq(S) /\ Len(<<c>>) = 1
  OBVIOUS
<1>2. <<a, b, c>> \in Seq(S) /\ Len(<<a, b, c>>) = 3
  OBVIOUS
<1> HIDE DEF S
<1>3. /\ R \in Seq(S) /\ Len(R) = 3
      /\ R[1] = a /\ R[2] = b /\ R[3] = c
  BY <1>1, ConcatProperties
<1> HIDE DEF R
<1>4. R = <<a, b, c>>
  BY <1>2, <1>3, SeqEqual
<1> QED
  BY <1>4 DEF R

LEMMA Join22 ==
    ASSUME NEW a, NEW b, NEW c, NEW d
    PROVE  <<a, b>> \o <<c, d>> = <<a, b, c, d>>
<1> DEFINE S == {a, b, c, d}
           R == <<a, b>> \o <<c, d>>
<1>1. <<a, b>> \in Seq(S) /\ Len(<<a, b>>) = 2 /\ <<c, d>> \in Seq(S) /\ Len(<<c, d>>) = 2
  OBVIOUS
<1>2. <<a, b, c, d>> \in Seq(S) /\ Len(<<a, b, c, d>>) = 4
  OBVIOUS
<1> HIDE DEF S
<1>3. /\ R \in Seq(S) /\ Len(R) = 4
      /\ R[1] = a /\ R[2] = b /\ R[3] = c /\ R[4] = d
  BY <1>1, ConcatProperties
<1> HIDE DEF R
<1>4. R = <<a, b, c, d>>
  BY <1>2, <1>3, SeqEqual
<1> QED
  BY <1>4 DEF R

LEMMA Join13 ==
    ASSUME NEW a, NEW b, NEW c, NEW d
    PROVE  <<a>> \o <<b, c, d>> = <<a, b, c, d>>
<1> DEFINE S == {a, b, c, d}
           R == <<a>> \o <<b, c, d>>
<1>1. <<a>> \in Seq(S) /\ Len(<<a>>) = 1 /\ <<b, c, d>> \in Seq(S) /\ Len(<<b, c, d>>) = 3
  OBVIOUS
<1>2. <<a, b, c, d>> \in Seq(S) /\ Len(<<a, b, c, d>>) = 4
  OBVIOUS
<1> HIDE DEF S
<1>3. /\ R \in Seq(S) /\ Len(R) = 4
      /\ R[1] = a /\ R[2] = b /\ R[3] = c /\ R[4] = d
  BY <1>1, ConcatProperties
<1> HIDE DEF R
<1>4. R = <<a, b, c, d>>
  BY <1>2, <1>3, SeqEqual
<1> QED
  BY <1>4 DEF R

LEMMA Join23 ==
    ASSUME NEW a, NEW b, NEW c, NEW d, NEW e
    PROVE  <<a, b>> \o <<c, d, e>> = <<a, b, c, d, e>>
<1> DEFINE S == {a, b, c, d, e}
           R == <<a, b>> \o <<c, d, e>>
<1>1. <<a, b>> \in Seq(S) /\ Len(<<a, b>>) = 2 /\ <<c, d, e>> \in Seq(S) /\ Len(<<c, d, e>>) = 3
  OBVIOUS
<1>2. <<a, b, c, d, e>> \in Seq(S) /\ Len(<<a, b, c, d, e>>) = 5
  OBVIOUS
<1> HIDE DEF S
<1>3. /\ R \in Seq(S) /\ Len(R) = 5
      /\ R[1] = a /\ R[2] = b /\ R[3] = c /\ R[4] = d /\ R[5] = e
  BY <1>1, ConcatProperties
<1> HIDE DEF R
<1>4. R = <<a, b, c, d, e>>
  BY <1>2, <1>3, SeqEqual
<1> QED
  BY <1>4 DEF R

LEMMA Join41 ==
    ASSUME NEW a, NEW b, NEW c, NEW d, NEW e
    PROVE  <<a, b, c, d>> \o <<e>> = <<a, b, c, d, e>>
<1> DEFINE S == {a, b, c, d, e}
           R == <<a, b, c, d>> \o <<e>>
<1>1. <<a, b, c, d>> \in Seq(S) /\ Len(<<a, b, c, d>>) = 4 /\ <<e>> \in Seq(S) /\ Len(<<e>>) = 1
  OBVIOUS
<1>2. <<a, b, c, d, e>> \in Seq(S) /\ Len(<<a, b, c, d, e>>) = 5
  OBVIOUS
<1> HIDE DEF S
<1>3. /\ R \in Seq(S) /\ Len(R) = 5
      /\ R[1] = a /\ R[2] = b /\ R[3] = c /\ R[4] = d /\ R[5] = e
  BY <1>1, ConcatProperties
<1> HIDE DEF R
<1>4. R = <<a, b, c, d, e>>
  BY <1>2, <1>3, SeqEqual
<1> QED
  BY <1>4 DEF R

LEMMA Join43 ==
    ASSUME NEW a, NEW b, NEW c, NEW d, NEW e, NEW g, NEW h
    PROVE  <<a, b, c, d>> \o <<e, g, h>> = <<a, b, c, d, e, g, h>>
<1> DEFINE S == {a, b, c, d, e, g, h}
           R == <<a, b, c, d>> \o <<e, g, h>>
<1>1. <<a, b, c, d>> \in Seq(S) /\ Len(<<a, b, c, d>>) = 4 /\ <<e, g, h>> \in Seq(S) /\ Len(<<e, g, h>>) = 3
  OBVIOUS
<1>2. <<a, b, c, d, e, g, h>> \in Seq(S) /\ Len(<<a, b, c, d, e, g, h>>) = 7
  OBVIOUS
<1> HIDE DEF S
<1>3. /\ R \in Seq(S) /\ Len(R) = 7
      /\ R[1] = a /\ R[2] = b /\ R[3] = c /\ R[4] = d /\ R[5] = e /\ R[6] = g /\ R[7] = h
  BY <1>1, ConcatProperties
<1> HIDE DEF R
<1>4. R = <<a, b, c, d, e, g, h>>
  BY <1>2, <1>3, SeqEqual
<1> QED
  BY <1>4 DEF R

LEMMA Lists ==
    /\ \A f \in Features, v \in BOOLEAN :
          /\ Save(f, v) = <<Step("set", f, v), Step("commit", f, v), Step("mem", f, v)>>
          /\ CosaAdvSecStartFeatures(f) =
               <<Step("completed", "fp", TRUE), Step("set", f, TRUE), Step("commit", f, TRUE),
                 Step("mem", f, TRUE), Step("mem", "fp", TRUE)>>
          /\ <<Step("initialized", f, v)>> \o Save(f, v) =
               <<Step("initialized", f, v), Step("set", f, v), Step("commit", f, v), Step("mem", f, v)>>
    /\ <<Step("init", "dcl", TRUE)>> \o Save("dcl", TRUE) =
         <<Step("init", "dcl", TRUE), Step("set", "dcl", TRUE), Step("commit", "dcl", TRUE), Step("mem", "dcl", TRUE)>>
    /\ CosaAdvWifiDataCollectionInit =
         <<Step("precheckLevl", "dcl", TRUE), Step("init", "dcl", TRUE), Step("set", "dcl", TRUE),
           Step("commit", "dcl", TRUE), Step("mem", "dcl", TRUE)>>
    /\ CosaAdvWifiDataCollectionDeInit =
         <<Step("deinit", "dcl", FALSE), Step("set", "dcl", FALSE), Step("commit", "dcl", FALSE),
           Step("mem", "dcl", FALSE)>>
    /\ CosaAdvSecInit =
         <<Step("dclAtInit", "dcl", TRUE), Step("mem", "fp", TRUE), Step("set", "fp", TRUE), Step("commit", "fp", TRUE)>>
    /\ CosaAdvSecDeInit =
         <<Step("dclAtDeInit", "dcl", FALSE), Step("mem", "fp", FALSE), Step("set", "fp", FALSE),
           Step("commit", "fp", FALSE)>>
    /\ CosaLevlInit =
         <<Step("precheck", "levl", TRUE), Step("wifiSet", "levl", TRUE), Step("wifiWait", "levl", TRUE),
           Step("dclIfOff", "dcl", TRUE), Step("set", "levl", TRUE), Step("commit", "levl", TRUE),
           Step("mem", "levl", TRUE)>>
    /\ CosaLevlDeInit =
         <<Step("dclIfOn", "dcl", FALSE), Step("wifiSet", "levl", FALSE), Step("set", "levl", FALSE),
           Step("commit", "levl", FALSE), Step("mem", "levl", FALSE)>>
<1>1. {"fp", "levl", "dcl"} \subseteq Features
  BY DEF Features, BlobFeatures
<1>3. \A f \in Features, v \in BOOLEAN : Save(f, v) = <<Step("set", f, v), Step("commit", f, v), Step("mem", f, v)>>
  BY Join21 DEF Save, CosaSetSysCfgUlong
<1>4. \A f \in Features, v \in BOOLEAN :
        <<Step("initialized", f, v)>> \o Save(f, v) =
          <<Step("initialized", f, v), Step("set", f, v), Step("commit", f, v), Step("mem", f, v)>>
  <2> TAKE f \in Features, v \in BOOLEAN
  <2>1. Save(f, v) = <<Step("set", f, v), Step("commit", f, v), Step("mem", f, v)>>
    BY <1>3
  <2> QED
    BY <2>1, Join13
<1>5. \A f \in Features :
        <<Step("completed", "fp", TRUE)>> \o Save(f, TRUE) =
          <<Step("completed", "fp", TRUE), Step("set", f, TRUE), Step("commit", f, TRUE), Step("mem", f, TRUE)>>
  BY <1>1, <1>3, Join13
<1>6. \A f \in Features :
        CosaAdvSecStartFeatures(f) =
          <<Step("completed", "fp", TRUE), Step("set", f, TRUE), Step("commit", f, TRUE),
            Step("mem", f, TRUE), Step("mem", "fp", TRUE)>>
  BY <1>5, Join41 DEF CosaAdvSecStartFeatures
<1>7. <<Step("init", "dcl", TRUE)>> \o Save("dcl", TRUE) =
         <<Step("init", "dcl", TRUE), Step("set", "dcl", TRUE), Step("commit", "dcl", TRUE), Step("mem", "dcl", TRUE)>>
  BY <1>1, <1>3, Join13
<1>8. CosaAdvWifiDataCollectionInit =
         <<Step("precheckLevl", "dcl", TRUE), Step("init", "dcl", TRUE), Step("set", "dcl", TRUE),
           Step("commit", "dcl", TRUE), Step("mem", "dcl", TRUE)>>
  <2>1. Save("dcl", TRUE) = <<Step("set", "dcl", TRUE), Step("commit", "dcl", TRUE), Step("mem", "dcl", TRUE)>>
    BY <1>1, <1>3
  <2> DEFINE a == Step("precheckLevl", "dcl", TRUE)
             b == Step("init", "dcl", TRUE)
             e == Step("set", "dcl", TRUE)
             g == Step("commit", "dcl", TRUE)
             h == Step("mem", "dcl", TRUE)
  <2> HIDE DEF a, b, e, g, h
  <2>2. <<a, b>> \o <<e, g, h>> = <<a, b, e, g, h>>
    BY Join23
  <2> QED
    BY <2>1, <2>2 DEF CosaAdvWifiDataCollectionInit, a, b, e, g, h
<1>9. CosaAdvWifiDataCollectionDeInit =
         <<Step("deinit", "dcl", FALSE), Step("set", "dcl", FALSE), Step("commit", "dcl", FALSE),
           Step("mem", "dcl", FALSE)>>
  BY <1>1, <1>3, Join13 DEF CosaAdvWifiDataCollectionDeInit
<1>10. CosaAdvSecInit =
         <<Step("dclAtInit", "dcl", TRUE), Step("mem", "fp", TRUE), Step("set", "fp", TRUE), Step("commit", "fp", TRUE)>>
  BY Join22 DEF CosaAdvSecInit, CosaSetSysCfgUlong
<1>11. CosaAdvSecDeInit =
         <<Step("dclAtDeInit", "dcl", FALSE), Step("mem", "fp", FALSE), Step("set", "fp", FALSE),
           Step("commit", "fp", FALSE)>>
  BY Join22 DEF CosaAdvSecDeInit, CosaSetSysCfgUlong
<1>12. CosaLevlInit =
         <<Step("precheck", "levl", TRUE), Step("wifiSet", "levl", TRUE), Step("wifiWait", "levl", TRUE),
           Step("dclIfOff", "dcl", TRUE), Step("set", "levl", TRUE), Step("commit", "levl", TRUE),
           Step("mem", "levl", TRUE)>>
  <2>1. Save("levl", TRUE) = <<Step("set", "levl", TRUE), Step("commit", "levl", TRUE), Step("mem", "levl", TRUE)>>
    BY <1>1, <1>3
  <2> DEFINE a == Step("precheck", "levl", TRUE)
             b == Step("wifiSet", "levl", TRUE)
             c == Step("wifiWait", "levl", TRUE)
             d == Step("dclIfOff", "dcl", TRUE)
             e == Step("set", "levl", TRUE)
             g == Step("commit", "levl", TRUE)
             h == Step("mem", "levl", TRUE)
  <2> HIDE DEF a, b, c, d, e, g, h
  <2>2. <<a, b, c, d>> \o <<e, g, h>> = <<a, b, c, d, e, g, h>>
    BY Join43
  <2> QED
    BY <2>1, <2>2 DEF CosaLevlInit, a, b, c, d, e, g, h
<1>13. CosaLevlDeInit =
         <<Step("dclIfOn", "dcl", FALSE), Step("wifiSet", "levl", FALSE), Step("set", "levl", FALSE),
           Step("commit", "levl", FALSE), Step("mem", "levl", FALSE)>>
  <2>1. Save("levl", FALSE) = <<Step("set", "levl", FALSE), Step("commit", "levl", FALSE), Step("mem", "levl", FALSE)>>
    BY <1>1, <1>3
  <2> DEFINE a == Step("dclIfOn", "dcl", FALSE)
             b == Step("wifiSet", "levl", FALSE)
             e == Step("set", "levl", FALSE)
             g == Step("commit", "levl", FALSE)
             h == Step("mem", "levl", FALSE)
  <2> HIDE DEF a, b, e, g, h
  <2>2. <<a, b>> \o <<e, g, h>> = <<a, b, e, g, h>>
    BY Join23
  <2> QED
    BY <2>1, <2>2 DEF CosaLevlDeInit, a, b, e, g, h
<1> QED
  BY <1>3, <1>4, <1>6, <1>7, <1>8, <1>9, <1>10, <1>11, <1>12, <1>13

LEMMA StepFacts ==
    ASSUME NEW op, NEW f, NEW v
    PROVE  /\ Step(op, f, v).op = op /\ Step(op, f, v).f = f /\ Step(op, f, v).v = v
           /\ (op \in Ops /\ f \in Features /\ v \in BOOLEAN /\ op \notin {"update", "agent"}) =>
                Step(op, f, v) \in Steps
  BY DEF Step, Steps

LEMMA FieldsOfSteps == \A x \in Steps : x.op \in Ops /\ x.f \in Features /\ x.v \in BOOLEAN
  BY DEF Steps

Chain(s) == s \in Seq(Steps) /\ \A i \in 1 .. Len(s) : i < Len(s) => Leads(s[i], s[i + 1])

LEMMA Chain1 ==
    ASSUME NEW a \in Steps
    PROVE  Chain(<<a>>) /\ Len(<<a>>) = 1 /\ <<a>>[1] = a /\ <<a>> \in Seq(Steps)
  BY DEF Chain

LEMMA Chain3 ==
    ASSUME NEW a \in Steps, NEW b \in Steps, NEW c \in Steps, Leads(a, b), Leads(b, c)
    PROVE  /\ Chain(<<a, b, c>>) /\ Len(<<a, b, c>>) = 3 /\ <<a, b, c>> \in Seq(Steps)
           /\ <<a, b, c>>[1] = a /\ <<a, b, c>>[2] = b /\ <<a, b, c>>[3] = c
<1> DEFINE s == <<a, b, c>>
<1>1. s \in Seq(Steps) /\ Len(s) = 3 /\ s[1] = a /\ s[2] = b /\ s[3] = c
  OBVIOUS
<1> HIDE DEF s
<1>2. \A i \in 1 .. 3 : i < 3 => Leads(s[i], s[i + 1])
  <2> TAKE i \in 1 .. 3
  <2>1. i = 1 \/ i = 2 \/ i = 3
    OBVIOUS
  <2>2. 1 + 1 = 2 /\ 2 + 1 = 3
    OBVIOUS
  <2> QED
    BY <1>1, <2>1, <2>2
<1>3. Chain(s)
  BY <1>1, <1>2 DEF Chain
<1> QED
  BY <1>1, <1>3 DEF s

LEMMA Chain4 ==
    ASSUME NEW a \in Steps, NEW b \in Steps, NEW c \in Steps, NEW d \in Steps,
           Leads(a, b), Leads(b, c), Leads(c, d)
    PROVE  /\ Chain(<<a, b, c, d>>) /\ Len(<<a, b, c, d>>) = 4 /\ <<a, b, c, d>> \in Seq(Steps)
           /\ <<a, b, c, d>>[1] = a /\ <<a, b, c, d>>[2] = b /\ <<a, b, c, d>>[3] = c /\ <<a, b, c, d>>[4] = d
<1> DEFINE s == <<a, b, c, d>>
<1>1. s \in Seq(Steps) /\ Len(s) = 4 /\ s[1] = a /\ s[2] = b /\ s[3] = c /\ s[4] = d
  OBVIOUS
<1> HIDE DEF s
<1>2. \A i \in 1 .. 4 : i < 4 => Leads(s[i], s[i + 1])
  <2> TAKE i \in 1 .. 4
  <2>1. i = 1 \/ i = 2 \/ i = 3 \/ i = 4
    OBVIOUS
  <2>2. 1 + 1 = 2 /\ 2 + 1 = 3 /\ 3 + 1 = 4
    OBVIOUS
  <2> QED
    BY <1>1, <2>1, <2>2
<1>3. Chain(s)
  BY <1>1, <1>2 DEF Chain
<1> QED
  BY <1>1, <1>3 DEF s

(* A list with a step replaced by what it branches to.                      *)
(* Positions, without the lists.                                            *)
LEMMA Positions ==
    ASSUME NEW n \in Nat, NEW k \in Nat, NEW r, n > 0, r = k + n - 1
    PROVE  /\ n = 1 \/ n > 1
           /\ n > 1 => k < r /\ (k + 1 = r <=> 2 = n)
           /\ r = 0 => k = 0 /\ n = 1 /\ ~(1 < n)
  OBVIOUS

LEMMA Splice ==
    ASSUME NEW s \in Seq(Steps), s # <<>>, NEW F \in Seq(Steps), NEW R, R = F \o Tail(s)
    PROVE  /\ R \in Seq(Steps) /\ Len(F) \in Nat /\ Len(s) \in Nat /\ Len(s) > 0
           /\ Len(R) = Len(F) + Len(s) - 1 /\ Head(s) = s[1]
           /\ \A i \in 1 .. Len(F) : i \in 1 .. Len(R) /\ R[i] = F[i]
           /\ \A j \in 2 .. Len(s) : j - 1 + Len(F) \in 1 .. Len(R) /\ R[j - 1 + Len(F)] = s[j]
           /\ \A i \in Len(F) + 1 .. Len(R) : i + 1 - Len(F) \in 2 .. Len(s) /\ R[i] = s[i + 1 - Len(F)]
<1>1. /\ Tail(s) \in Seq(Steps) /\ Len(Tail(s)) = Len(s) - 1 /\ Len(s) \in Nat /\ Len(s) > 0 /\ Len(F) \in Nat
      /\ Head(s) = s[1]
      /\ \A i \in 1 .. Len(Tail(s)) : Tail(s)[i] = s[i + 1]
  BY HeadTailProperties, EmptySeq, LenProperties
<1>2. /\ R \in Seq(Steps) /\ Len(R) = Len(F) + Len(Tail(s))
      /\ \A i \in 1 .. Len(F) + Len(Tail(s)) : R[i] = IF i <= Len(F) THEN F[i] ELSE Tail(s)[i - Len(F)]
  BY <1>1, ConcatProperties
<1>3. \A i \in Len(F) + 1 .. Len(R) : i + 1 - Len(F) \in 2 .. Len(s) /\ R[i] = s[i + 1 - Len(F)]
  <2> TAKE i \in Len(F) + 1 .. Len(R)
  <2>1. i - Len(F) \in 1 .. Len(Tail(s)) /\ R[i] = Tail(s)[i - Len(F)] /\ i + 1 - Len(F) \in 2 .. Len(s)
    BY <1>1, <1>2
  <2>2. (i - Len(F)) + 1 = i + 1 - Len(F)
    BY <1>1, <1>2
  <2> QED
    BY <1>1, <2>1, <2>2
<1>4. \A j \in 2 .. Len(s) : j - 1 + Len(F) \in 1 .. Len(R) /\ R[j - 1 + Len(F)] = s[j]
  <2> TAKE j \in 2 .. Len(s)
  <2>1. j - 1 + Len(F) \in Len(F) + 1 .. Len(R) /\ j - 1 + Len(F) \in 1 .. Len(R)
    BY <1>1, <1>2
  <2>2. (j - 1 + Len(F)) + 1 - Len(F) = j
    BY <1>1
  <2> QED
    BY <1>3, <2>1, <2>2
<1> QED
  BY <1>1, <1>2, <1>3, <1>4

(* The last of F leads where the step it replaces led.                      *)
Fits(h, e) ==
    \/ ~Bound(h) /\ ~Bound(e)
    \/ Bound(h) /\ h.op # "mem" /\ \A y \in Steps : Leads(h, y) => Leads(e, y)

LEMMA SpliceWellFormed ==
    ASSUME NEW s, WellFormed(s), s # <<>>, NEW F, Chain(F), NEW R, R = F \o Tail(s),
           F # <<>> => Fits(Head(s), F[Len(F)])
    PROVE  WellFormed(R)
<1>1. s \in Seq(Steps) /\ F \in Seq(Steps) /\ (F # <<>> => Len(F) > 0)
  BY EmptySeq DEF WellFormed, Chain
<1>2. /\ R \in Seq(Steps) /\ Len(F) \in Nat /\ Len(s) \in Nat /\ Len(s) > 0
      /\ Len(R) = Len(F) + Len(s) - 1 /\ Head(s) = s[1]
      /\ \A i \in 1 .. Len(F) : R[i] = F[i]
      /\ \A i \in Len(F) + 1 .. Len(R) : i + 1 - Len(F) \in 2 .. Len(s) /\ R[i] = s[i + 1 - Len(F)]
  BY <1>1, Splice
<1>0. Len(F) \in Nat /\ Len(s) \in Nat /\ Len(s) > 0 /\ Len(R) = Len(F) + Len(s) - 1
  BY <1>2
<1>3. ASSUME NEW i \in 1 .. Len(R)
      PROVE  IF i < Len(R) THEN Leads(R[i], R[i + 1]) \/ (~Bound(R[i]) /\ Lone(R, i + 1))
                           ELSE ~Bound(R[i]) \/ Lone(R, i)
  <2>1. CASE i > Len(F)
    <3> DEFINE j == i + 1 - Len(F)
    <3>1. j \in 1 .. Len(s) /\ R[i] = s[j] /\ (i < Len(R) <=> j < Len(s)) /\ (i = Len(R) <=> j = Len(s))
      BY <1>2, <2>1
    <3>2. i < Len(R) => R[i + 1] = s[j + 1]
      <4> SUFFICES ASSUME i < Len(R) PROVE R[i + 1] = s[j + 1]
        OBVIOUS
      <4>1. i + 1 \in Len(F) + 1 .. Len(R) /\ (i + 1) + 1 - Len(F) = j + 1
        BY <1>2, <2>1
      <4> QED
        BY <1>2, <4>1
    <3>3. i < Len(R) => (Lone(R, i + 1) <=> Lone(s, j + 1))
      <4>1. i + 1 = Len(R) <=> j + 1 = Len(s)
        BY <1>2, <2>1
      <4> HIDE DEF j
      <4> QED
        BY <3>2, <4>1 DEF Lone
    <3>4. Lone(R, i) <=> Lone(s, j)
      BY <1>2, <3>1 DEF Lone
    <3>5. IF j < Len(s) THEN Leads(s[j], s[j + 1]) \/ (~Bound(s[j]) /\ Lone(s, j + 1))
                        ELSE ~Bound(s[j]) \/ Lone(s, j)
      BY <3>1 DEF WellFormed
    <3> HIDE DEF j
    <3> QED
      BY <3>1, <3>2, <3>3, <3>4, <3>5
  <2>2. CASE i < Len(F)
    <3>1. i \in 1 .. Len(F) /\ i + 1 \in 1 .. Len(F) /\ i < Len(R)
      BY <1>2, <2>2
    <3>2. Leads(F[i], F[i + 1])
      BY <2>2, <3>1 DEF Chain
    <3> QED
      BY <1>2, <3>1, <3>2
  <2>3. CASE i = Len(F)
    <3>1. F # <<>> /\ R[i] = F[Len(F)] /\ Fits(s[1], R[i])
      BY <1>1, <1>2, <2>3, EmptySeq
    <3>2. CASE Len(s) = 1
      <4>1. i = Len(R) /\ ~(i < Len(R)) /\ (Bound(s[1]) => Lone(s, 1))
        BY <1>2, <2>3, <3>2 DEF WellFormed
      <4>2. ~Bound(R[i])
        BY <3>1, <4>1 DEF Fits, Lone, Is
      <4> QED
        BY <4>1, <4>2
    <3>3. CASE Len(s) > 1
      <4>1. /\ i < Len(R) /\ R[i + 1] = s[2] /\ s[2] \in Steps
            /\ i + 1 = Len(R) <=> 2 = Len(s)
        <5>1. i + 1 \in Len(F) + 1 .. Len(R) /\ (i + 1) + 1 - Len(F) = 2 /\ 2 \in 1 .. Len(s)
          BY <1>2, <2>3, <3>3
        <5>2. R[i + 1] = s[2]
          BY <1>2, <5>1
        <5>3. i < Len(R) /\ (i + 1 = Len(R) <=> 2 = Len(s))
          BY <1>0, <2>3, <3>3, Positions
        <5>4. s[2] \in Steps
          BY <1>1, <5>1, ElementOfSeq
        <5> QED
          BY <5>2, <5>3, <5>4
      <4>2. Leads(s[1], s[2]) \/ (~Bound(s[1]) /\ Lone(s, 2))
        <5>1. 1 \in 1 .. Len(s) /\ 1 < Len(s) /\ 1 + 1 = 2
          BY <1>2, <3>3
        <5> QED
          BY <5>1 DEF WellFormed
      <4>3. Lone(s, 2) => Lone(R, i + 1)
        BY <4>1 DEF Lone
      <4>4. CASE Leads(s[1], s[2])
        <5>1. Leads(R[i], s[2])
          <6>1. CASE ~Bound(s[1]) /\ ~Bound(R[i])
            BY <4>4, <6>1 DEF Leads, Bound
          <6> QED
            BY <3>1, <4>1, <4>4, <6>1 DEF Fits
        <5> QED
          BY <4>1, <5>1
      <4>5. CASE ~Bound(s[1]) /\ Lone(s, 2)
        BY <3>1, <4>1, <4>3, <4>5 DEF Fits
      <4> QED
        BY <4>2, <4>4, <4>5
    <3>4. Len(s) = 1 \/ Len(s) > 1
      BY <1>0, Positions
    <3> QED
      BY <3>2, <3>3, <3>4
  <2>4. i > Len(F) \/ i < Len(F) \/ i = Len(F)
    BY <1>2
  <2> QED
    BY <2>1, <2>2, <2>3, <2>4
<1> QED
  BY <1>2, <1>3 DEF WellFormed

-----------------------------------------------------------------------------
(* What a step may put in front of the rest.                                *)

Continues(h, F) ==
    \/ /\ F = <<>>
       /\ h.op \in {"update", "agent"} => mem[h.f] = h.v
       /\ h.op = "agentBoot" => ~mem["fp"]
    \/ h.op = "update" /\ F = Save(h.f, h.v)
    \/ h.op = "agent" /\ F = IF h.v THEN CosaAdvSecInit ELSE CosaAdvSecDeInit
    \/ h.op = "agentBoot" /\ mem["fp"] /\ F = CosaAdvSecInit
    \/ h.op = "dclIfOff" /\ F = <<Step("init", "dcl", TRUE)>> \o Save("dcl", TRUE)
    \/ h.op = "dclIfOn" /\ F = CosaAdvWifiDataCollectionDeInit
    \/ h.op = "dclAtInit" /\ F = <<Step("initOrClear", "dcl", TRUE)>>
    \/ h.op = "dclAtDeInit" /\ F = <<Step("deinit", "dcl", FALSE)>>
    \/ h.op = "dclBoot" /\ \E v \in BOOLEAN : F = <<Step("dclValue", "dcl", v)>>

(* The steps of such a list write what the step before them was to write.   *)
Writing(h, x) ==
    /\ x.op \in BootOps => h.op = "dclBoot"
    /\ x.op \in Writes /\ x.f # "dcl" =>
         \/ h.op \in {"update", "agent"} /\ x.f = h.f /\ x.v = h.v
         \/ h.op = "agentBoot" /\ mem["fp"] /\ x.f = "fp" /\ x.v = TRUE
    /\ x.f # "dcl" => h.op \in {"update", "agent", "agentBoot"}
    /\ x.op \notin {"update", "agent"}

Opens(h, x) ==
    \/ Entry(x) /\ ~Bound(h) /\ (h.op = "agentBoot" => x.op = "dclAtInit")
    \/ x.op = "initOrClear" /\ h.op = "dclAtInit"
    \/ x.op = "deinit" /\ h.op = "dclAtDeInit"
    \/ x.op = "dclValue" /\ h.op = "dclBoot"

Front(h, F) ==
    /\ Chain(F) /\ F # <<>> /\ Len(F) > 0
    /\ Fits(h, F[Len(F)]) /\ ~(F[Len(F)].op = "mem" /\ F[Len(F)].f = "fp")
    /\ Opens(h, F[1])
    /\ \A k \in 1 .. Len(F) : Writing(h, F[k])
    /\ h.op \in {"update", "agent"} => \E k \in 1 .. Len(F) : F[k].f = h.f /\ F[k].op \in Writes

LEMMA KnownFeatures == {"fp", "sb", "sf", "pc", "pp", "levl", "dcl"} \subseteq Features
  BY DEF Features, BlobFeatures

(* Save, and what an agent's switch is written with.                        *)
LEMMA SaveChain ==
    ASSUME NEW f \in Features, NEW v \in BOOLEAN, f # "fp"
    PROVE  /\ Chain(Save(f, v)) /\ Len(Save(f, v)) = 3
           /\ Save(f, v)[1] = Step("set", f, v) /\ Save(f, v)[2] = Step("commit", f, v)
           /\ Save(f, v)[3] = Step("mem", f, v)
<1> DEFINE a == Step("set", f, v)
           b == Step("commit", f, v)
           c == Step("mem", f, v)
<1>1. /\ a.op = "set" /\ a.f = f /\ a.v = v /\ b.op = "commit" /\ b.f = f /\ b.v = v
      /\ c.op = "mem" /\ c.f = f /\ c.v = v
      /\ a \in Steps /\ b \in Steps /\ c \in Steps
  BY StepFacts DEF Ops
<1>2. Save(f, v) = <<a, b, c>>
  BY Lists
<1> HIDE DEF a, b, c
<1>3. Leads(a, b) /\ Leads(b, c)
  BY <1>1 DEF Leads, Bound, Is
<1>4. /\ Chain(Save(f, v)) /\ Len(Save(f, v)) = 3
      /\ Save(f, v)[1] = a /\ Save(f, v)[2] = b /\ Save(f, v)[3] = c
  BY <1>1, <1>2, <1>3, Chain3
<1> QED
  BY <1>4 DEF a, b, c

Agent(v) == IF v THEN CosaAdvSecInit ELSE CosaAdvSecDeInit
AgentStep(v) == IF v THEN Step("dclAtInit", "dcl", TRUE) ELSE Step("dclAtDeInit", "dcl", FALSE)

LEMMA AgentChain ==
    ASSUME NEW v \in BOOLEAN
    PROVE  /\ Chain(Agent(v)) /\ Len(Agent(v)) = 4
           /\ Agent(v)[1] = AgentStep(v) /\ Agent(v)[2] = Step("mem", "fp", v)
           /\ Agent(v)[3] = Step("set", "fp", v) /\ Agent(v)[4] = Step("commit", "fp", v)
<1> DEFINE a == AgentStep(v)
           b == Step("mem", "fp", v)
           c == Step("set", "fp", v)
           d == Step("commit", "fp", v)
<1>1. /\ b.op = "mem" /\ b.f = "fp" /\ b.v = v /\ c.op = "set" /\ c.f = "fp" /\ c.v = v
      /\ d.op = "commit" /\ d.f = "fp" /\ d.v = v
      /\ b \in Steps /\ c \in Steps /\ d \in Steps
  BY StepFacts, KnownFeatures DEF Ops
<1>2. a.op = (IF v THEN "dclAtInit" ELSE "dclAtDeInit") /\ a \in Steps
  BY KnownFeatures DEF Step, Steps, Ops, EntryOps, AgentStep
<1>3. Agent(v) = <<a, b, c, d>>
  BY Lists DEF Agent, AgentStep
<1> HIDE DEF a, b, c, d
<1>4. Leads(a, b)
  BY <1>1, <1>2 DEF Leads, Bound, Is
<1>5. Leads(b, c) /\ Leads(c, d)
  BY <1>1 DEF Leads, Bound, Is
<1>6. /\ Chain(Agent(v)) /\ Len(Agent(v)) = 4
      /\ Agent(v)[1] = a /\ Agent(v)[2] = b /\ Agent(v)[3] = c /\ Agent(v)[4] = d
  BY <1>1, <1>2, <1>3, <1>4, <1>5, Chain4
<1> QED
  BY <1>6 DEF a, b, c, d

(* Starting (v) or stopping data collection.                                *)
Collection(v) ==
    IF v THEN <<Step("init", "dcl", TRUE)>> \o Save("dcl", TRUE) ELSE CosaAdvWifiDataCollectionDeInit
CollectionStep(v) == IF v THEN Step("init", "dcl", TRUE) ELSE Step("deinit", "dcl", FALSE)

LEMMA CollectionChain ==
    ASSUME NEW v \in BOOLEAN
    PROVE  /\ Chain(Collection(v)) /\ Len(Collection(v)) = 4
           /\ Collection(v)[1] = CollectionStep(v) /\ Collection(v)[2] = Step("set", "dcl", v)
           /\ Collection(v)[3] = Step("commit", "dcl", v) /\ Collection(v)[4] = Step("mem", "dcl", v)
<1> DEFINE a == CollectionStep(v)
           b == Step("set", "dcl", v)
           c == Step("commit", "dcl", v)
           d == Step("mem", "dcl", v)
<1>1. /\ b.op = "set" /\ b.f = "dcl" /\ b.v = v /\ c.op = "commit" /\ c.f = "dcl" /\ c.v = v
      /\ d.op = "mem" /\ d.f = "dcl" /\ d.v = v
      /\ b \in Steps /\ c \in Steps /\ d \in Steps
  BY StepFacts, KnownFeatures DEF Ops
<1>2. a.op = (IF v THEN "init" ELSE "deinit") /\ a \in Steps
  BY KnownFeatures DEF Step, Steps, Ops, EntryOps, CollectionStep
<1>3. Collection(v) = <<a, b, c, d>>
  BY Lists DEF Collection, CollectionStep
<1> HIDE DEF a, b, c, d
<1>4. Leads(a, b)
  BY <1>1, <1>2 DEF Leads, Bound, Is
<1>5. Leads(b, c) /\ Leads(c, d)
  BY <1>1 DEF Leads, Bound, Is
<1>6. /\ Chain(Collection(v)) /\ Len(Collection(v)) = 4
      /\ Collection(v)[1] = a /\ Collection(v)[2] = b /\ Collection(v)[3] = c /\ Collection(v)[4] = d
  BY <1>1, <1>2, <1>3, <1>4, <1>5, Chain4
<1> QED
  BY <1>6 DEF a, b, c, d

LEMMA FrontFacts ==
    ASSUME NEW h \in Steps, NEW F, Continues(h, F), F # <<>>
    PROVE  Front(h, F)
<1>0. h.f \in Features /\ h.v \in BOOLEAN /\ (h.op = "update" => h.f \notin {"fp", "dcl"}) /\ (h.op = "agent" => h.f = "fp")
  BY DEF Steps
<1>1. ASSUME Len(F) = 1, NEW e \in Steps, F = <<e>>, Fits(h, e), ~(e.op = "mem" /\ e.f = "fp"), Opens(h, e),
             Writing(h, e), h.op \notin {"update", "agent"}
      PROVE  Front(h, F)
  <2>1. Chain(F) /\ F[1] = e
    BY <1>1, Chain1
  <2> QED
    BY <1>1, <2>1 DEF Front
<1>2. CASE h.op = "update" /\ F = Save(h.f, h.v)
  <2>1. /\ Chain(F) /\ Len(F) = 3 /\ F[1] = Step("set", h.f, h.v) /\ F[2] = Step("commit", h.f, h.v)
        /\ F[3] = Step("mem", h.f, h.v)
    BY <1>0, <1>2, SaveChain
  <2>2. /\ F[1].op = "set" /\ F[2].op = "commit" /\ F[3].op = "mem"
        /\ \A k \in 1 .. 3 : F[k].f = h.f /\ F[k].v = h.v /\ F[k].op \in {"set", "commit", "mem"}
    BY <2>1, StepFacts
  <2>3. Fits(h, F[3])
    BY <1>0, <1>2, <2>2 DEF Fits, Bound
  <2>4. Opens(h, F[1])
    BY <1>0, <1>2, <2>2 DEF Opens, Entry, Bound
  <2>5. \A k \in 1 .. 3 : Writing(h, F[k])
    BY <1>0, <1>2, <2>2 DEF Writing, BootOps
  <2>6. F[1].f = h.f /\ F[1].op \in Writes
    BY <2>2 DEF Writes
  <2> QED
    BY <1>0, <1>2, <2>1, <2>2, <2>3, <2>4, <2>5, <2>6 DEF Front
<1>3. ASSUME NEW v \in BOOLEAN, F = Agent(v),
             \/ h.op = "agent" /\ h.v = v
             \/ h.op = "agentBoot" /\ mem["fp"] /\ v = TRUE
      PROVE  Front(h, F)
  <2>1. /\ Chain(F) /\ Len(F) = 4 /\ F[1] = AgentStep(v) /\ F[2] = Step("mem", "fp", v)
        /\ F[3] = Step("set", "fp", v) /\ F[4] = Step("commit", "fp", v)
    BY <1>3, AgentChain
  <2>2. /\ F[1].op \in {"dclAtInit", "dclAtDeInit"} /\ F[1].f = "dcl" /\ (v = TRUE => F[1].op = "dclAtInit")
        /\ F[2].op = "mem" /\ F[3].op = "set" /\ F[4].op = "commit"
        /\ \A k \in 2 .. 4 : F[k].f = "fp" /\ F[k].v = v /\ F[k].op \in {"set", "commit", "mem"}
    BY <2>1 DEF Step, AgentStep
  <2>3. Fits(h, F[4])
    BY <1>3, <2>2 DEF Fits, Bound
  <2>4. Opens(h, F[1])
    BY <1>3, <2>2 DEF Opens, Entry, EntryOps, Bound
  <2>5. Writing(h, F[1])
    BY <2>2 DEF Writing, BootOps, Writes
  <2>6. \A k \in 2 .. 4 : Writing(h, F[k])
    BY <1>0, <1>3, <2>2 DEF Writing, BootOps
  <2>7. \A k \in 1 .. 4 : Writing(h, F[k])
    BY <2>5, <2>6
  <2>8. F[2].f = "fp" /\ F[2].op \in Writes
    BY <2>2 DEF Writes
  <2> QED
    BY <1>0, <1>3, <2>1, <2>2, <2>3, <2>4, <2>7, <2>8 DEF Front
<1>4. ASSUME NEW v \in BOOLEAN, F = Collection(v), h.op \in {"dclIfOff", "dclIfOn"}
      PROVE  Front(h, F)
  <2>1. /\ Chain(F) /\ Len(F) = 4 /\ F[1] = CollectionStep(v) /\ F[2] = Step("set", "dcl", v)
        /\ F[3] = Step("commit", "dcl", v) /\ F[4] = Step("mem", "dcl", v)
    BY <1>4, CollectionChain
  <2>2. /\ F[1].op \in {"init", "deinit"} /\ F[4].op = "mem"
        /\ \A k \in 1 .. 4 : F[k].f = "dcl" /\ F[k].op \in {"init", "deinit", "set", "commit", "mem"}
    BY <2>1 DEF Step, CollectionStep
  <2>3. Fits(h, F[4])
    BY <1>4, <2>2 DEF Fits, Bound
  <2>4. Opens(h, F[1])
    BY <1>4, <2>2 DEF Opens, Entry, EntryOps, Bound
  <2>5. \A k \in 1 .. 4 : Writing(h, F[k])
    BY <1>4, <2>2 DEF Writing, BootOps
  <2> QED
    BY <1>4, <2>1, <2>2, <2>3, <2>4, <2>5 DEF Front
<1>5. CASE h.op = "dclAtInit" /\ F = <<Step("initOrClear", "dcl", TRUE)>>
  <2> DEFINE e == Step("initOrClear", "dcl", TRUE)
  <2>1. e \in Steps /\ e.op = "initOrClear" /\ e.f = "dcl"
    BY KnownFeatures DEF Step, Steps, Ops
  <2>2. F = <<e>> /\ Len(F) = 1
    BY <1>5
  <2> HIDE DEF e
  <2>3. Fits(h, e) /\ Opens(h, e) /\ Writing(h, e)
    BY <1>5, <2>1 DEF Fits, Opens, Writing, Bound, Leads, BootOps
  <2> QED
    BY <1>1, <1>5, <2>1, <2>2, <2>3
<1>6. CASE h.op = "dclAtDeInit" /\ F = <<Step("deinit", "dcl", FALSE)>>
  <2> DEFINE e == Step("deinit", "dcl", FALSE)
  <2>1. e \in Steps /\ e.op = "deinit" /\ e.f = "dcl"
    BY KnownFeatures DEF Step, Steps, Ops, EntryOps
  <2>2. F = <<e>> /\ Len(F) = 1
    BY <1>6
  <2> HIDE DEF e
  <2>3. Fits(h, e) /\ Opens(h, e) /\ Writing(h, e)
    BY <1>6, <2>1 DEF Fits, Opens, Writing, Bound, Leads, BootOps
  <2> QED
    BY <1>1, <1>6, <2>1, <2>2, <2>3
<1>7. ASSUME NEW v \in BOOLEAN, h.op = "dclBoot", F = <<Step("dclValue", "dcl", v)>>
      PROVE  Front(h, F)
  <2> DEFINE e == Step("dclValue", "dcl", v)
  <2>1. e \in Steps /\ e.op = "dclValue" /\ e.f = "dcl"
    BY StepFacts, KnownFeatures DEF Ops, BootOps
  <2>2. F = <<e>> /\ Len(F) = 1
    BY <1>7
  <2> HIDE DEF e
  <2>3. Fits(h, e) /\ Opens(h, e) /\ Writing(h, e)
    BY <1>7, <2>1 DEF Fits, Opens, Writing, Bound, Leads, BootOps
  <2> QED
    BY <1>1, <1>7, <2>1, <2>2, <2>3
<1> QED
  BY <1>0, <1>2, <1>3, <1>4, <1>5, <1>6, <1>7 DEF Continues, Agent, Collection

-----------------------------------------------------------------------------
(* What a request starts.                                                   *)

LEMMA Chain5 ==
    ASSUME NEW a \in Steps, NEW b \in Steps, NEW c \in Steps, NEW d \in Steps, NEW e \in Steps,
           Leads(a, b), Leads(b, c), Leads(c, d), Leads(d, e),
           NEW s, s = <<a, b, c, d, e>>
    PROVE  /\ Chain(s) /\ Len(s) = 5
           /\ s[1] = a /\ s[2] = b /\ s[3] = c /\ s[4] = d /\ s[5] = e
<1>1. s \in Seq(Steps) /\ Len(s) = 5 /\ s[1] = a /\ s[2] = b /\ s[3] = c /\ s[4] = d /\ s[5] = e
  OBVIOUS
<1>2. \A i \in 1 .. 5 : i < 5 => Leads(s[i], s[i + 1])
  <2> TAKE i \in 1 .. 5
  <2>1. i = 1 \/ i = 2 \/ i = 3 \/ i = 4 \/ i = 5
    OBVIOUS
  <2>2. 1 + 1 = 2 /\ 2 + 1 = 3 /\ 3 + 1 = 4 /\ 4 + 1 = 5
    OBVIOUS
  <2> QED
    BY <1>1, <2>1, <2>2
<1> QED
  BY <1>1, <1>2 DEF Chain

Handler(s, asks) ==
    /\ WellFormed(s)
    /\ s # <<>> => Entry(s[1])
    /\ \A i \in 1 .. Len(s) :
          /\ s[i].op \notin BootOps
          /\ s[i].op \in Writes /\ s[i].f # "dcl" =>
               s[i].v = IF s[i].f \in DOMAIN asks THEN asks[s[i].f] ELSE mem[s[i].f]
          /\ Lone(s, i) => "fp" \notin DOMAIN asks
    /\ \A f \in DOMAIN asks \ {"dcl"} :
          mem[f] = asks[f] \/ \E i \in 1 .. Len(s) : s[i].f = f /\ s[i].op \in Writes

One(f, v) == [g \in {f} |-> v]

LEMMA OneFacts ==
    ASSUME NEW f, NEW v
    PROVE  DOMAIN One(f, v) = {f} /\ One(f, v)[f] = v
  BY DEF One

LEMMA EmptyHandler ==
    ASSUME NEW asks, \A f \in DOMAIN asks \ {"dcl"} : mem[f] = asks[f]
    PROVE  Handler(<<>>, asks)
  BY EmptySeq DEF Handler, WellFormed

(* A list that ends where nothing is left half done.                        *)
LEMMA ClosedChain ==
    ASSUME NEW s, Chain(s), s # <<>>, ~Bound(s[Len(s)])
    PROVE  WellFormed(s)
<1>1. s \in Seq(Steps) /\ Len(s) \in Nat
  BY LenProperties DEF Chain
<1>2. \A i \in 1 .. Len(s) : i < Len(s) \/ i = Len(s)
  BY <1>1
<1> QED
  BY <1>1, <1>2 DEF Chain, WellFormed

(* A list that writes f only, and v to it.                                  *)
WritesOnly(s, f, v) ==
    /\ \A i \in 1 .. Len(s) : /\ s[i].op \notin BootOps
                              /\ s[i].op \in Writes /\ s[i].f # "dcl" => s[i].f = f /\ s[i].v = v
    /\ \E i \in 1 .. Len(s) : s[i].f = f /\ s[i].op \in Writes

LEMMA OneSwitch ==
    ASSUME NEW s, Chain(s), s # <<>>, ~Bound(s[Len(s)]), Entry(s[1]), NEW f, NEW v, WritesOnly(s, f, v)
    PROVE  Handler(s, One(f, v))
<1>1. WellFormed(s)
  BY ClosedChain
<1>2. \A i \in 1 .. Len(s) : ~Lone(s, i)
  BY DEF Lone, Bound, Is
<1>3. DOMAIN One(f, v) = {f} /\ One(f, v)[f] = v
  BY OneFacts
<1>4. \A i \in 1 .. Len(s) :
        s[i].op \in Writes /\ s[i].f # "dcl" =>
          s[i].v = IF s[i].f \in DOMAIN One(f, v) THEN One(f, v)[s[i].f] ELSE mem[s[i].f]
  BY <1>3 DEF WritesOnly
<1>5. \A g \in DOMAIN One(f, v) \ {"dcl"} : \E i \in 1 .. Len(s) : s[i].f = g /\ s[i].op \in Writes
  BY <1>3 DEF WritesOnly
<1> QED
  BY <1>1, <1>2, <1>4, <1>5 DEF Handler, WritesOnly

LEMMA SaveHandler ==
    ASSUME NEW f \in Features \ {"fp", "dcl"}, NEW v \in BOOLEAN
    PROVE  /\ Handler(Save(f, v), One(f, v))
           /\ Handler(<<Step("initialized", f, v)>> \o Save(f, v), One(f, v))
<1> DEFINE a == Step("initialized", f, v)
           b == Step("set", f, v)
           c == Step("commit", f, v)
           d == Step("mem", f, v)
           s == <<b, c, d>>
           t == <<a, b, c, d>>
<1>1. /\ a.op = "initialized" /\ b.op = "set" /\ c.op = "commit" /\ d.op = "mem"
      /\ a.f = f /\ b.f = f /\ c.f = f /\ d.f = f /\ a.v = v /\ b.v = v /\ c.v = v /\ d.v = v
      /\ a \in Steps /\ b \in Steps /\ c \in Steps /\ d \in Steps
  BY StepFacts DEF Ops, EntryOps
<1>2. Save(f, v) = s /\ <<Step("initialized", f, v)>> \o Save(f, v) = t
  BY Lists
<1> HIDE DEF a, b, c, d
<1>3. Leads(a, b) /\ Leads(b, c) /\ Leads(c, d)
  BY <1>1 DEF Leads, Bound, Is, Entry
<1>4. /\ Chain(s) /\ Len(s) = 3 /\ s[1] = b /\ s[2] = c /\ s[3] = d
      /\ Chain(t) /\ Len(t) = 4 /\ t[1] = a /\ t[2] = b /\ t[3] = c /\ t[4] = d
  BY <1>1, <1>3, Chain3, Chain4
<1>5. ~Bound(d) /\ Entry(a) /\ Entry(b)
  BY <1>1 DEF Bound, Entry, EntryOps
<1> HIDE DEF s, t
<1>6. \A i \in 1 .. 3 : s[i].op \notin BootOps /\ s[i].f = f /\ s[i].v = v
  BY <1>1, <1>4 DEF BootOps
<1>7. \A i \in 1 .. 4 : t[i].op \notin BootOps /\ t[i].f = f /\ t[i].v = v
  BY <1>1, <1>4 DEF BootOps
<1>8. s[1].f = f /\ s[1].op \in Writes /\ t[2].f = f /\ t[2].op \in Writes
  BY <1>1, <1>4 DEF Writes
<1>9. Handler(s, One(f, v))
  <2>1. WritesOnly(s, f, v)
    BY <1>4, <1>6, <1>8 DEF WritesOnly
  <2>2. s # <<>> /\ ~Bound(s[Len(s)]) /\ Entry(s[1])
    BY <1>4, <1>5, EmptySeq
  <2> QED
    BY <1>4, <2>1, <2>2, OneSwitch
<1>10. Handler(t, One(f, v))
  <2>1. WritesOnly(t, f, v)
    BY <1>4, <1>7, <1>8 DEF WritesOnly
  <2>2. t # <<>> /\ ~Bound(t[Len(t)]) /\ Entry(t[1])
    BY <1>4, <1>5, EmptySeq
  <2> QED
    BY <1>4, <2>1, <2>2, OneSwitch
<1> QED
  BY <1>2, <1>9, <1>10

LEMMA AgentHandler ==
    ASSUME NEW v \in BOOLEAN
    PROVE  Handler(Agent(v), One("fp", v))
<1> DEFINE s == Agent(v)
<1>1. /\ Chain(s) /\ Len(s) = 4 /\ s[1] = AgentStep(v) /\ s[2] = Step("mem", "fp", v)
      /\ s[3] = Step("set", "fp", v) /\ s[4] = Step("commit", "fp", v)
  BY AgentChain
<1> HIDE DEF s
<1>2. /\ s[1].op \in {"dclAtInit", "dclAtDeInit"} /\ s[1].f = "dcl"
      /\ s[2].op = "mem" /\ s[3].op = "set" /\ s[4].op = "commit"
      /\ \A k \in 2 .. 4 : s[k].f = "fp" /\ s[k].v = v /\ s[k].op \in {"set", "commit", "mem"}
  BY <1>1 DEF Step, AgentStep
<1>3. ~Bound(s[4]) /\ Entry(s[1])
  BY <1>2 DEF Bound, Entry, EntryOps
<1>4. \A i \in 1 .. 4 : /\ s[i].op \notin BootOps
                        /\ s[i].op \in Writes /\ s[i].f # "dcl" => s[i].f = "fp" /\ s[i].v = v
  <2> TAKE i \in 1 .. 4
  <2>1. i = 1 \/ i \in 2 .. 4
    OBVIOUS
  <2> QED
    BY <1>2, <2>1 DEF BootOps, Writes
<1>5. s[2].f = "fp" /\ s[2].op \in Writes
  BY <1>2 DEF Writes
<1>6. Handler(s, One("fp", v))
  <2>1. WritesOnly(s, "fp", v)
    BY <1>1, <1>4, <1>5 DEF WritesOnly
  <2>2. s # <<>> /\ ~Bound(s[Len(s)]) /\ Entry(s[1])
    BY <1>1, <1>3, EmptySeq
  <2> QED
    BY <1>1, <2>1, <2>2, OneSwitch
<1> QED
  BY <1>6 DEF s

LEMMA CollectionHandler ==
    ASSUME NEW v \in BOOLEAN, NEW s, s = IF v THEN CosaAdvWifiDataCollectionInit ELSE CosaAdvWifiDataCollectionDeInit
    PROVE  /\ Handler(s, One("dcl", v)) /\ Handler(s, NoAsks)
           /\ \A i \in 1 .. Len(s) : s[i].f = "dcl"
<1> DEFINE z == Step("precheckLevl", "dcl", TRUE)
           a == CollectionStep(v)
           b == Step("set", "dcl", v)
           c == Step("commit", "dcl", v)
           d == Step("mem", "dcl", v)
<1>1. /\ b.op = "set" /\ b.f = "dcl" /\ b.v = v /\ c.op = "commit" /\ c.f = "dcl" /\ c.v = v
      /\ d.op = "mem" /\ d.f = "dcl" /\ d.v = v
      /\ b \in Steps /\ c \in Steps /\ d \in Steps
  BY StepFacts, KnownFeatures DEF Ops
<1>2. a.op = (IF v THEN "init" ELSE "deinit") /\ a.f = "dcl" /\ a \in Steps
  BY KnownFeatures DEF Step, Steps, Ops, EntryOps, CollectionStep
<1>3. z.op = "precheckLevl" /\ z.f = "dcl" /\ z \in Steps
  BY KnownFeatures DEF Step, Steps, Ops, EntryOps
<1>4. s = IF v THEN <<z, a, b, c, d>> ELSE <<a, b, c, d>>
  BY Lists DEF CollectionStep
<1> HIDE DEF z, a, b, c, d
<1>5. Leads(a, b)
  BY <1>1, <1>2 DEF Leads, Bound, Is
<1>6. Leads(b, c) /\ Leads(c, d)
  BY <1>1 DEF Leads, Bound, Is
<1>7. Leads(z, a)
  BY <1>2, <1>3 DEF Leads, Bound, Is, Entry, EntryOps
<1>8. ~Bound(d) /\ Entry(a) /\ Entry(z)
  BY <1>1, <1>2, <1>3 DEF Bound, Entry, EntryOps
<1>9. /\ Chain(s) /\ ~Bound(s[Len(s)]) /\ Entry(s[1]) /\ s # <<>>
      /\ \A i \in 1 .. Len(s) : s[i] \in {z, a, b, c, d}
  <2>1. CASE v
    <3>1. Chain(s) /\ Len(s) = 5 /\ s[1] = z /\ s[2] = a /\ s[3] = b /\ s[4] = c /\ s[5] = d
      BY <1>1, <1>2, <1>3, <1>4, <1>5, <1>6, <1>7, <2>1, Chain5
    <3>2. s # <<>>
      BY <3>1, EmptySeq DEF Chain
    <3> QED
      BY <1>8, <3>1, <3>2
  <2>2. CASE ~v
    <3>1. s = <<a, b, c, d>>
      BY <1>4, <2>2
    <3>2. Chain(s) /\ Len(s) = 4 /\ s[1] = a /\ s[2] = b /\ s[3] = c /\ s[4] = d
      BY <1>1, <1>2, <1>5, <1>6, <3>1, Chain4
    <3>3. s # <<>>
      BY <3>2, EmptySeq DEF Chain
    <3> QED
      BY <1>8, <3>2, <3>3
  <2> QED
    BY <2>1, <2>2
<1>10. \A i \in 1 .. Len(s) : s[i].f = "dcl" /\ s[i].op \notin BootOps
  BY <1>1, <1>2, <1>3, <1>9 DEF BootOps
<1>11. \A i \in 1 .. Len(s) : ~Lone(s, i)
  BY <1>10 DEF Lone, Is
<1>12. DOMAIN NoAsks = {}
  BY DEF NoAsks
<1> QED
  BY <1>9, <1>10, <1>11, <1>12, ClosedChain, OneFacts DEF Handler

LEMMA StartHandler ==
    ASSUME NEW f \in {"sb", "sf"}, mem["fp"] = TRUE
    PROVE  Handler(CosaAdvSecStartFeatures(f), One(f, TRUE))
<1> DEFINE a == Step("completed", "fp", TRUE)
           b == Step("set", f, TRUE)
           c == Step("commit", f, TRUE)
           d == Step("mem", f, TRUE)
           e == Step("mem", "fp", TRUE)
           s == CosaAdvSecStartFeatures(f)
<1>1. /\ a.op = "completed" /\ a \in Steps
      /\ Is(b, "set", f, TRUE) /\ b \in Steps /\ Is(c, "commit", f, TRUE) /\ c \in Steps
      /\ Is(d, "mem", f, TRUE) /\ d \in Steps /\ Is(e, "mem", "fp", TRUE) /\ e \in Steps
  BY KnownFeatures DEF Step, Steps, Ops, EntryOps, Is
<1>2. s = <<a, b, c, d, e>>
  <2>1. f \in Features
    BY KnownFeatures
  <2> QED
    BY <2>1, Lists
<1> HIDE DEF a, b, c, d, e, s
<1>3. s \in Seq(Steps) /\ Len(s) = 5 /\ s[1] = a /\ s[2] = b /\ s[3] = c /\ s[4] = d /\ s[5] = e
  BY <1>1, <1>2
<1>4. Leads(a, b) /\ Leads(b, c) /\ Leads(c, d) /\ ~Bound(d)
  BY <1>1 DEF Leads, Bound, Is, Entry
<1>5. Lone(s, 5)
  BY <1>1, <1>3 DEF Lone
<1>6. WellFormed(s)
  <2>1. ASSUME NEW i \in 1 .. 5
        PROVE  IF i < 5 THEN Leads(s[i], s[i + 1]) \/ (~Bound(s[i]) /\ Lone(s, i + 1)) ELSE ~Bound(s[i]) \/ Lone(s, i)
    <3>1. i = 1 \/ i = 2 \/ i = 3 \/ i = 4 \/ i = 5
      OBVIOUS
    <3>2. 1 + 1 = 2 /\ 2 + 1 = 3 /\ 3 + 1 = 4 /\ 4 + 1 = 5
      OBVIOUS
    <3> QED
      BY <1>3, <1>4, <1>5, <3>1, <3>2
  <2> QED
    BY <1>3, <2>1 DEF WellFormed
<1>7. Entry(s[1])
  BY <1>1, <1>3 DEF Entry, EntryOps
<1>8. DOMAIN One(f, TRUE) = {f} /\ One(f, TRUE)[f] = TRUE
  BY OneFacts
<1>9. \A i \in 1 .. 5 :
        /\ s[i].op \notin BootOps
        /\ s[i].op \in Writes => s[i].v = TRUE /\ s[i].f \in {f, "fp"}
  BY <1>1, <1>3 DEF BootOps, Writes, Is
<1>10. \A i \in 1 .. 5 :
         s[i].op \in Writes /\ s[i].f # "dcl" =>
           s[i].v = IF s[i].f \in DOMAIN One(f, TRUE) THEN One(f, TRUE)[s[i].f] ELSE mem[s[i].f]
  BY <1>8, <1>9
<1>11. s[2].f = f /\ s[2].op \in Writes
  BY <1>1, <1>3 DEF Writes, Is
<1>12. \A g \in DOMAIN One(f, TRUE) \ {"dcl"} : \E i \in 1 .. 5 : s[i].f = g /\ s[i].op \in Writes
  <2>1. \E i \in 1 .. 5 : s[i].f = f /\ s[i].op \in Writes
    <3> WITNESS 2 \in 1 .. 5
    <3> QED
      BY <1>11
  <2> QED
    BY <1>8, <2>1
<1>13. "fp" \notin DOMAIN One(f, TRUE)
  BY <1>8
<1>14. Handler(s, One(f, TRUE))
  BY <1>3, <1>6, <1>7, <1>9, <1>10, <1>12, <1>13 DEF Handler
<1> QED
  BY <1>14 DEF s

LEMMA LevlInitHandler == Handler(CosaLevlInit, One("levl", TRUE))
<1> DEFINE a == Step("precheck", "levl", TRUE)
           b == Step("wifiSet", "levl", TRUE)
           c == Step("wifiWait", "levl", TRUE)
           d == Step("dclIfOff", "dcl", TRUE)
           e == Step("set", "levl", TRUE)
           g == Step("commit", "levl", TRUE)
           h == Step("mem", "levl", TRUE)
           s == CosaLevlInit
<1>1. /\ a.op = "precheck" /\ a \in Steps /\ b.op = "wifiSet" /\ b \in Steps /\ c.op = "wifiWait" /\ c \in Steps
      /\ d.op = "dclIfOff" /\ d \in Steps
      /\ Is(e, "set", "levl", TRUE) /\ e \in Steps /\ Is(g, "commit", "levl", TRUE) /\ g \in Steps
      /\ Is(h, "mem", "levl", TRUE) /\ h \in Steps
  BY KnownFeatures DEF Step, Steps, Ops, EntryOps, Is
<1>2. s = <<a, b, c, d, e, g, h>>
  BY Lists
<1> HIDE DEF a, b, c, d, e, g, h, s
<1>3. Leads(a, b) /\ Leads(b, c) /\ Leads(c, d) /\ Leads(d, e)
  BY <1>1 DEF Leads, Bound, Is, Entry, EntryOps
<1>4. Leads(e, g) /\ Leads(g, h) /\ ~Bound(h) /\ Entry(a)
  BY <1>1 DEF Leads, Bound, Is, Entry, EntryOps
<1>5. /\ Chain(s) /\ Len(s) = 7
      /\ s[1] = a /\ s[2] = b /\ s[3] = c /\ s[4] = d /\ s[5] = e /\ s[6] = g /\ s[7] = h
  <2>1. /\ s \in Seq(Steps) /\ Len(s) = 7
        /\ s[1] = a /\ s[2] = b /\ s[3] = c /\ s[4] = d /\ s[5] = e /\ s[6] = g /\ s[7] = h
    BY <1>1, <1>2
  <2>2. \A i \in 1 .. 7 : i < 7 => Leads(s[i], s[i + 1])
    <3> TAKE i \in 1 .. 7
    <3>1. i = 1 \/ i = 2 \/ i = 3 \/ i = 4 \/ i = 5 \/ i = 6 \/ i = 7
      OBVIOUS
    <3>2. 1 + 1 = 2 /\ 2 + 1 = 3 /\ 3 + 1 = 4 /\ 4 + 1 = 5 /\ 5 + 1 = 6 /\ 6 + 1 = 7
      OBVIOUS
    <3> QED
      BY <1>3, <1>4, <2>1, <3>1, <3>2
  <2> QED
    BY <2>1, <2>2 DEF Chain
<1>6. s # <<>> /\ ~Bound(s[Len(s)]) /\ Entry(s[1])
  BY <1>4, <1>5, EmptySeq
<1>7. \A x \in {a, b, c, d, e, g, h} : /\ x.op \notin BootOps
                                       /\ x.op \in Writes => x.f = "levl" /\ x.v = TRUE
  BY <1>1 DEF BootOps, Writes, Is
<1>8. \A i \in 1 .. 7 : s[i] \in {a, b, c, d, e, g, h}
  BY <1>5
<1>9. s[5].f = "levl" /\ s[5].op \in Writes
  BY <1>1, <1>5 DEF Writes, Is
<1>10. WritesOnly(s, "levl", TRUE)
  BY <1>5, <1>7, <1>8, <1>9 DEF WritesOnly
<1>11. Handler(s, One("levl", TRUE))
  BY <1>5, <1>6, <1>10, OneSwitch
<1> QED
  BY <1>11 DEF s

LEMMA LevlDeInitHandler == Handler(CosaLevlDeInit, One("levl", FALSE))
<1> DEFINE a == Step("dclIfOn", "dcl", FALSE)
           b == Step("wifiSet", "levl", FALSE)
           c == Step("set", "levl", FALSE)
           d == Step("commit", "levl", FALSE)
           e == Step("mem", "levl", FALSE)
           s == CosaLevlDeInit
<1>1. /\ a.op = "dclIfOn" /\ a \in Steps /\ b.op = "wifiSet" /\ b \in Steps
      /\ Is(c, "set", "levl", FALSE) /\ c \in Steps /\ Is(d, "commit", "levl", FALSE) /\ d \in Steps
      /\ Is(e, "mem", "levl", FALSE) /\ e \in Steps
  BY KnownFeatures DEF Step, Steps, Ops, EntryOps, Is
<1>2. s = <<a, b, c, d, e>>
  BY Lists
<1> HIDE DEF a, b, c, d, e, s
<1>3. Leads(a, b) /\ Leads(b, c) /\ Leads(c, d) /\ Leads(d, e) /\ ~Bound(e) /\ Entry(a)
  BY <1>1 DEF Leads, Bound, Is, Entry, EntryOps
<1>4. Chain(s) /\ Len(s) = 5 /\ s[1] = a /\ s[2] = b /\ s[3] = c /\ s[4] = d /\ s[5] = e
  BY <1>1, <1>2, <1>3, Chain5
<1>5. s # <<>> /\ ~Bound(s[Len(s)]) /\ Entry(s[1])
  BY <1>3, <1>4, EmptySeq
<1>6. \A x \in {a, b, c, d, e} : /\ x.op \notin BootOps
                                 /\ x.op \in Writes => x.f = "levl" /\ x.v = FALSE
  BY <1>1 DEF BootOps, Writes, Is
<1>7. \A i \in 1 .. 5 : s[i] \in {a, b, c, d, e}
  BY <1>4
<1>8. s[3].f = "levl" /\ s[3].op \in Writes
  BY <1>1, <1>4 DEF Writes, Is
<1>9. WritesOnly(s, "levl", FALSE)
  BY <1>4, <1>6, <1>7, <1>8 DEF WritesOnly
<1>10. Handler(s, One("levl", FALSE))
  BY <1>4, <1>5, <1>9, OneSwitch
<1> QED
  BY <1>10 DEF s

LEMMA BlobHandler ==
    ASSUME NEW doc \in [BlobFeatures -> BOOLEAN]
    PROVE  Handler(advsec_webconfig_handle_blob(doc), doc)
<1> DEFINE a == Step("update", "sb", doc["sb"])
           b == Step("update", "sf", doc["sf"])
           c == Step("update", "pc", doc["pc"])
           d == Step("update", "pp", doc["pp"])
           e == Step("agent", "fp", doc["fp"])
           s == advsec_webconfig_handle_blob(doc)
<1>0. \A f \in BlobFeatures : doc[f] \in BOOLEAN /\ f \in Features
  BY DEF Features
<1>1. /\ Is(a, "update", "sb", doc["sb"]) /\ a \in Steps /\ Is(b, "update", "sf", doc["sf"]) /\ b \in Steps
      /\ Is(c, "update", "pc", doc["pc"]) /\ c \in Steps /\ Is(d, "update", "pp", doc["pp"]) /\ d \in Steps
      /\ Is(e, "agent", "fp", doc["fp"]) /\ e \in Steps
  BY <1>0 DEF Step, Steps, Ops, EntryOps, Is, BlobFeatures
<1>2. s = <<a, b, c, d, e>>
  BY DEF advsec_webconfig_handle_blob
<1> HIDE DEF a, b, c, d, e, s
<1>3. Leads(a, b) /\ Leads(b, c) /\ Leads(c, d) /\ Leads(d, e) /\ ~Bound(e) /\ Entry(a)
  BY <1>1 DEF Leads, Bound, Is, Entry, EntryOps
<1>4. Chain(s) /\ Len(s) = 5 /\ s[1] = a /\ s[2] = b /\ s[3] = c /\ s[4] = d /\ s[5] = e
  BY <1>1, <1>2, <1>3, Chain5
<1>5. s # <<>> /\ ~Bound(s[Len(s)]) /\ Entry(s[1])
  BY <1>3, <1>4, EmptySeq
<1>6. WellFormed(s)
  BY <1>4, <1>5, ClosedChain
<1>7. \A x \in {a, b, c, d, e} : /\ x.op \in {"update", "agent"}
                                 /\ x.f \in BlobFeatures /\ x.v = doc[x.f]
  BY <1>1 DEF Is, BlobFeatures
<1>8. \A i \in 1 .. 5 : s[i] \in {a, b, c, d, e}
  BY <1>4
<1>9. DOMAIN doc = BlobFeatures
  OBVIOUS
<1>10. \A i \in 1 .. 5 : ~Lone(s, i) /\ s[i].op \notin BootOps
  BY <1>7, <1>8 DEF Lone, Is, BootOps
<1>11. \A f \in BlobFeatures : \E i \in 1 .. 5 : s[i].f = f /\ s[i].op \in Writes
  BY <1>1, <1>4 DEF BlobFeatures, Writes, Is
<1>12. \A i \in 1 .. 5 : s[i].v = IF s[i].f \in DOMAIN doc THEN doc[s[i].f] ELSE mem[s[i].f]
  BY <1>7, <1>8, <1>9
<1>13. Handler(s, doc)
  BY <1>4, <1>5, <1>6, <1>9, <1>10, <1>11, <1>12 DEF Handler
<1> QED
  BY <1>13 DEF s

-----------------------------------------------------------------------------
(* What a step does.                                                        *)

DataTyped ==
    /\ mem \in [Features -> BOOLEAN] /\ cfg \in [Features -> BOOLEAN] /\ flash \in [Features -> BOOLEAN]
    /\ wifi \in BOOLEAN /\ consumer \in BOOLEAN /\ marker \in BOOLEAN
    /\ faults \in [set : Nat, commit : Nat, consumer : Nat, cut : BOOLEAN, overlap : BOOLEAN]

FaultsGrow ==
    /\ faults'.set >= faults.set /\ faults'.commit >= faults.commit
    /\ (faults.cut => faults'.cut) /\ faults'.overlap = faults.overlap

(* The switches other than data collection's.                               *)
SwitchEffect(h) ==
    \A f \in Features \ {"dcl"} :
        /\ mem'[f] = IF h.op = "mem" /\ h.f = f THEN h.v ELSE IF h.op = "load" THEN cfg[f] ELSE mem[f]
        /\ cfg'[f] = IF h.op = "set" /\ h.f = f THEN h.v ELSE cfg[f]
        /\ \/ h.op # "commit" /\ flash'[f] = flash[f]
           \/ h.op \in {"commit", "dclBoot"} /\ flash'[f] = cfg[f]

(* Data collection.                                                         *)
CollectionEffect(h, F) ==
    /\ h.op \notin {"init", "initOrClear", "deinit"} => consumer' = consumer
    /\ h.op = "init" => consumer' = TRUE
    /\ h.op = "initOrClear" => consumer' = TRUE \/ mem'["dcl"] = FALSE
    /\ h.op = "dclAtInit" /\ F = <<>> => mem'["dcl"] = FALSE
    /\ h.op = "mem" /\ h.f = "dcl" => mem'["dcl"] = h.v
    /\ ~(h.op = "mem" /\ h.f = "dcl") /\ h.op \notin {"initOrClear", "dclAtInit", "load", "dclValue"} =>
         mem'["dcl"] = mem["dcl"]

Succeeds(a) ==
    \E F : /\ Continues(Head(todo[a]), F) /\ Continue(a, F)
           /\ SwitchEffect(Head(todo[a])) /\ CollectionEffect(Head(todo[a]), F) /\ FaultsGrow

Fails(a) ==
    /\ Fail(a) /\ UNCHANGED <<mem, cfg, flash, consumer>> /\ FaultsGrow
    /\ Head(todo[a]).op \in {"set", "commit", "completed", "initialized", "precheck", "precheckLevl", "init",
                             "wifiSet", "wifiWait"}
    /\ Head(todo[a]).op = "set" => faults'.set > 0
    /\ Head(todo[a]).op = "commit" => faults'.commit > 0

Taken(a) == todo[a] # <<>> /\ (Succeeds(a) \/ Fails(a)) /\ DataTyped'

(* A step that neither fails nor writes anything but by its kind.           *)
LEMMA PlainStep ==
    ASSUME DataTyped, NEW h,
           h.op \notin {"set", "commit", "mem", "load", "init", "initOrClear", "deinit", "dclAtInit", "dclValue"},
           UNCHANGED <<mem, cfg, flash, consumer, faults>>
    PROVE  /\ SwitchEffect(h) /\ FaultsGrow
           /\ \A F : CollectionEffect(h, F)
<1>1. SwitchEffect(h)
  BY DEF SwitchEffect
<1>2. FaultsGrow
  BY DEF FaultsGrow, DataTyped
<1>3. \A F : CollectionEffect(h, F)
  BY DEF CollectionEffect
<1> QED
  BY <1>1, <1>2, <1>3

LEMMA EmptyFront ==
    ASSUME NEW h, h.op \notin {"update", "agent", "agentBoot"}
    PROVE  Continues(h, <<>>)
  BY DEF Continues

LEMMA SetTaken ==
    ASSUME DataTyped, NEW a \in Actors, todo[a] \in Seq(Steps), syscfg_set(a)
    PROVE  Taken(a)
<1> DEFINE h == Head(todo[a])
<1>1. h \in Steps /\ h.op = "set" /\ todo[a] # <<>> /\ h.f \in Features /\ h.v \in BOOLEAN
  BY HeadTailProperties, FieldsOfSteps DEF syscfg_set, Doing
<1>2. UNCHANGED <<mem, flash, wifi, consumer, marker>>
  BY DEF syscfg_set
<1>3. CASE cfg' = [cfg EXCEPT ![h.f] = h.v] /\ Continue(a, <<>>) /\ UNCHANGED faults
  <2>1. SwitchEffect(h) /\ cfg' \in [Features -> BOOLEAN]
    BY <1>1, <1>2, <1>3 DEF SwitchEffect, DataTyped
  <2>2. CollectionEffect(h, <<>>)
    BY <1>1, <1>2 DEF CollectionEffect
  <2>3. FaultsGrow
    BY <1>3 DEF FaultsGrow, DataTyped
  <2>4. Continues(h, <<>>)
    BY <1>1, EmptyFront
  <2>5. DataTyped'
    BY <1>2, <1>3, <2>1 DEF DataTyped
  <2> HIDE DEF h
  <2>6. Succeeds(a)
    BY <1>3, <2>1, <2>2, <2>3, <2>4 DEF Succeeds, h
  <2> QED
    BY <1>1, <2>5, <2>6 DEF Taken
<1>4. CASE faults' = [faults EXCEPT !.set = @ + 1] /\ Fail(a) /\ UNCHANGED cfg
  <2>1. FaultsGrow /\ faults'.set > 0 /\ DataTyped'
    BY <1>2, <1>4 DEF FaultsGrow, DataTyped
  <2> QED
    BY <1>1, <1>2, <1>4, <2>1 DEF Taken, Fails
<1> QED
  BY <1>3, <1>4 DEF syscfg_set, Feature, Value

LEMMA CommitTaken ==
    ASSUME DataTyped, NEW a \in Actors, todo[a] \in Seq(Steps), syscfg_commit(a)
    PROVE  Taken(a)
<1> DEFINE h == Head(todo[a])
<1>1. h.op = "commit" /\ todo[a] # <<>>
  BY DEF syscfg_commit, Doing
<1>2. UNCHANGED <<mem, cfg, wifi, consumer, marker>>
  BY DEF syscfg_commit
<1>3. CASE flash' = cfg /\ Continue(a, <<>>) /\ UNCHANGED faults
  <2>1. SwitchEffect(h) /\ flash' \in [Features -> BOOLEAN]
    BY <1>1, <1>2, <1>3 DEF SwitchEffect, DataTyped
  <2>2. CollectionEffect(h, <<>>)
    BY <1>1, <1>2 DEF CollectionEffect
  <2>3. FaultsGrow
    BY <1>3 DEF FaultsGrow, DataTyped
  <2>4. Continues(h, <<>>)
    BY <1>1, EmptyFront
  <2>5. DataTyped'
    BY <1>2, <1>3, <2>1 DEF DataTyped
  <2> HIDE DEF h
  <2>6. Succeeds(a)
    BY <1>3, <2>1, <2>2, <2>3, <2>4 DEF Succeeds, h
  <2> QED
    BY <1>1, <2>5, <2>6 DEF Taken
<1>4. CASE faults' = [faults EXCEPT !.commit = @ + 1] /\ Fail(a) /\ UNCHANGED flash
  <2>1. FaultsGrow /\ faults'.commit > 0 /\ DataTyped'
    BY <1>2, <1>4 DEF FaultsGrow, DataTyped
  <2> QED
    BY <1>1, <1>2, <1>4, <2>1 DEF Taken, Fails
<1> QED
  BY <1>3, <1>4 DEF syscfg_commit

LEMMA AssignTaken ==
    ASSUME DataTyped, NEW a \in Actors, todo[a] \in Seq(Steps), Assign(a)
    PROVE  Taken(a)
<1> DEFINE h == Head(todo[a])
<1>1. h \in Steps /\ h.op = "mem" /\ todo[a] # <<>> /\ h.f \in Features /\ h.v \in BOOLEAN
  BY HeadTailProperties, FieldsOfSteps DEF Assign, Doing
<1>2. /\ UNCHANGED <<cfg, flash, wifi, consumer, marker, faults>> /\ Continue(a, <<>>)
      /\ mem' = [mem EXCEPT ![h.f] = h.v]
  BY DEF Assign, Feature, Value
<1>3. SwitchEffect(h) /\ mem' \in [Features -> BOOLEAN]
  BY <1>1, <1>2 DEF SwitchEffect, DataTyped
<1>4. CollectionEffect(h, <<>>)
  BY <1>1, <1>2, KnownFeatures DEF CollectionEffect, DataTyped
<1>5. FaultsGrow
  BY <1>2 DEF FaultsGrow, DataTyped
<1>6. Continues(h, <<>>)
  BY <1>1, EmptyFront
<1>7. DataTyped'
  BY <1>2, <1>3 DEF DataTyped
<1> HIDE DEF h
<1>8. Succeeds(a)
  BY <1>2, <1>3, <1>4, <1>5, <1>6 DEF Succeeds, h
<1> QED
  BY <1>1, <1>7, <1>8 DEF Taken

(* The tests that lead on or to a failure.                                  *)
LEMMA TestTaken ==
    ASSUME DataTyped, NEW a \in Actors, todo[a] \in Seq(Steps),
           MarkerCheck(a) \/ wifidcl_init_precheck(a) \/ LevlSwitch(a)
    PROVE  Taken(a)
<1> DEFINE h == Head(todo[a])
<1>1. h \in Steps /\ todo[a] # <<>> /\ h.f \in Features /\ h.v \in BOOLEAN
  BY HeadTailProperties, FieldsOfSteps DEF MarkerCheck, wifidcl_init_precheck, LevlSwitch, Doing
<1>2. UNCHANGED <<mem, cfg, flash, consumer, marker, faults>>
  BY DEF MarkerCheck, wifidcl_init_precheck, LevlSwitch
<1>3. h.op \in {"completed", "initialized", "precheck", "precheckLevl", "wifiSet", "wifiWait", "wifiTry"}
  BY DEF MarkerCheck, wifidcl_init_precheck, LevlSwitch, Doing
<1>4. Continue(a, <<>>) \/ (Fail(a) /\ h.op # "wifiTry")
  BY DEF MarkerCheck, wifidcl_init_precheck, LevlSwitch, Doing
<1>5. wifi' \in BOOLEAN
  BY <1>1 DEF MarkerCheck, wifidcl_init_precheck, LevlSwitch, Wifi_SetParameterValue, Value, DataTyped
<1>6. DataTyped'
  BY <1>2, <1>5 DEF DataTyped
<1>7. SwitchEffect(h) /\ FaultsGrow /\ CollectionEffect(h, <<>>)
  BY <1>2, <1>3, PlainStep
<1>8. Continues(h, <<>>)
  BY <1>3, EmptyFront
<1> HIDE DEF h
<1>9. Continue(a, <<>>) => Succeeds(a)
  BY <1>7, <1>8 DEF Succeeds, h
<1>10. Fail(a) /\ h.op # "wifiTry" => Fails(a)
  BY <1>2, <1>3, <1>7 DEF Fails, h
<1> QED
  BY <1>1, <1>4, <1>6, <1>9, <1>10 DEF Taken

LEMMA ConsumerTaken ==
    ASSUME DataTyped, NEW a \in Actors, todo[a] \in Seq(Steps),
           CosaAdvWifiDataConsumerInit(a) \/ CosaAdvWifiDataConsumerDeInit(a)
    PROVE  Taken(a)
<1> DEFINE h == Head(todo[a])
<1>1. todo[a] # <<>> /\ h.op \in {"init", "initOrClear", "deinit"}
  BY DEF CosaAdvWifiDataConsumerInit, CosaAdvWifiDataConsumerDeInit, Doing
<1>2. UNCHANGED <<cfg, flash, wifi, marker>>
  BY DEF CosaAdvWifiDataConsumerInit, CosaAdvWifiDataConsumerDeInit
<1>3. Continues(h, <<>>)
  BY <1>1, EmptyFront
<1>4. CASE h.op \in {"init", "initOrClear"} /\ consumer' = TRUE /\ Continue(a, <<>>) /\ UNCHANGED <<mem, faults>>
  <2>1. SwitchEffect(h) /\ CollectionEffect(h, <<>>)
    BY <1>2, <1>4 DEF SwitchEffect, CollectionEffect
  <2>2. FaultsGrow /\ DataTyped'
    BY <1>2, <1>4 DEF FaultsGrow, DataTyped
  <2> HIDE DEF h
  <2>3. Succeeds(a)
    BY <1>3, <1>4, <2>1, <2>2 DEF Succeeds, h
  <2> QED
    BY <1>1, <2>2, <2>3 DEF Taken
<1>5. CASE h.op = "init" /\ faults' = [faults EXCEPT !.consumer = @ + 1] /\ Fail(a) /\ UNCHANGED <<mem, consumer>>
  <2>1. FaultsGrow /\ DataTyped'
    BY <1>2, <1>5 DEF FaultsGrow, DataTyped
  <2> QED
    BY <1>1, <1>2, <1>5, <2>1 DEF Taken, Fails
<1>6. CASE /\ h.op = "initOrClear" /\ faults' = [faults EXCEPT !.consumer = @ + 1]
           /\ mem' = [mem EXCEPT !["dcl"] = FALSE] /\ Continue(a, <<>>) /\ UNCHANGED consumer
  <2>1. SwitchEffect(h)
    BY <1>2, <1>6 DEF SwitchEffect, DataTyped
  <2>2. CollectionEffect(h, <<>>)
    BY <1>6, KnownFeatures DEF CollectionEffect, DataTyped
  <2>3. FaultsGrow
    BY <1>2, <1>6 DEF FaultsGrow, DataTyped
  <2>4. mem' \in [Features -> BOOLEAN]
    BY <1>6 DEF DataTyped
  <2>6. faults' \in [set : Nat, commit : Nat, consumer : Nat, cut : BOOLEAN, overlap : BOOLEAN]
    BY <1>6 DEF DataTyped
  <2>7. DataTyped'
    BY <1>2, <1>6, <2>4, <2>6 DEF DataTyped
  <2> HIDE DEF h
  <2>5. Succeeds(a)
    BY <1>3, <1>6, <2>1, <2>2, <2>3 DEF Succeeds, h
  <2> QED
    BY <1>1, <2>5, <2>7 DEF Taken
<1>7. CASE h.op = "deinit" /\ consumer' = FALSE /\ Continue(a, <<>>) /\ UNCHANGED <<mem, faults>>
  <2>1. SwitchEffect(h) /\ CollectionEffect(h, <<>>)
    BY <1>2, <1>7 DEF SwitchEffect, CollectionEffect
  <2>2. FaultsGrow
    BY <1>7 DEF FaultsGrow, DataTyped
  <2>3. DataTyped'
    BY <1>2, <1>7 DEF DataTyped
  <2> HIDE DEF h
  <2>4. Succeeds(a)
    BY <1>3, <1>7, <2>1, <2>2 DEF Succeeds, h
  <2> QED
    BY <1>1, <2>3, <2>4 DEF Taken
<1> QED
  BY <1>4, <1>5, <1>6, <1>7 DEF CosaAdvWifiDataConsumerInit, CosaAdvWifiDataConsumerDeInit, Doing

LEMMA DclAtInitTaken ==
    ASSUME DataTyped, NEW a \in Actors, todo[a] \in Seq(Steps), DclAtInit(a)
    PROVE  Taken(a)
<1> DEFINE h == Head(todo[a])
<1>1. todo[a] # <<>> /\ h.op = "dclAtInit"
  BY DEF DclAtInit, Doing
<1>2. UNCHANGED <<cfg, flash, wifi, consumer, marker, faults>>
  BY DEF DclAtInit
<1>3. FaultsGrow
  BY <1>2 DEF FaultsGrow, DataTyped
<1>4. CASE Continue(a, <<Step("initOrClear", "dcl", TRUE)>>) /\ UNCHANGED mem
  <2> DEFINE F == <<Step("initOrClear", "dcl", TRUE)>>
  <2>1. SwitchEffect(h)
    BY <1>1, <1>2, <1>4 DEF SwitchEffect
  <2>2. CollectionEffect(h, F)
    BY <1>1, <1>2, <1>4 DEF CollectionEffect
  <2>3. Continues(h, F)
    BY <1>1 DEF Continues
  <2>4. DataTyped'
    BY <1>2, <1>4 DEF DataTyped
  <2> HIDE DEF h
  <2>5. Succeeds(a)
    BY <1>3, <1>4, <2>1, <2>2, <2>3 DEF Succeeds, h
  <2> QED
    BY <1>1, <2>4, <2>5 DEF Taken
<1>5. CASE mem' = [mem EXCEPT !["dcl"] = FALSE] /\ Continue(a, <<>>)
  <2>1. SwitchEffect(h)
    BY <1>1, <1>2, <1>5 DEF SwitchEffect, DataTyped
  <2>2. CollectionEffect(h, <<>>)
    BY <1>1, <1>2, <1>5, KnownFeatures DEF CollectionEffect, DataTyped
  <2>3. Continues(h, <<>>)
    BY <1>1, EmptyFront
  <2>4. DataTyped'
    BY <1>2, <1>5 DEF DataTyped
  <2> HIDE DEF h
  <2>5. Succeeds(a)
    BY <1>3, <1>5, <2>1, <2>2, <2>3 DEF Succeeds, h
  <2> QED
    BY <1>1, <2>4, <2>5 DEF Taken
<1> QED
  BY <1>4, <1>5 DEF DclAtInit

(* The steps that only branch.                                              *)
LEMMA BranchTaken ==
    ASSUME DataTyped, NEW a \in Actors, todo[a] \in Seq(Steps),
           DclTest(a) \/ advsec_update_feature_status(a) \/ BlobAgent(a) \/ AgentBoot(a)
    PROVE  Taken(a)
<1> DEFINE h == Head(todo[a])
<1>1. h \in Steps /\ todo[a] # <<>> /\ h.f \in Features /\ h.v \in BOOLEAN
  BY HeadTailProperties, FieldsOfSteps DEF DclTest, advsec_update_feature_status, BlobAgent, AgentBoot, Doing
<1>2. UNCHANGED <<mem, cfg, flash, wifi, consumer, marker, faults>>
  BY DEF DclTest, advsec_update_feature_status, BlobAgent, AgentBoot
<1>3. h.op \in {"dclAtDeInit", "dclIfOff", "dclIfOn", "update", "agent", "agentBoot"}
  BY DEF DclTest, advsec_update_feature_status, BlobAgent, AgentBoot, Doing
<1>4. SwitchEffect(h) /\ FaultsGrow /\ \A F : CollectionEffect(h, F)
  BY <1>2, <1>3, PlainStep
<1>5. h.op = "agent" => h.f = "fp"
  BY <1>1 DEF Steps
<1>6. DataTyped'
  BY <1>2 DEF DataTyped
<1>7. \E F : Continues(h, F) /\ Continue(a, F)
  <2>1. CASE advsec_update_feature_status(a)
    BY <1>1, <2>1 DEF advsec_update_feature_status, Doing, Feature, Value, Continues
  <2>2. CASE BlobAgent(a)
    BY <1>5, <2>2 DEF BlobAgent, Doing, Value, Continues
  <2>3. CASE AgentBoot(a)
    BY <2>3 DEF AgentBoot, Doing, Continues
  <2>4. CASE DclTest(a)
    <3>1. CASE h.op = "dclAtDeInit"
      BY <2>4, <3>1 DEF DclTest, Doing, Continues
    <3>2. CASE h.op = "dclIfOff"
      BY <2>4, <3>2 DEF DclTest, Doing, Continues
    <3>3. CASE h.op = "dclIfOn"
      BY <2>4, <3>3 DEF DclTest, Doing, Continues
    <3> QED
      BY <2>4, <3>1, <3>2, <3>3 DEF DclTest, Doing
  <2> QED
    BY <2>1, <2>2, <2>3, <2>4
<1> HIDE DEF h
<1>8. Succeeds(a)
  BY <1>4, <1>7 DEF Succeeds, h
<1> QED
  BY <1>1, <1>6, <1>8 DEF Taken

(* The boot sequence.                                                       *)
LEMMA BootTaken ==
    ASSUME DataTyped, NEW a \in Actors, todo[a] \in Seq(Steps), Load(a) \/ DclBoot(a) \/ DclValue(a)
    PROVE  Taken(a)
<1> DEFINE h == Head(todo[a])
<1>1. h \in Steps /\ todo[a] # <<>> /\ h.f \in Features /\ h.v \in BOOLEAN
  BY HeadTailProperties, FieldsOfSteps DEF Load, DclBoot, DclValue, Doing
<1>2. CASE Load(a)
  <2>1. /\ UNCHANGED <<cfg, flash, wifi, consumer, marker, faults>> /\ Continue(a, <<>>) /\ h.op = "load"
        /\ mem' = [cfg EXCEPT !["dcl"] = FALSE]
    BY <1>2 DEF Load, Doing
  <2>2. SwitchEffect(h)
    BY <2>1 DEF SwitchEffect, DataTyped
  <2>3. CollectionEffect(h, <<>>) /\ Continues(h, <<>>)
    BY <2>1, EmptyFront DEF CollectionEffect
  <2>4. FaultsGrow
    BY <2>1 DEF FaultsGrow, DataTyped
  <2>5. mem' \in [Features -> BOOLEAN]
    BY <2>1 DEF DataTyped
  <2>6. DataTyped'
    BY <2>1, <2>5 DEF DataTyped
  <2> HIDE DEF h
  <2>7. Succeeds(a)
    BY <2>1, <2>2, <2>3, <2>4 DEF Succeeds, h
  <2> QED
    BY <1>1, <2>6, <2>7 DEF Taken
<1>3. CASE DclValue(a)
  <2>1. /\ UNCHANGED <<cfg, flash, wifi, consumer, marker, faults>> /\ Continue(a, <<>>) /\ h.op = "dclValue"
        /\ mem' = [mem EXCEPT !["dcl"] = h.v /\ wifi]
    BY <1>3 DEF DclValue, Doing, Value
  <2>2. SwitchEffect(h)
    BY <2>1 DEF SwitchEffect, DataTyped
  <2>3. CollectionEffect(h, <<>>) /\ Continues(h, <<>>)
    BY <2>1, EmptyFront DEF CollectionEffect
  <2>4. FaultsGrow
    BY <2>1 DEF FaultsGrow, DataTyped
  <2>5. DataTyped'
    BY <1>1, <2>1 DEF DataTyped
  <2> HIDE DEF h
  <2>6. Succeeds(a)
    BY <2>1, <2>2, <2>3, <2>4 DEF Succeeds, h
  <2> QED
    BY <1>1, <2>5, <2>6 DEF Taken
<1>4. CASE DclBoot(a)
  <2> DEFINE levl == mem["levl"] /\ wifi
             v == levl \/ cfg["dcl"]
             F == <<Step("dclValue", "dcl", v)>>
  <2>0. levl \in BOOLEAN /\ v \in BOOLEAN
    BY KnownFeatures DEF DataTyped
  <2>1. UNCHANGED <<mem, wifi, consumer, marker>> /\ Continue(a, F) /\ h.op = "dclBoot"
    BY <1>4 DEF DclBoot, Doing
  <2>2. \/ cfg' = [cfg EXCEPT !["dcl"] = levl \/ @] /\ flash' = (IF levl THEN cfg' ELSE flash) /\ UNCHANGED faults
        \/ faults' = [faults EXCEPT !.set = @ + 1] /\ UNCHANGED <<cfg, flash>>
        \/ faults' = [faults EXCEPT !.commit = @ + 1] /\ cfg' = [cfg EXCEPT !["dcl"] = TRUE] /\ UNCHANGED flash
    BY <1>4 DEF DclBoot
  <2>3. CollectionEffect(h, F)
    BY <2>1 DEF CollectionEffect
  <2>4. Continues(h, F)
    BY <2>0, <2>1 DEF Continues
  <2>5. FaultsGrow /\ faults' \in [set : Nat, commit : Nat, consumer : Nat, cut : BOOLEAN, overlap : BOOLEAN]
    BY <2>2 DEF FaultsGrow, DataTyped
  <2>6. cfg' \in [Features -> BOOLEAN] /\ \A f \in Features \ {"dcl"} : cfg'[f] = cfg[f]
    BY <2>0, <2>2, KnownFeatures DEF DataTyped
  <2>7. flash' \in [Features -> BOOLEAN] /\ (flash' = cfg' \/ flash' = flash)
    BY <2>2, <2>6 DEF DataTyped
  <2>8. DataTyped'
    BY <2>1, <2>5, <2>6, <2>7 DEF DataTyped
  <2>9. SwitchEffect(h)
    BY <2>1, <2>6, <2>7 DEF SwitchEffect
  <2> HIDE DEF h, F
  <2>10. Succeeds(a)
    BY <2>1, <2>3, <2>4, <2>5, <2>9 DEF Succeeds, h
  <2> QED
    BY <1>1, <2>8, <2>10 DEF Taken
<1> QED
  BY <1>2, <1>3, <1>4

-----------------------------------------------------------------------------
(* The list after a step.                                                   *)

FromFront(h, R, i) == Writing(h, R[i]) /\ ~Lone(R, i)
FromRest(s, R, i) == \E j \in 2 .. Len(s) : R[i] = s[j] /\ (Lone(R, i) <=> Lone(s, j))

Goes(h, F, R) ==
    \/ F # <<>> /\ Opens(h, R[1])
    \/ F = <<>> /\ Leads(h, R[1])
    \/ F = <<>> /\ ~Bound(h) /\ Lone(R, 1)

Follows(s, F, R) ==
    /\ WellFormed(R) /\ Head(s) = s[1] /\ s[1] \in Steps /\ 1 \in 1 .. Len(s)
    /\ \A i \in 1 .. Len(R) : FromFront(s[1], R, i) \/ FromRest(s, R, i)
    /\ \A j \in 2 .. Len(s) : \E i \in 1 .. Len(R) : R[i] = s[j]
    /\ s[1].op \in {"update", "agent"} /\ F # <<>> =>
         \E i \in 1 .. Len(R) : R[i].f = s[1].f /\ R[i].op \in Writes
    /\ R # <<>> => 1 \in 1 .. Len(R) /\ Head(R) = R[1] /\ Goes(s[1], F, R)
    /\ R = <<>> => F = <<>> /\ (~Bound(s[1]) \/ Lone(s, 1))

LEMMA Progress ==
    ASSUME NEW s, WellFormed(s), s # <<>>, NEW F, Continues(Head(s), F), NEW R, R = F \o Tail(s)
    PROVE  Follows(s, F, R)
<1>1. s \in Seq(Steps) /\ Head(s) = s[1] /\ s[1] \in Steps /\ Len(s) \in Nat /\ Len(s) > 0 /\ 1 \in 1 .. Len(s)
  BY HeadTailProperties, EmptySeq, LenProperties DEF WellFormed
<1>2. F # <<>> => Front(s[1], F)
  BY <1>1, FrontFacts
<1>3. Chain(F) /\ F \in Seq(Steps) /\ Len(F) \in Nat /\ (F = <<>> <=> Len(F) = 0)
  <2>1. Chain(<<>>)
    BY EmptySeq DEF Chain
  <2>2. Chain(F)
    BY <1>2, <2>1 DEF Front
  <2> QED
    BY <2>2, EmptySeq, LenProperties DEF Chain
<1>4. WellFormed(R)
  BY <1>1, <1>2, <1>3, SpliceWellFormed DEF Front
<1>5. /\ R \in Seq(Steps) /\ Len(R) = Len(F) + Len(s) - 1
      /\ \A i \in 1 .. Len(F) : i \in 1 .. Len(R) /\ R[i] = F[i]
      /\ \A j \in 2 .. Len(s) : j - 1 + Len(F) \in 1 .. Len(R) /\ R[j - 1 + Len(F)] = s[j]
      /\ \A i \in Len(F) + 1 .. Len(R) : i + 1 - Len(F) \in 2 .. Len(s) /\ R[i] = s[i + 1 - Len(F)]
  BY <1>1, <1>3, Splice
<1>6. ASSUME NEW i \in 1 .. Len(R)
      PROVE  FromFront(s[1], R, i) \/ FromRest(s, R, i)
  <2>1. CASE i \in 1 .. Len(F)
    <3>1. R[i] = F[i] /\ Writing(s[1], F[i]) /\ F # <<>>
      BY <1>2, <1>3, <1>5, <2>1 DEF Front
    <3>2. i = Len(R) => i = Len(F)
      BY <1>1, <1>3, <1>5, <2>1
    <3>3. ~Lone(R, i)
      BY <1>2, <3>1, <3>2 DEF Lone, Front, Is
    <3> QED
      BY <3>1, <3>3 DEF FromFront
  <2>2. CASE i \in Len(F) + 1 .. Len(R)
    <3> DEFINE j == i + 1 - Len(F)
    <3>1. j \in 2 .. Len(s) /\ R[i] = s[j]
      BY <1>5, <2>2
    <3>2. i = Len(R) <=> j = Len(s)
      BY <1>1, <1>3, <1>5, <2>2
    <3> HIDE DEF j
    <3> QED
      BY <3>1, <3>2 DEF FromRest, Lone
  <2>3. i \in 1 .. Len(F) \/ i \in Len(F) + 1 .. Len(R)
    BY <1>3
  <2> QED
    BY <2>1, <2>2, <2>3
<1>7. \A j \in 2 .. Len(s) : \E i \in 1 .. Len(R) : R[i] = s[j]
  BY <1>5
<1>8. s[1].op \in {"update", "agent"} /\ F # <<>> => \E i \in 1 .. Len(R) : R[i].f = s[1].f /\ R[i].op \in Writes
  BY <1>2, <1>5 DEF Front
<1>9. ASSUME R # <<>>
      PROVE  1 \in 1 .. Len(R) /\ Head(R) = R[1] /\ Goes(s[1], F, R)
  <2>1. Head(R) = R[1] /\ Len(R) \in Nat /\ Len(R) > 0
    BY <1>5, <1>9, HeadTailProperties, EmptySeq, LenProperties
  <2>2. CASE F # <<>>
    <3>1. 1 \in 1 .. Len(F)
      BY <1>3, <2>2
    <3> QED
      BY <1>2, <1>5, <2>1, <2>2, <3>1 DEF Front, Goes
  <2>3. CASE F = <<>>
    <3>1. /\ Len(F) = 0 /\ 1 \in Len(F) + 1 .. Len(R) /\ 1 + 1 - Len(F) = 2
          /\ Len(R) = Len(s) - 1
      BY <1>1, <1>3, <1>5, <2>1, <2>3
    <3>2. R[1] = s[2] /\ 1 < Len(s) /\ 1 + 1 = 2 /\ (1 = Len(R) <=> 2 = Len(s))
      BY <1>1, <1>5, <3>1
    <3>3. Leads(s[1], s[2]) \/ (~Bound(s[1]) /\ Lone(s, 2))
      BY <1>1, <3>2 DEF WellFormed
    <3>4. Lone(s, 2) => Lone(R, 1)
      BY <3>2 DEF Lone
    <3> QED
      BY <2>1, <2>3, <3>2, <3>3, <3>4 DEF Goes
  <2> QED
    BY <2>2, <2>3
<1>10. ASSUME R = <<>>
       PROVE  F = <<>> /\ (~Bound(s[1]) \/ Lone(s, 1))
  <2>1. Len(R) = 0
    BY <1>10, EmptySeq
  <2>2. Len(F) = 0 /\ Len(s) = 1 /\ ~(1 < Len(s))
    <3>1. Len(F) \in Nat /\ Len(s) \in Nat /\ Len(s) > 0 /\ Len(R) = Len(F) + Len(s) - 1
      BY <1>1, <1>3, <1>5
    <3> QED
      BY <2>1, <3>1, Positions
  <2> QED
    BY <1>1, <1>3, <2>2 DEF WellFormed
<1> QED
  BY <1>1, <1>4, <1>6, <1>7, <1>8, <1>9, <1>10 DEF Follows

-----------------------------------------------------------------------------
(* Requests.                                                                *)

Asks == UNION {[S -> BOOLEAN] : S \in SUBSET Features}
Jobs == [busy : BOOLEAN, asks : Asks, before : [BlobFeatures -> BOOLEAN]]

Typed ==
    /\ DataTyped
    /\ promised \in [Features -> SUBSET BOOLEAN] /\ up \in BOOLEAN
    /\ todo \in [Actors -> Seq(Steps)] /\ job \in [Actors -> Jobs]

LEMMA AsksFacts ==
    /\ \A asks \in Asks : DOMAIN asks \subseteq Features /\ \A f \in DOMAIN asks : asks[f] \in BOOLEAN
    /\ \A f \in Features, v \in BOOLEAN : One(f, v) \in Asks
    /\ \A doc \in [BlobFeatures -> BOOLEAN] : doc \in Asks
    /\ NoAsks \in Asks /\ DOMAIN NoAsks = {}
<1>1. \A S \in SUBSET Features : \A asks \in [S -> BOOLEAN] : asks \in Asks
  BY DEF Asks
<1>2. \A asks \in Asks : DOMAIN asks \subseteq Features /\ \A f \in DOMAIN asks : asks[f] \in BOOLEAN
  <2> TAKE asks \in Asks
  <2>1. PICK S \in SUBSET Features : asks \in [S -> BOOLEAN]
    BY DEF Asks
  <2>2. DOMAIN asks = S /\ \A f \in S : asks[f] \in BOOLEAN
    BY <2>1
  <2> QED
    BY <2>1, <2>2
<1>3. \A f \in Features, v \in BOOLEAN : One(f, v) \in Asks
  <2> TAKE f \in Features, v \in BOOLEAN
  <2>1. One(f, v) \in [{f} -> BOOLEAN] /\ {f} \in SUBSET Features
    BY DEF One
  <2> QED
    BY <1>1, <2>1
<1>4. \A doc \in [BlobFeatures -> BOOLEAN] : doc \in Asks
  <2>1. BlobFeatures \in SUBSET Features
    BY DEF Features
  <2> QED
    BY <1>1, <2>1
<1>5. NoAsks \in Asks /\ DOMAIN NoAsks = {}
  <2>1. NoAsks \in [{} -> BOOLEAN] /\ {} \in SUBSET Features /\ DOMAIN NoAsks = {}
    BY DEF NoAsks
  <2> QED
    BY <1>1, <2>1
<1> QED
  BY <1>2, <1>3, <1>4, <1>5

LEMMA NoJobFacts == NoJob \in Jobs /\ ~NoJob.busy /\ DOMAIN NoJob.asks = {}
<1>1. NoAsks \in Asks /\ DOMAIN NoAsks = {}
  BY AsksFacts
<1> HIDE DEF NoAsks, Asks
<1> QED
  BY <1>1 DEF NoJob, Jobs

(* A promise about a value in memory is one syscfg keeps already.           *)
Honest(asks) == \A f \in DOMAIN asks \ {"dcl"} : asks[f] = mem[f] => Settled(f, asks[f])

LEMMA PromisesFacts ==
    ASSUME NEW asks \in Asks, NEW s, Handler(s, asks)
    PROVE  Promises(asks) \in Asks /\ Handler(s, Promises(asks)) /\ Honest(Promises(asks))
<1> DEFINE kept == {f \in DOMAIN asks : asks[f] = mem[f] => cfg[f] = mem[f] /\ flash[f] = mem[f]}
           p == Promises(asks)
<1>1. DOMAIN asks \subseteq Features /\ \A f \in DOMAIN asks : asks[f] \in BOOLEAN
  BY AsksFacts
<1>2. p = [f \in kept |-> asks[f]]
  BY DEF Promises
<1>3. /\ DOMAIN p = kept /\ kept \subseteq DOMAIN asks
      /\ \A f \in kept : p[f] = asks[f] /\ (asks[f] = mem[f] => cfg[f] = mem[f] /\ flash[f] = mem[f])
      /\ \A f \in DOMAIN asks \ kept : asks[f] = mem[f]
  BY <1>2
<1>4. p \in Asks
  <2>1. p \in [kept -> BOOLEAN] /\ kept \in SUBSET Features
    BY <1>1, <1>2, <1>3
  <2> HIDE DEF p, kept
  <2> QED
    BY <2>1 DEF Asks
<1> HIDE DEF p, kept
<1>5. Honest(p)
  BY <1>3 DEF Honest, Settled
<1>6. Handler(s, p)
  <2>1. ASSUME NEW i \in 1 .. Len(s)
        PROVE  /\ s[i].op \notin BootOps
               /\ s[i].op \in Writes /\ s[i].f # "dcl" =>
                    s[i].v = IF s[i].f \in DOMAIN p THEN p[s[i].f] ELSE mem[s[i].f]
               /\ Lone(s, i) => "fp" \notin DOMAIN p
    <3>1. /\ s[i].op \notin BootOps
          /\ s[i].op \in Writes /\ s[i].f # "dcl" =>
               s[i].v = IF s[i].f \in DOMAIN asks THEN asks[s[i].f] ELSE mem[s[i].f]
          /\ Lone(s, i) => "fp" \notin DOMAIN asks
      BY <2>1 DEF Handler
    <3> QED
      BY <1>3, <3>1
  <2>2. \A f \in DOMAIN p \ {"dcl"} :
          mem[f] = p[f] \/ \E i \in 1 .. Len(s) : s[i].f = f /\ s[i].op \in Writes
    BY <1>3 DEF Handler
  <2> QED
    BY <2>1, <2>2 DEF Handler
<1> QED
  BY <1>4, <1>5, <1>6 DEF p

(* What a request does, whoever takes it.                                   *)
Starts(a, asks, s) ==
    /\ Begin(a, asks, s) /\ Handler(s, asks) /\ asks \in Asks
    /\ UNCHANGED <<mem, cfg, flash, wifi, up, consumer, marker>>
    /\ a = "wifi" => asks = NoAsks /\ \A i \in 1 .. Len(s) : s[i].f = "dcl"
    /\ a # "wifi" /\ Serialised => Idle("bus") /\ Idle("webconfig")
    /\ Honest(asks)

Started == \E a \in Actors : \E asks, s : Starts(a, asks, s)

LEMMA RequestStarts ==
    ASSUME NEW a \in Actors, a # "wifi", NEW asks \in Asks, NEW s, Handler(s, asks), Request(a, asks, s)
    PROVE  Started
<1>1. Starts(a, Promises(asks), s)
  BY PromisesFacts DEF Starts, Request
<1> QED
  BY <1>1 DEF Started

LEMMA SetterStarts ==
    ASSUME Typed, NEW f \in Features \ {"dcl"}, NEW v \in BOOLEAN, NEW on, NEW off, Setter(f, v, on, off),
           v => Handler(on, One(f, v)), ~v => Handler(off, One(f, v))
    PROVE  Started
<1> DEFINE s == IF v = mem[f] THEN <<>> ELSE IF v THEN on ELSE off
<1>1. Request("bus", One(f, v), s)
  BY DEF Setter, One
<1>2. Handler(s, One(f, v))
  <2>1. CASE v = mem[f]
    <3>0. \A g \in DOMAIN One(f, v) \ {"dcl"} : mem[g] = One(f, v)[g]
      <4> TAKE g \in DOMAIN One(f, v) \ {"dcl"}
      <4>1. DOMAIN One(f, v) = {f} /\ One(f, v)[f] = v
        BY OneFacts
      <4>2. g = f
        BY <4>1
      <4> QED
        BY <2>1, <4>1, <4>2, Zenon
    <3>1. Handler(<<>>, One(f, v))
      BY <3>0, EmptyHandler
    <3> QED
      BY <2>1, <3>1
  <2>2. CASE v # mem[f]
    BY <2>2
  <2> QED
    BY <2>1, <2>2
<1>3. One(f, v) \in Asks
  BY AsksFacts
<1> HIDE DEF s
<1> QED
  BY <1>1, <1>2, <1>3, RequestStarts DEF Actors

LEMMA SettersStart ==
    ASSUME Typed, NEW v \in BOOLEAN,
           \/ DeviceFingerPrint_SetParamBoolValue(v) \/ SafeBrowsing_SetParamBoolValue(v)
           \/ Softflowd_SetParamBoolValue(v) \/ AdvancedParentalControl_SetParamBoolValue(v)
           \/ PrivacyProtection_SetParamBoolValue(v) \/ Levl_RFC_SetParamBoolValue(v)
           \/ WifiDataCollection_RFC_SetParamBoolValue(v)
           \/ \E f \in Rfcs : RFC_SetParamBoolValue(f, v)
    PROVE  Started
<1>0. mem["fp"] \in BOOLEAN
  BY KnownFeatures DEF Typed, DataTyped
<1>1. CASE DeviceFingerPrint_SetParamBoolValue(v)
  <2>1. (v => Handler(CosaAdvSecInit, One("fp", v))) /\ (~v => Handler(CosaAdvSecDeInit, One("fp", v)))
    BY AgentHandler DEF Agent
  <2>2. Setter("fp", v, CosaAdvSecInit, CosaAdvSecDeInit) /\ "fp" \in Features \ {"dcl"}
    BY <1>1, KnownFeatures DEF DeviceFingerPrint_SetParamBoolValue
  <2> QED
    BY <2>1, <2>2, SetterStarts
<1>2. ASSUME NEW f \in {"sb", "sf"}, mem["fp"], Setter(f, v, CosaAdvSecStartFeatures(f), CosaAdvSecStopFeatures(f))
      PROVE  Started
  <2>1. f \in Features \ {"dcl"} /\ f \in Features \ {"fp", "dcl"}
    BY KnownFeatures
  <2>2. v => Handler(CosaAdvSecStartFeatures(f), One(f, v))
    <3>1. Handler(CosaAdvSecStartFeatures(f), One(f, TRUE))
      BY <1>0, <1>2, StartHandler
    <3> QED
      BY <3>1
  <2>3. ~v => Handler(CosaAdvSecStopFeatures(f), One(f, v))
    <3>1. Handler(Save(f, FALSE), One(f, FALSE))
      BY <2>1, SaveHandler
    <3> QED
      BY <3>1 DEF CosaAdvSecStopFeatures
  <2> QED
    BY <1>2, <2>1, <2>2, <2>3, SetterStarts
<1>3. ASSUME NEW f \in {"pc", "pp"}, Setter(f, v, CosaStartAdvParentalControl(f), CosaStopAdvParentalControl(f))
      PROVE  Started
  <2>1. f \in Features \ {"dcl"} /\ f \in Features \ {"fp", "dcl"}
    BY KnownFeatures
  <2>2. \A w \in BOOLEAN : Handler(<<Step("initialized", f, w)>> \o Save(f, w), One(f, w))
    BY <2>1, SaveHandler
  <2>3. Handler(CosaStartAdvParentalControl(f), One(f, TRUE)) /\ Handler(CosaStopAdvParentalControl(f), One(f, FALSE))
    BY <2>2 DEF CosaStartAdvParentalControl, CosaStopAdvParentalControl
  <2>4. /\ v => Handler(CosaStartAdvParentalControl(f), One(f, v))
        /\ ~v => Handler(CosaStopAdvParentalControl(f), One(f, v))
    BY <2>3
  <2> QED
    BY <1>3, <2>1, <2>4, SetterStarts
<1>4. CASE Levl_RFC_SetParamBoolValue(v)
  <2>1. (v => Handler(CosaLevlInit, One("levl", v))) /\ (~v => Handler(CosaLevlDeInit, One("levl", v)))
    BY LevlInitHandler, LevlDeInitHandler
  <2>2. Setter("levl", v, CosaLevlInit, CosaLevlDeInit) /\ "levl" \in Features \ {"dcl"}
    BY <1>4, KnownFeatures DEF Levl_RFC_SetParamBoolValue
  <2> QED
    BY <2>1, <2>2, SetterStarts
<1>5. ASSUME NEW f \in Rfcs, RFC_SetParamBoolValue(f, v)
      PROVE  Started
  <2>1. f \in Features \ {"dcl"} /\ f \in Features \ {"fp", "dcl"}
    BY RfcsAssumption DEF Features, BlobFeatures
  <2>2. \A w \in BOOLEAN : Handler(Save(f, w), One(f, w))
    BY <2>1, SaveHandler
  <2>3. Setter(f, v, CosaAdvPC(f, TRUE), CosaAdvPC(f, FALSE))
    BY <1>5 DEF RFC_SetParamBoolValue
  <2>4. (v => Handler(CosaAdvPC(f, TRUE), One(f, v))) /\ (~v => Handler(CosaAdvPC(f, FALSE), One(f, v)))
    BY <2>2 DEF CosaAdvPC
  <2> QED
    BY <2>1, <2>3, <2>4, SetterStarts
<1>6. CASE WifiDataCollection_RFC_SetParamBoolValue(v)
  <2> DEFINE s == IF v = mem["dcl"] /\ v = cfg["dcl"] THEN <<>>
                  ELSE IF v THEN CosaAdvWifiDataCollectionInit ELSE CosaAdvWifiDataCollectionDeInit
  <2>1. Request("bus", One("dcl", v), s)
    BY <1>6 DEF WifiDataCollection_RFC_SetParamBoolValue, One
  <2>2. Handler(<<>>, One("dcl", v))
    BY EmptyHandler, OneFacts
  <2>3. Handler(s, One("dcl", v))
    BY <2>2, CollectionHandler
  <2>4. One("dcl", v) \in Asks
    BY AsksFacts, KnownFeatures
  <2> HIDE DEF s
  <2> QED
    BY <2>1, <2>3, <2>4, RequestStarts DEF Actors
<1> QED
  BY <1>1, <1>2, <1>3, <1>4, <1>5, <1>6
  DEF SafeBrowsing_SetParamBoolValue, Softflowd_SetParamBoolValue, AdvancedParentalControl_SetParamBoolValue,
      PrivacyProtection_SetParamBoolValue

LEMMA BlobStarts ==
    ASSUME Typed, NEW doc \in Docs, advsec_webconfig_process_request(doc)
    PROVE  Started
<1>1. doc \in [BlobFeatures -> BOOLEAN]
  BY DocsAssumption
<1>2. Handler(advsec_webconfig_handle_blob(doc), doc) /\ doc \in Asks
  BY <1>1, BlobHandler, AsksFacts
<1>3. Request("webconfig", doc, advsec_webconfig_handle_blob(doc))
  BY DEF advsec_webconfig_process_request
<1> QED
  BY <1>2, <1>3, RequestStarts DEF Actors

LEMMA EventStarts ==
    ASSUME Typed, wifiEventReceiveHandler
    PROVE  Started
<1> DEFINE s == IF mem["dcl"] /\ ~Head(events) THEN CosaAdvWifiDataCollectionDeInit ELSE <<>>
<1>1. Begin("wifi", NoAsks, s) /\ UNCHANGED <<mem, cfg, flash, wifi, up, consumer, marker>>
  BY DEF wifiEventReceiveHandler
<1>2. Handler(<<>>, NoAsks)
  BY EmptyHandler, AsksFacts
<1>3. Handler(s, NoAsks) /\ \A i \in 1 .. Len(s) : s[i].f = "dcl"
  <2>1. /\ Handler(CosaAdvWifiDataCollectionDeInit, NoAsks)
        /\ \A i \in 1 .. Len(CosaAdvWifiDataCollectionDeInit) : CosaAdvWifiDataCollectionDeInit[i].f = "dcl"
    BY CollectionHandler
  <2>2. \A i \in 1 .. Len(<<>>) : <<>>[i].f = "dcl"
    BY EmptySeq
  <2> QED
    BY <1>2, <2>1, <2>2
<1>4. NoAsks \in Asks
  BY AsksFacts
<1> HIDE DEF s
<1>5. Honest(NoAsks)
  BY AsksFacts DEF Honest
<1>6. Starts("wifi", NoAsks, s)
  BY <1>1, <1>3, <1>4, <1>5 DEF Starts
<1> QED
  BY <1>6 DEF Started, Actors

-----------------------------------------------------------------------------
(* Steps that keep the types and the control.                               *)

(* A handler has run a step and has others, or none, to run.                *)
Advanced(a, F) ==
    /\ Follows(todo[a], F, todo'[a]) /\ Continues(todo[a][1], F)
    /\ SwitchEffect(todo[a][1]) /\ CollectionEffect(todo[a][1], F) /\ FaultsGrow
    /\ todo' \in [Actors -> Seq(Steps)] /\ \A b \in Actors \ {a} : todo'[b] = todo[b]
    /\ UNCHANGED <<job, up, promised>>

LEMMA SuccessAdvances ==
    ASSUME Typed, Control, NEW a \in Actors, todo[a] # <<>>, Succeeds(a)
    PROVE  \E F : Advanced(a, F)
<1>1. PICK F : /\ Continues(Head(todo[a]), F) /\ Continue(a, F)
               /\ SwitchEffect(Head(todo[a])) /\ CollectionEffect(Head(todo[a]), F) /\ FaultsGrow
  BY DEF Succeeds
<1>2. todo' = [todo EXCEPT ![a] = F \o Tail(todo[a])] /\ UNCHANGED <<job, up, promised>>
  BY <1>1 DEF Continue
<1>3. todo'[a] = F \o Tail(todo[a]) /\ \A b \in Actors \ {a} : todo'[b] = todo[b]
  BY <1>2 DEF Typed
<1>4. WellFormed(todo[a])
  BY DEF Control
<1>5. Follows(todo[a], F, todo'[a])
  BY <1>1, <1>3, <1>4, Progress
<1>6. Head(todo[a]) = todo[a][1] /\ todo'[a] \in Seq(Steps)
  BY <1>5 DEF Follows, WellFormed
<1>7. todo' \in [Actors -> Seq(Steps)]
  <2>1. F \o Tail(todo[a]) \in Seq(Steps)
    BY <1>3, <1>6
  <2> HIDE DEF Steps
  <2> QED
    BY <1>2, <2>1 DEF Typed
<1> QED
  BY <1>1, <1>2, <1>3, <1>5, <1>6, <1>7 DEF Advanced

(* A handler has returned early with an error.                              *)
Abandoned(a) ==
    /\ todo'[a] = <<>> /\ job'[a] = NoJob /\ up' = TRUE /\ UNCHANGED <<promised, mem, cfg, flash, consumer>>
    /\ \A b \in Actors \ {a} : todo'[b] = todo[b] /\ job'[b] = job[b]
    /\ todo' \in [Actors -> Seq(Steps)] /\ job' \in [Actors -> Jobs]
    /\ FaultsGrow
    /\ todo[a][1].op \in {"set", "commit", "completed", "initialized", "precheck", "precheckLevl", "init",
                          "wifiSet", "wifiWait"}
    /\ todo[a][1].op = "set" => faults'.set > 0
    /\ todo[a][1].op = "commit" => faults'.commit > 0

LEMMA FailureAbandons ==
    ASSUME Typed, NEW a \in Actors, todo[a] # <<>>, Fails(a)
    PROVE  Abandoned(a)
<1>1. todo' = [todo EXCEPT ![a] = <<>>] /\ job' = [job EXCEPT ![a] = NoJob] /\ up' = TRUE /\ UNCHANGED promised
  BY DEF Fails, Fail
<1>2. <<>> \in Seq(Steps) /\ NoJob \in Jobs
  BY EmptySeq, NoJobFacts
<1>3. todo[a] \in Seq(Steps)
  BY DEF Typed
<1>4. Head(todo[a]) = todo[a][1]
  BY <1>3, HeadTailProperties
<1> HIDE DEF Steps, Jobs, NoJob
<1>5. /\ todo'[a] = <<>> /\ job'[a] = NoJob
      /\ \A b \in Actors \ {a} : todo'[b] = todo[b] /\ job'[b] = job[b]
      /\ todo' \in [Actors -> Seq(Steps)] /\ job' \in [Actors -> Jobs]
  BY <1>1, <1>2 DEF Typed
<1> QED
  BY <1>1, <1>4, <1>5 DEF Abandoned, Fails

(* A request has been taken.                                                *)
Taking(a, asks, s) ==
    /\ Idle(a) /\ Handler(s, asks) /\ asks \in Asks
    /\ job'[a].busy /\ job'[a].asks = asks /\ todo'[a] = s
    /\ \A b \in Actors \ {a} : todo'[b] = todo[b] /\ job'[b] = job[b]
    /\ todo' \in [Actors -> Seq(Steps)] /\ job' \in [Actors -> Jobs]
    /\ promised' \in [Features -> SUBSET BOOLEAN]
    /\ \A f \in Features : promised[f] \subseteq promised'[f]
    /\ \A f \in DOMAIN asks : asks[f] \in promised'[f]
    /\ Honest(asks)
    /\ faults'.set = faults.set /\ faults'.commit = faults.commit /\ (faults.cut => faults'.cut)
    /\ ~faults'.overlap => /\ ~faults.overlap
                           /\ \A b \in Actors : job[b].busy => a # "wifi" /\ b # "wifi"
    /\ DataTyped' /\ UNCHANGED <<mem, cfg, flash, up, consumer>>
    /\ a = "wifi" => DOMAIN asks = {} /\ \A i \in 1 .. Len(s) : s[i].f = "dcl"
    /\ a # "wifi" /\ Serialised => Idle("bus") /\ Idle("webconfig")

LEMMA StartTakes ==
    ASSUME Typed, NEW a \in Actors, NEW asks, NEW s, Starts(a, asks, s)
    PROVE  Taking(a, asks, s)
<1> DEFINE j == [busy |-> TRUE, asks |-> asks, before |-> [f \in BlobFeatures |-> mem[f]]]
           over == \E b \in Actors : job[b].busy /\ (a = "wifi" \/ b = "wifi")
<1>1. /\ Idle(a) /\ Handler(s, asks) /\ asks \in Asks /\ Honest(asks)
      /\ job' = [job EXCEPT ![a] = j] /\ todo' = [todo EXCEPT ![a] = s]
      /\ promised' = [f \in Features |-> promised[f] \cup {asks[g] : g \in DOMAIN asks \cap {f}}]
      /\ faults' = [faults EXCEPT !.overlap = @ \/ over]
      /\ UNCHANGED <<mem, cfg, flash, wifi, up, consumer, marker>>
  BY DEF Starts, Begin
<1>2. s \in Seq(Steps)
  BY <1>1 DEF Handler, WellFormed
<1>3. j \in Jobs /\ j.busy /\ j.asks = asks
  <2>1. [f \in BlobFeatures |-> mem[f]] \in [BlobFeatures -> BOOLEAN]
    BY DEF Typed, DataTyped, Features
  <2> HIDE DEF Asks
  <2> QED
    BY <1>1, <2>1 DEF Jobs
<1> HIDE DEF j, over
<1>4. /\ todo'[a] = s /\ job'[a] = j
      /\ \A b \in Actors \ {a} : todo'[b] = todo[b] /\ job'[b] = job[b]
      /\ todo' \in [Actors -> Seq(Steps)] /\ job' \in [Actors -> Jobs]
  <2> HIDE DEF Steps, Jobs
  <2> QED
    BY <1>1, <1>2, <1>3 DEF Typed
<1>5. DOMAIN asks \subseteq Features /\ \A f \in DOMAIN asks : asks[f] \in BOOLEAN
  BY <1>1, AsksFacts
<1>6. /\ promised' \in [Features -> SUBSET BOOLEAN]
      /\ \A f \in Features : promised[f] \subseteq promised'[f]
      /\ \A f \in DOMAIN asks : asks[f] \in promised'[f]
  BY <1>1, <1>5 DEF Typed
<1>7. /\ faults'.set = faults.set /\ faults'.commit = faults.commit /\ faults'.cut = faults.cut
      /\ faults'.overlap = (faults.overlap \/ over)
      /\ faults' \in [set : Nat, commit : Nat, consumer : Nat, cut : BOOLEAN, overlap : BOOLEAN]
  BY <1>1 DEF Typed, DataTyped
<1>8. ~faults'.overlap => /\ ~faults.overlap
                          /\ \A b \in Actors : job[b].busy => a # "wifi" /\ b # "wifi"
  BY <1>7 DEF over
<1>9. DataTyped'
  BY <1>1, <1>7 DEF Typed, DataTyped
<1>10. /\ a = "wifi" => DOMAIN asks = {} /\ \A i \in 1 .. Len(s) : s[i].f = "dcl"
       /\ a # "wifi" /\ Serialised => Idle("bus") /\ Idle("webconfig")
  BY AsksFacts DEF Starts
<1> QED
  BY <1>1, <1>3, <1>4, <1>6, <1>7, <1>8, <1>9, <1>10 DEF Taking

(* A request has been answered, or the boot sequence has ended.             *)
Answered(a) ==
    /\ todo[a] = <<>> /\ (job[a].busy \/ (a = "bus" /\ ~up))
    /\ job'[a] = NoJob /\ job' \in [Actors -> Jobs] /\ \A b \in Actors \ {a} : job'[b] = job[b]
    /\ up' = TRUE /\ promised' \in [Features -> SUBSET BOOLEAN]
    /\ \A f \in Features : promised'[f] = IF f \in DOMAIN job[a].asks THEN {job[a].asks[f]} ELSE promised[f]
    /\ UNCHANGED <<mem, cfg, flash, todo, consumer, faults>> /\ DataTyped'

LEMMA ReturnAnswers ==
    ASSUME Typed, NEW a \in Actors, Return(a)
    PROVE  Answered(a)
<1>1. job' = [job EXCEPT ![a] = NoJob] /\ NoJob \in Jobs
  BY NoJobFacts DEF Return
<1>2. job'[a] = NoJob /\ job' \in [Actors -> Jobs] /\ \A b \in Actors \ {a} : job'[b] = job[b]
  <2> HIDE DEF Jobs, NoJob
  <2> QED
    BY <1>1 DEF Typed
<1>3. promised' = [f \in Features |-> IF f \in DOMAIN job[a].asks THEN {job[a].asks[f]} ELSE promised[f]]
  BY DEF Return
<1>4. job[a] \in Jobs
  <2> HIDE DEF Jobs
  <2> QED
    BY DEF Typed
<1>5. job[a].asks \in Asks
  <2> HIDE DEF Asks
  <2> QED
    BY <1>4 DEF Jobs
<1>6. \A f \in DOMAIN job[a].asks : job[a].asks[f] \in BOOLEAN
  BY <1>5, AsksFacts
<1>7. /\ promised' \in [Features -> SUBSET BOOLEAN]
      /\ \A f \in Features : promised'[f] = IF f \in DOMAIN job[a].asks THEN {job[a].asks[f]} ELSE promised[f]
  BY <1>3, <1>6 DEF Typed
<1>8. DataTyped'
  BY DEF Return, Typed, DataTyped
<1> QED
  BY <1>2, <1>7, <1>8 DEF Answered, Return

(* The process starts again.                                                *)
Rebooted ==
    /\ todo' = [a \in Actors |-> IF a = "bus" THEN CosaSecurityInitialize ELSE <<>>]
    /\ job' = [a \in Actors |-> NoJob]
    /\ up' = FALSE /\ UNCHANGED <<flash, promised>> /\ (cfg' = flash \/ (cfg' = cfg /\ faults'.cut))
    /\ FaultsGrow /\ DataTyped'

LEMMA RestartReboots ==
    ASSUME Typed, NEW v \in BOOLEAN, Restart(v)
    PROVE  Rebooted
<1>1. /\ todo' = [a \in Actors |-> IF a = "bus" THEN CosaSecurityInitialize ELSE <<>>]
      /\ job' = [a \in Actors |-> NoJob]
      /\ up' = FALSE /\ UNCHANGED <<flash, promised>>
  BY DEF Restart
<1>2. /\ cfg' = (IF v THEN flash ELSE cfg) /\ mem' = [f \in Features |-> FALSE] /\ UNCHANGED wifi
      /\ consumer' = FALSE /\ marker' = (marker /\ ~v)
      /\ faults' = [faults EXCEPT !.cut = @ \/ cfg' # flash]
  BY DEF Restart
<1>3. /\ FaultsGrow /\ (cfg' = flash \/ (cfg' = cfg /\ faults'.cut))
      /\ faults' \in [set : Nat, commit : Nat, consumer : Nat, cut : BOOLEAN, overlap : BOOLEAN]
  <2>1. faults \in [set : Nat, commit : Nat, consumer : Nat, cut : BOOLEAN, overlap : BOOLEAN]
    BY DEF Typed, DataTyped
  <2>2. /\ faults'.set = faults.set /\ faults'.commit = faults.commit /\ faults'.overlap = faults.overlap
        /\ faults'.cut = (faults.cut \/ cfg' # flash)
        /\ faults' \in [set : Nat, commit : Nat, consumer : Nat, cut : BOOLEAN, overlap : BOOLEAN]
    BY <1>2, <2>1
  <2>3. faults.commit \in Nat /\ faults.set \in Nat
    BY <2>1
  <2>4. faults'.set >= faults.set /\ faults'.commit >= faults.commit
    BY <2>2, <2>3
  <2>5. cfg' = flash \/ (cfg' = cfg /\ faults'.cut)
    BY <1>2, <2>2
  <2> QED
    BY <2>2, <2>4, <2>5 DEF FaultsGrow
<1>4. cfg' \in [Features -> BOOLEAN] /\ mem' \in [Features -> BOOLEAN] /\ flash' \in [Features -> BOOLEAN]
  BY <1>1, <1>2 DEF Typed, DataTyped
<1>5. consumer' \in BOOLEAN /\ marker' \in BOOLEAN /\ wifi' \in BOOLEAN
  BY <1>2 DEF Typed, DataTyped
<1> QED
  BY <1>1, <1>3, <1>4, <1>5 DEF Rebooted, DataTyped

(* OneWifi or a script has changed something else.                          *)
Passes == UNCHANGED <<mem, cfg, flash, todo, job, up, consumer, promised, faults>> /\ DataTyped'

Moves ==
    \/ \E a \in Actors : \E asks, s : Taking(a, asks, s)
    \/ \E a \in Actors : todo[a] # <<>> /\ DataTyped' /\ \E F : Advanced(a, F)
    \/ \E a \in Actors : todo[a] # <<>> /\ DataTyped' /\ Abandoned(a)
    \/ \E a \in Actors : Answered(a)
    \/ Rebooted
    \/ Passes

LEMMA NextMoves ==
    ASSUME Typed, Control, [Next]_vars
    PROVE  Moves
<1>1. ASSUME Started PROVE Moves
  <2>1. PICK a \in Actors : \E asks, s : Starts(a, asks, s)
    BY <1>1 DEF Started
  <2>2. PICK asks, s : Starts(a, asks, s)
    BY <2>1
  <2>3. Taking(a, asks, s)
    BY <2>2, StartTakes
  <2> QED
    BY <2>3 DEF Moves
<1>2. ASSUME NEW a \in Actors, Taken(a) PROVE Moves
  BY <1>2, SuccessAdvances, FailureAbandons DEF Taken, Moves
<1>3. ASSUME NEW a \in Actors, Return(a) PROVE Moves
  BY <1>3, ReturnAnswers DEF Moves
<1>4. ASSUME NEW v \in BOOLEAN, Restart(v) PROVE Moves
  BY <1>4, RestartReboots DEF Moves
<1>5. ASSUME OneWifiSets \/ ScriptDone \/ UNCHANGED vars PROVE Moves
  <2>1. UNCHANGED <<mem, cfg, flash, todo, job, up, consumer, promised, faults>>
    BY <1>5 DEF OneWifiSets, ScriptDone, vars
  <2>2. wifi' \in BOOLEAN /\ marker' \in BOOLEAN
    BY <1>5, KnownFeatures DEF OneWifiSets, ScriptDone, vars, Typed, DataTyped
  <2>3. DataTyped'
    BY <2>1, <2>2 DEF Typed, DataTyped
  <2> QED
    BY <2>1, <2>3 DEF Moves, Passes
<1>6. ASSUME NEW a \in Actors,
             \/ syscfg_set(a) \/ syscfg_commit(a) \/ Assign(a) \/ MarkerCheck(a)
             \/ wifidcl_init_precheck(a) \/ CosaAdvWifiDataConsumerInit(a) \/ CosaAdvWifiDataConsumerDeInit(a)
             \/ DclAtInit(a) \/ DclTest(a) \/ LevlSwitch(a) \/ advsec_update_feature_status(a)
             \/ BlobAgent(a) \/ Load(a) \/ DclBoot(a) \/ DclValue(a) \/ AgentBoot(a)
      PROVE  Moves
  <2>1. DataTyped /\ todo[a] \in Seq(Steps)
    BY DEF Typed
  <2>2. Taken(a)
    BY <1>6, <2>1, SetTaken, CommitTaken, AssignTaken, TestTaken, ConsumerTaken, DclAtInitTaken, BranchTaken, BootTaken
  <2> QED
    BY <1>2, <2>2
<1> QED
  BY <1>1, <1>3, <1>4, <1>5, <1>6, SettersStart, BlobStarts, EventStarts DEF Next

(* The boot sequence writes nothing of its own.                             *)
LEMMA BootHandler ==
    /\ WellFormed(CosaSecurityInitialize) /\ CosaSecurityInitialize # <<>> /\ 1 \in 1 .. Len(CosaSecurityInitialize)
    /\ Head(CosaSecurityInitialize) = CosaSecurityInitialize[1] /\ CosaSecurityInitialize[1].op = "load"
    /\ \A i \in 1 .. Len(CosaSecurityInitialize) :
          /\ CosaSecurityInitialize[i].op \notin Writes
          /\ ~Lone(CosaSecurityInitialize, i)
<1> DEFINE a == Step("load", "fp", TRUE)
           b == Step("wifiTry", "levl", TRUE)
           c == Step("dclBoot", "dcl", TRUE)
           d == Step("agentBoot", "fp", TRUE)
           s == CosaSecurityInitialize
<1>1. /\ a.op = "load" /\ a \in Steps /\ b.op = "wifiTry" /\ b \in Steps
      /\ c.op = "dclBoot" /\ c \in Steps /\ d.op = "agentBoot" /\ d \in Steps
  BY KnownFeatures DEF Step, Steps, Ops, BootOps
<1>2. s = <<a, b, c, d>>
  BY DEF CosaSecurityInitialize
<1> HIDE DEF a, b, c, d, s
<1>3. Leads(a, b) /\ Leads(b, c) /\ Leads(c, d) /\ ~Bound(d)
  BY <1>1 DEF Leads, Bound, Is
<1>4. Chain(s) /\ Len(s) = 4 /\ s[1] = a /\ s[2] = b /\ s[3] = c /\ s[4] = d
  BY <1>1, <1>2, <1>3, Chain4
<1>5. s # <<>> /\ ~Bound(s[Len(s)]) /\ s \in Seq(Steps)
  BY <1>3, <1>4, EmptySeq DEF Chain
<1>6. WellFormed(s) /\ Head(s) = s[1] /\ 1 \in 1 .. Len(s)
  <2>1. WellFormed(s)
    BY <1>4, <1>5, ClosedChain
  <2>2. Head(s) = s[1]
    BY <1>5, HeadTailProperties
  <2>3. 1 \in 1 .. 4
    OBVIOUS
  <2> QED
    BY <1>4, <2>1, <2>2, <2>3
<1>7. \A i \in 1 .. 4 : s[i].op \notin Writes /\ s[i].op # "mem"
  BY <1>1, <1>4 DEF Writes
<1>8. \A i \in 1 .. Len(s) : s[i].op \notin Writes /\ ~Lone(s, i)
  BY <1>4, <1>7 DEF Lone, Is
<1> QED
  BY <1>1, <1>4, <1>5, <1>6, <1>8 DEF s

LEMMA Rebooting ==
    ASSUME Rebooted
    PROVE  /\ todo'["bus"] = CosaSecurityInitialize /\ todo' \in [Actors -> Seq(Steps)]
           /\ \A a \in Actors \ {"bus"} : todo'[a] = <<>>
           /\ \A a \in Actors : WellFormed(todo'[a])
           /\ job' \in [Actors -> Jobs] /\ \A a \in Actors : ~job'[a].busy /\ DOMAIN job'[a].asks = {}
<1>1. /\ todo' = [a \in Actors |-> IF a = "bus" THEN CosaSecurityInitialize ELSE <<>>]
      /\ job' = [a \in Actors |-> NoJob]
  BY DEF Rebooted
<1>2. WellFormed(CosaSecurityInitialize) /\ CosaSecurityInitialize \in Seq(Steps)
  BY BootHandler DEF WellFormed
<1>3. WellFormed(<<>>) /\ <<>> \in Seq(Steps)
  BY EmptySeq DEF WellFormed
<1>4. NoJob \in Jobs /\ ~NoJob.busy /\ DOMAIN NoJob.asks = {}
  BY NoJobFacts
<1> HIDE DEF Steps, Jobs, NoJob, CosaSecurityInitialize
<1> QED
  BY <1>1, <1>2, <1>3, <1>4 DEF Actors

LEMMA TypedStep ==
    ASSUME Typed, Moves
    PROVE  Typed'
<1>1. ASSUME NEW a \in Actors, NEW asks, NEW s, Taking(a, asks, s) PROVE Typed'
  BY <1>1 DEF Taking, Typed
<1>2. ASSUME NEW a \in Actors, NEW F, DataTyped', Advanced(a, F) PROVE Typed'
  BY <1>2 DEF Advanced, Typed
<1>3. ASSUME NEW a \in Actors, DataTyped', Abandoned(a) PROVE Typed'
  BY <1>3 DEF Abandoned, Typed
<1>4. ASSUME NEW a \in Actors, Answered(a) PROVE Typed'
  BY <1>4 DEF Answered, Typed
<1>5. ASSUME Rebooted PROVE Typed'
  <2>1. todo' \in [Actors -> Seq(Steps)] /\ job' \in [Actors -> Jobs]
    BY <1>5, Rebooting
  <2> QED
    BY <1>5, <2>1 DEF Rebooted, Typed
<1>6. ASSUME Passes PROVE Typed'
  BY <1>6 DEF Passes, Typed
<1> QED
  BY <1>1, <1>2, <1>3, <1>4, <1>5, <1>6 DEF Moves

LEMMA JobFacts ==
    ASSUME Typed, NEW a \in Actors
    PROVE  /\ job[a].busy \in BOOLEAN /\ DOMAIN job[a].asks \subseteq Features
           /\ todo[a] \in Seq(Steps) /\ (todo[a] # <<>> => Head(todo[a]) = todo[a][1] /\ 1 \in 1 .. Len(todo[a]))
<1>1. job[a] \in Jobs /\ todo[a] \in Seq(Steps)
  <2> HIDE DEF Jobs, Steps
  <2> QED
    BY DEF Typed
<1>2. job[a].busy \in BOOLEAN /\ job[a].asks \in Asks
  <2> HIDE DEF Asks
  <2> QED
    BY <1>1 DEF Jobs
<1>3. todo[a] # <<>> => Head(todo[a]) = todo[a][1] /\ 1 \in 1 .. Len(todo[a])
  BY <1>1, HeadTailProperties, EmptySeq, LenProperties
<1> QED
  BY <1>1, <1>2, <1>3, AsksFacts

(* No step leads to the first one of the boot sequence.                     *)
LEMMA NewHead ==
    ASSUME NEW h, NEW F, NEW R, Goes(h, F, R)
    PROVE  R[1].op # "load"
<1>1. ASSUME NEW y, Entry(y) PROVE y.op # "load"
  BY <1>1 DEF Entry, EntryOps
<1>2. ASSUME NEW y, Leads(h, y) PROVE y.op # "load"
  BY <1>1, <1>2 DEF Leads, Bound, Is
<1> QED
  BY <1>1, <1>2 DEF Goes, Opens, Lone, Is

(* Who has steps to run while another boots or serves.                      *)
LEMMA Alone ==
    ASSUME Typed, Control, NEW a \in Actors, todo[a] # <<>>
    PROVE  /\ up \/ a = "bus"
           /\ up => job[a].busy
           /\ todo[a][1].op \in BootOps => ~up /\ a = "bus"
           /\ Loading => ~up /\ a = "bus" /\ todo[a][1].op = "load"
           /\ a = "wifi" => todo[a][1].f = "dcl" /\ todo[a][1].op \notin BootOps
<1>1. Head(todo[a]) = todo[a][1] /\ 1 \in 1 .. Len(todo[a])
  BY JobFacts
<1>2. up \/ a = "bus"
  BY DEF Control, Actors
<1>3. up => job[a].busy
  BY DEF Control
<1>4. todo[a][1].op \in BootOps => ~up /\ a = "bus"
  BY <1>1, <1>2 DEF Control
<1>5. Loading => ~up
  <2>1. "bus" \in Actors
    BY DEF Actors
  <2>2. todo["bus"] # <<>> => Head(todo["bus"]) = todo["bus"][1] /\ 1 \in 1 .. Len(todo["bus"])
    BY <2>1, JobFacts
  <2> QED
    BY <2>1, <2>2 DEF Loading, Control, BootOps
<1>6. Loading => a = "bus" /\ todo[a][1].op = "load"
  BY <1>1, <1>2, <1>5 DEF Loading
<1>7. a = "wifi" => todo[a][1].f = "dcl" /\ todo[a][1].op \notin BootOps
  BY <1>1, <1>4 DEF Control
<1> QED
  BY <1>2, <1>3, <1>4, <1>5, <1>6, <1>7

LEMMA TakingControl ==
    ASSUME Typed, Control, NEW a \in Actors, NEW asks, NEW s, Taking(a, asks, s)
    PROVE  Control'
<1>1. up /\ up' /\ ~job[a].busy /\ todo[a] = <<>>
  BY DEF Taking, Idle, Control
<1>2. /\ job'[a].busy /\ job'[a].asks = asks /\ todo'[a] = s
      /\ \A b \in Actors \ {a} : todo'[b] = todo[b] /\ job'[b] = job[b]
  BY DEF Taking
<1>3. \A b \in Actors : WellFormed(todo'[b])
  BY <1>2 DEF Taking, Handler, Control
<1>4. \A b \in Actors : \A i \in 1 .. Len(todo'[b]) : todo'[b][i].op \notin BootOps
  <2> TAKE b \in Actors
  <2>1. CASE b = a
    BY <1>2, <2>1 DEF Taking, Handler
  <2>2. CASE b # a
    BY <1>1, <1>2, <2>2 DEF Control
  <2> QED
    BY <2>1, <2>2
<1>5. "bus" \in Actors /\ "wifi" \in Actors
  BY DEF Actors
<1>6. \A i \in 1 .. Len(todo'["wifi"]) : todo'["wifi"][i].f = "dcl"
  <2>1. CASE a = "wifi"
    BY <1>2, <2>1 DEF Taking
  <2>2. CASE a # "wifi"
    BY <1>2, <1>5, <2>2 DEF Control
  <2> QED
    BY <2>1, <2>2
<1>7. \A b \in Actors : todo'[b] # <<>> => job'[b].busy
  BY <1>1, <1>2 DEF Control
<1>8. \A b \in Actors : ~job'[b].busy => DOMAIN job'[b].asks = {}
  BY <1>2 DEF Control
<1>9. DOMAIN job'["wifi"].asks = {}
  BY <1>2, <1>5 DEF Control, Taking
<1>10. ~Loading'
  <2>1. WellFormed(todo'["bus"])
    BY <1>3, <1>5
  <2>2. todo'["bus"] # <<>> => Head(todo'["bus"]) = todo'["bus"][1] /\ 1 \in 1 .. Len(todo'["bus"])
    BY <2>1, HeadTailProperties, EmptySeq, LenProperties DEF WellFormed
  <2> QED
    BY <1>4, <1>5, <2>2 DEF Loading, BootOps
<1> QED
  BY <1>1, <1>3, <1>4, <1>6, <1>7, <1>8, <1>9, <1>10 DEF Control

LEMMA AdvancedControl ==
    ASSUME Typed, Control, NEW a \in Actors, todo[a] # <<>>, NEW F, Advanced(a, F)
    PROVE  Control'
<1> DEFINE s == todo[a]
           R == todo'[a]
           h == todo[a][1]
<1>1. /\ Follows(s, F, R) /\ UNCHANGED <<job, up>>
      /\ \A b \in Actors \ {a} : todo'[b] = todo[b]
  BY DEF Advanced
<1>2. WellFormed(R) /\ h \in Steps /\ \A i \in 1 .. Len(R) : FromFront(h, R, i) \/ FromRest(s, R, i)
  BY <1>1 DEF Follows
<1>3. /\ up \/ a = "bus"
      /\ h.op \in BootOps => ~up
      /\ Loading => a = "bus"
      /\ a = "wifi" => h.f = "dcl" /\ h.op \notin BootOps
  BY Alone
<1>4. "bus" \in Actors /\ "wifi" \in Actors /\ "webconfig" \in Actors
  BY DEF Actors
<1>5. \A b \in Actors : WellFormed(todo'[b])
  BY <1>1, <1>2 DEF Control
<1>6. \A i \in 1 .. Len(todo'["wifi"]) : todo'["wifi"][i].f = "dcl"
  <2>1. CASE a = "wifi"
    <3>1. h.op \notin {"update", "agent", "agentBoot"}
      BY <1>2, <1>3, <2>1 DEF Steps, BootOps
    <3>2. \A j \in 2 .. Len(s) : s[j].f = "dcl"
      <4>1. \A j \in 1 .. Len(s) : s[j].f = "dcl"
        BY <2>1 DEF Control
      <4>2. \A j \in 2 .. Len(s) : j \in 1 .. Len(s)
        BY JobFacts, LenProperties
      <4> QED
        BY <4>1, <4>2
    <3>3. \A i \in 1 .. Len(R) : R[i].f = "dcl"
      BY <1>2, <3>1, <3>2 DEF FromFront, FromRest, Writing
    <3> QED
      BY <2>1, <3>3
  <2>2. CASE a # "wifi"
    BY <1>1, <1>4, <2>2 DEF Control
  <2> QED
    BY <2>1, <2>2
<1>7. ASSUME up', NEW b \in Actors, NEW i \in 1 .. Len(todo'[b])
      PROVE  todo'[b][i].op \notin BootOps
  <2>1. CASE b = a
    <3>1. h.op # "dclBoot"
      BY <1>1, <1>3, <1>7 DEF BootOps
    <3>2. \A j \in 2 .. Len(s) : s[j].op \notin BootOps
      <4>1. \A j \in 1 .. Len(s) : s[j].op \notin BootOps
        BY <1>1, <1>7 DEF Control
      <4>2. \A j \in 2 .. Len(s) : j \in 1 .. Len(s)
        BY JobFacts, LenProperties
      <4> QED
        BY <4>1, <4>2
    <3> QED
      BY <1>2, <1>7, <2>1, <3>1, <3>2 DEF FromFront, FromRest, Writing
  <2>2. CASE b # a
    BY <1>1, <1>7, <2>2 DEF Control
  <2> QED
    BY <2>1, <2>2
<1>8. ~up' => todo'["webconfig"] = <<>> /\ todo'["wifi"] = <<>> /\ \A b \in Actors : ~job'[b].busy
  BY <1>1, <1>3, <1>4 DEF Control
<1>9. \A b \in Actors : todo'[b] # <<>> => job'[b].busy \/ (b = "bus" /\ ~up')
  BY <1>1 DEF Control
<1>10. ~Loading'
  <2>1. CASE a = "bus"
    <3>1. R # <<>> => Head(R) = R[1] /\ Goes(h, F, R)
      BY <1>1 DEF Follows
    <3>2. R # <<>> => R[1].op # "load"
      BY <3>1, NewHead
    <3> QED
      BY <2>1, <3>1, <3>2 DEF Loading
  <2>2. CASE a # "bus"
    BY <1>1, <1>3, <1>4, <2>2 DEF Loading
  <2> QED
    BY <2>1, <2>2
<1>11. (\A b \in Actors : ~job'[b].busy => DOMAIN job'[b].asks = {}) /\ DOMAIN job'["wifi"].asks = {}
  BY <1>1 DEF Control
<1> QED
  BY <1>5, <1>6, <1>7, <1>8, <1>9, <1>10, <1>11 DEF Control

LEMMA AbandonedControl ==
    ASSUME Typed, Control, NEW a \in Actors, todo[a] # <<>>, Abandoned(a)
    PROVE  Control'
<1>1. /\ todo'[a] = <<>> /\ ~job'[a].busy /\ DOMAIN job'[a].asks = {} /\ up'
      /\ \A b \in Actors \ {a} : todo'[b] = todo[b] /\ job'[b] = job[b]
  BY NoJobFacts DEF Abandoned
<1>2. "bus" \in Actors /\ "wifi" \in Actors /\ "webconfig" \in Actors
  BY DEF Actors
<1>3. WellFormed(<<>>) /\ Len(<<>>) = 0
  BY EmptySeq DEF WellFormed
<1>4. \A b \in Actors : WellFormed(todo'[b])
  BY <1>1, <1>3 DEF Control
<1>5. \A i \in 1 .. Len(todo'["wifi"]) : todo'["wifi"][i].f = "dcl"
  BY <1>1, <1>2, <1>3 DEF Control
<1>6. up \/ a = "bus"
  BY Alone
<1>7. ASSUME NEW b \in Actors, NEW i \in 1 .. Len(todo'[b])
      PROVE  todo'[b][i].op \notin BootOps
  <2>1. b # a /\ todo'[b] = todo[b]
    BY <1>1, <1>3, <1>7
  <2>2. CASE up
    BY <1>7, <2>1, <2>2 DEF Control
  <2>3. CASE ~up
    <3>1. todo[b] = <<>>
      BY <1>6, <2>1, <2>3 DEF Control, Actors
    <3> QED
      BY <1>3, <1>7, <2>1, <3>1
  <2> QED
    BY <2>2, <2>3
<1>8. \A b \in Actors : todo'[b] # <<>> => job'[b].busy
  BY <1>1, <1>6 DEF Control
<1>9. (\A b \in Actors : ~job'[b].busy => DOMAIN job'[b].asks = {}) /\ DOMAIN job'["wifi"].asks = {}
  BY <1>1, <1>2 DEF Control
<1>10. ~Loading'
  <2>1. todo'["bus"] # <<>> => a # "bus" /\ todo'["bus"] = todo["bus"]
    BY <1>1, <1>2
  <2>2. Loading => a = "bus"
    BY Alone
  <2> QED
    BY <2>1, <2>2 DEF Loading
<1> QED
  BY <1>1, <1>4, <1>5, <1>7, <1>8, <1>9, <1>10 DEF Control

LEMMA AnsweredControl ==
    ASSUME Typed, Control, NEW a \in Actors, Answered(a)
    PROVE  Control'
<1>1. /\ todo[a] = <<>> /\ ~job'[a].busy /\ DOMAIN job'[a].asks = {} /\ up' /\ todo' = todo
      /\ \A b \in Actors \ {a} : job'[b] = job[b]
  BY NoJobFacts DEF Answered
<1>2. up \/ a = "bus"
  BY DEF Answered, Control
<1>3. "bus" \in Actors /\ "wifi" \in Actors /\ "webconfig" \in Actors
  BY DEF Actors
<1>4. ASSUME NEW b \in Actors, NEW i \in 1 .. Len(todo'[b])
      PROVE  todo'[b][i].op \notin BootOps
  <2>1. CASE up
    BY <1>1, <1>4, <2>1 DEF Control
  <2>2. CASE ~up
    <3>1. todo[b] = <<>>
      BY <1>1, <1>2, <2>2 DEF Control, Actors
    <3> QED
      BY <1>1, <1>4, <3>1, EmptySeq
  <2> QED
    BY <2>1, <2>2
<1>5. \A b \in Actors : todo'[b] # <<>> => job'[b].busy
  BY <1>1, <1>2 DEF Control
<1>6. (\A b \in Actors : ~job'[b].busy => DOMAIN job'[b].asks = {}) /\ DOMAIN job'["wifi"].asks = {}
  BY <1>1, <1>3 DEF Control
<1>7. /\ \A b \in Actors : WellFormed(todo'[b])
      /\ \A i \in 1 .. Len(todo'["wifi"]) : todo'["wifi"][i].f = "dcl"
      /\ Loading' => todo'["bus"] = CosaSecurityInitialize
  BY <1>1 DEF Control, Loading
<1> QED
  BY <1>1, <1>4, <1>5, <1>6, <1>7 DEF Control

LEMMA ControlStep ==
    ASSUME Typed, Control, Moves
    PROVE  Control'
<1>1. ASSUME Rebooted PROVE Control'
  <2>1. /\ todo'["bus"] = CosaSecurityInitialize /\ \A a \in Actors \ {"bus"} : todo'[a] = <<>>
        /\ \A a \in Actors : WellFormed(todo'[a])
        /\ \A a \in Actors : ~job'[a].busy /\ DOMAIN job'[a].asks = {}
    BY <1>1, Rebooting
  <2>2. ~up'
    BY <1>1 DEF Rebooted
  <2>3. todo'["wifi"] = <<>> /\ todo'["webconfig"] = <<>> /\ Len(<<>>) = 0
    BY <2>1, EmptySeq DEF Actors
  <2>4. \A i \in 1 .. Len(todo'["wifi"]) : todo'["wifi"][i].f = "dcl"
    BY <2>3
  <2>5. DOMAIN job'["wifi"].asks = {}
    BY <2>1 DEF Actors
  <2>6. \A a \in Actors : todo'[a] # <<>> => job'[a].busy \/ (a = "bus" /\ ~up')
    BY <2>1, <2>2
  <2> QED
    BY <2>1, <2>2, <2>3, <2>4, <2>5, <2>6 DEF Control
<1>2. ASSUME Passes PROVE Control'
  BY <1>2 DEF Passes, Control, Loading
<1> QED
  BY <1>1, <1>2, TakingControl, AdvancedControl, AbandonedControl, AnsweredControl DEF Moves

-----------------------------------------------------------------------------
(* One setter or blob at a time.                                            *)

LEMMA ExclusiveStep ==
    ASSUME Typed, Control, Exclusive, Serialised, Moves
    PROVE  Exclusive'
<1>0. "bus" \in Actors /\ "wifi" \in Actors /\ "webconfig" \in Actors
  BY DEF Actors
<1>1. ASSUME NEW a \in Actors, NEW asks, NEW s, Taking(a, asks, s) PROVE Exclusive'
  <2>1. /\ \A b \in Actors \ {a} : job'[b] = job[b]
        /\ a # "wifi" => ~job["bus"].busy /\ ~job["webconfig"].busy
        /\ ~faults'.overlap => ~faults.overlap /\ \A b \in Actors : job[b].busy => a # "wifi" /\ b # "wifi"
    BY <1>1 DEF Taking, Idle
  <2>2. ~(job'["bus"].busy /\ job'["webconfig"].busy)
    BY <1>0, <2>1 DEF Exclusive
  <2>3. ASSUME ~faults'.overlap, NEW b \in Actors, job'["wifi"].busy, job'[b].busy
        PROVE  b = "wifi"
    <3>1. CASE a = "wifi"
      BY <2>1, <2>3, <3>1
    <3>2. CASE a # "wifi"
      BY <1>0, <2>1, <2>3, <3>2
    <3> QED
      BY <3>1, <3>2
  <2> QED
    BY <2>2, <2>3 DEF Exclusive
<1>2. ASSUME \A b \in Actors : job'[b].busy => job[b].busy,
             ~faults'.overlap => ~faults.overlap
      PROVE  Exclusive'
  BY <1>0, <1>2 DEF Exclusive
<1>3. ASSUME NEW a \in Actors, NEW F, Advanced(a, F) PROVE Exclusive'
  BY <1>2, <1>3 DEF Advanced, FaultsGrow
<1>4. ASSUME NEW a \in Actors, Abandoned(a) PROVE Exclusive'
  BY <1>2, <1>4, NoJobFacts DEF Abandoned, FaultsGrow
<1>5. ASSUME NEW a \in Actors, Answered(a) PROVE Exclusive'
  BY <1>2, <1>5, NoJobFacts DEF Answered
<1>6. ASSUME Rebooted PROVE Exclusive'
  BY <1>2, <1>6, Rebooting DEF Rebooted, FaultsGrow
<1>7. ASSUME Passes PROVE Exclusive'
  BY <1>2, <1>7 DEF Passes
<1> QED
  BY <1>1, <1>3, <1>4, <1>5, <1>6, <1>7 DEF Moves

(* Of two handlers under way one is the event callback.                     *)
LEMMA Companions ==
    ASSUME Typed, Control, Exclusive, NEW a \in Actors, NEW b \in Actors, a # b, todo[a] # <<>>
    PROVE  /\ todo[b] # <<>> => a = "wifi" \/ b = "wifi"
           /\ DOMAIN job[b].asks # {} => a = "wifi" /\ b # "wifi"
           /\ ~faults.overlap => todo[b] = <<>>
<1>1. (up \/ a = "bus") /\ (up => job[a].busy)
  BY Alone
<1>2. todo[b] # <<>> => up /\ job[b].busy
  BY <1>1 DEF Control, Actors
<1>3. DOMAIN job[b].asks # {} => up /\ job[b].busy /\ b # "wifi"
  BY DEF Control
<1> QED
  BY <1>1, <1>2, <1>3 DEF Exclusive, Actors

-----------------------------------------------------------------------------
(* A handler writes what it was asked for.                                  *)

LEMMA AimedHead ==
    ASSUME Typed, Aimed, NEW a \in Actors, todo[a] # <<>>
    PROVE  LET h == todo[a][1]
           IN  /\ h.op \in Writes /\ h.f # "dcl" =>
                    h.v = IF h.f \in DOMAIN job[a].asks THEN job[a].asks[h.f] ELSE mem[h.f]
               /\ Lone(todo[a], 1) => "fp" \notin DOMAIN job[a].asks
  BY JobFacts DEF Aimed

(* What a step leaves of the switches that a handler was not asked for.     *)
LEMMA Spared ==
    ASSUME Typed, Control, Aimed, NEW a \in Actors, todo[a] # <<>>, NEW F, Advanced(a, F), todo[a][1].op # "load"
    PROVE  /\ \A f \in Features \ DOMAIN job[a].asks : f # "dcl" => mem'[f] = mem[f]
           /\ a = "wifi" => \A f \in Features : f # "dcl" => mem'[f] = mem[f]
<1> DEFINE h == todo[a][1]
<1>1. \A f \in Features \ {"dcl"} : mem'[f] = IF h.op = "mem" /\ h.f = f THEN h.v ELSE mem[f]
  BY DEF Advanced, SwitchEffect
<1>2. h.op = "mem" /\ h.f # "dcl" => h.v = IF h.f \in DOMAIN job[a].asks THEN job[a].asks[h.f] ELSE mem[h.f]
  BY AimedHead DEF Writes
<1>3. a = "wifi" => h.f = "dcl"
  BY Alone
<1> HIDE DEF h
<1> QED
  BY <1>1, <1>2, <1>3

LEMMA AdvancedAimed ==
    ASSUME Typed, Control, Exclusive, Aimed, NEW a \in Actors, todo[a] # <<>>, NEW F, Advanced(a, F)
    PROVE  Aimed'
<1> DEFINE s == todo[a]
           h == todo[a][1]
<1>1. /\ Follows(s, F, todo'[a]) /\ UNCHANGED <<job, up>>
      /\ \A b \in Actors \ {a} : todo'[b] = todo[b]
  BY DEF Advanced
<1>2. h \in Steps /\ \A i \in 1 .. Len(todo'[a]) : FromFront(h, todo'[a], i) \/ FromRest(s, todo'[a], i)
  BY <1>1 DEF Follows
<1>3. \A j \in 2 .. Len(s) : j \in 1 .. Len(s)
  BY JobFacts, LenProperties
<1>4. ASSUME NEW b \in Actors, NEW i \in 1 .. Len(todo'[b])
      PROVE  LET x == todo'[b][i]
             IN  /\ x.op \in Writes /\ x.f # "dcl" =>
                      x.v = IF x.f \in DOMAIN job'[b].asks THEN job'[b].asks[x.f] ELSE mem'[x.f]
                 /\ Lone(todo'[b], i) => "fp" \notin DOMAIN job'[b].asks
  <2> DEFINE x == todo'[b][i]
             asks == job[b].asks
  <2>0. job'[b].asks = asks
    BY <1>1
  <2>1. CASE b # a
    <3>1. todo'[b] = todo[b] /\ x = todo[b][i] /\ i \in 1 .. Len(todo[b])
      BY <1>1, <1>4, <2>1
    <3>2. /\ x.op \in Writes /\ x.f # "dcl" => x.v = IF x.f \in DOMAIN asks THEN asks[x.f] ELSE mem[x.f]
          /\ Lone(todo[b], i) => "fp" \notin DOMAIN asks
      BY <3>1 DEF Aimed
    <3>3. todo[b] # <<>> /\ x \in Steps
      <4>1. todo[b] \in Seq(Steps)
        BY JobFacts
      <4> QED
        BY <3>1, <4>1, EmptySeq, ElementOfSeq
    <3>4. b = "wifi" => x.f = "dcl"
      BY <3>1 DEF Control
    <3>5. x.f \in Features
      BY <3>3, FieldsOfSteps
    <3>6. a = "wifi" /\ x.f # "dcl" => mem'[x.f] = mem[x.f]
      <4>1. a = "wifi" => h.op # "load"
        BY Alone DEF BootOps
      <4> QED
        BY <3>5, <4>1, Spared
    <3>7. a = "wifi" \/ b = "wifi"
      BY <2>1, <3>3, Companions
    <3> HIDE DEF x, asks
    <3>8. /\ x.op \in Writes /\ x.f # "dcl" => x.v = IF x.f \in DOMAIN asks THEN asks[x.f] ELSE mem'[x.f]
          /\ Lone(todo'[b], i) => "fp" \notin DOMAIN asks
      BY <3>1, <3>2, <3>4, <3>6, <3>7
    <3> QED
      BY <2>0, <3>8 DEF x
  <2>2. CASE b = a /\ h.op = "load"
    <3>1. todo[a] = CosaSecurityInitialize
      <4>1. a = "bus" /\ Head(todo[a]) = h
        BY <2>2, Alone, JobFacts DEF BootOps
      <4> QED
        BY <2>2, <4>1 DEF Control, Loading
    <3>2. \A j \in 1 .. Len(s) : s[j].op \notin Writes /\ ~Lone(s, j)
      BY <3>1, BootHandler
    <3>3. FromFront(h, todo'[a], i) => x.op \notin Writes \/ x.f = "dcl"
      BY <2>2 DEF FromFront, Writing
    <3>4. FromFront(h, todo'[a], i) => ~Lone(todo'[a], i)
      BY DEF FromFront
    <3>5. FromRest(s, todo'[a], i) => x.op \notin Writes /\ ~Lone(todo'[a], i)
      BY <1>3, <2>2, <3>2 DEF FromRest
    <3>6. i \in 1 .. Len(todo'[a])
      BY <1>4, <2>2
    <3> QED
      BY <1>2, <2>2, <3>3, <3>4, <3>5, <3>6
  <2>3. CASE b = a /\ h.op # "load"
    <3>0. \A f \in Features \ DOMAIN asks : f # "dcl" => mem'[f] = mem[f]
      BY <2>3, Spared
    <3>1. CASE FromFront(h, todo'[a], i)
      <4>1. Writing(h, x) /\ ~Lone(todo'[a], i)
        BY <2>3, <3>1 DEF FromFront
      <4>2. ASSUME x.op \in Writes, x.f # "dcl"
            PROVE  x.v = IF x.f \in DOMAIN asks THEN asks[x.f] ELSE mem'[x.f]
        <5>1. \/ h.op \in {"update", "agent"} /\ x.f = h.f /\ x.v = h.v
              \/ h.op = "agentBoot" /\ mem["fp"] /\ x.f = "fp" /\ x.v = TRUE
          BY <4>1, <4>2 DEF Writing
        <5>2. h.f \in Features
          BY <1>2, FieldsOfSteps
        <5>3. CASE h.op \in {"update", "agent"} /\ x.f = h.f /\ x.v = h.v
          <6>1. h.v = IF h.f \in DOMAIN asks THEN asks[h.f] ELSE mem[h.f]
            BY <2>3, <4>2, <5>3, AimedHead DEF Writes
          <6> HIDE DEF h, x, asks
          <6> QED
            BY <3>0, <4>2, <5>2, <5>3, <6>1
        <5>4. CASE h.op = "agentBoot" /\ mem["fp"] /\ x.f = "fp" /\ x.v = TRUE
          <6>1. DOMAIN asks = {}
            BY <2>3, <5>4, Alone DEF BootOps, Control
          <6>2. mem["fp"] = TRUE /\ "fp" \in Features
            BY <5>4, KnownFeatures DEF Typed, DataTyped
          <6> HIDE DEF h, x, asks
          <6> QED
            BY <3>0, <5>4, <6>1, <6>2
        <5> QED
          BY <5>1, <5>3, <5>4
      <4> QED
        BY <2>0, <2>3, <4>1, <4>2
    <3>2. CASE FromRest(s, todo'[a], i)
      <4>1. PICK j \in 2 .. Len(s) : x = s[j] /\ (Lone(todo'[a], i) <=> Lone(s, j))
        BY <2>3, <3>2 DEF FromRest
      <4>2. j \in 1 .. Len(s)
        BY <1>3, <4>1
      <4>3. /\ x.op \in Writes /\ x.f # "dcl" => x.v = IF x.f \in DOMAIN asks THEN asks[x.f] ELSE mem[x.f]
            /\ Lone(s, j) => "fp" \notin DOMAIN asks
        BY <2>3, <4>1, <4>2 DEF Aimed
      <4>4. x.f \in Features
        <5>1. s \in Seq(Steps)
          BY JobFacts
        <5>2. x \in Steps
          BY <4>1, <4>2, <5>1, ElementOfSeq
        <5> QED
          BY <5>2, FieldsOfSteps
      <4> HIDE DEF x, asks
      <4>5. x.op \in Writes /\ x.f # "dcl" => x.v = IF x.f \in DOMAIN asks THEN asks[x.f] ELSE mem'[x.f]
        BY <3>0, <4>3, <4>4
      <4> QED
        BY <2>0, <2>3, <4>1, <4>3, <4>5 DEF x
    <3> QED
      BY <1>2, <1>4, <2>3, <3>1, <3>2
  <2> QED
    BY <2>1, <2>2, <2>3
<1> QED
  BY <1>4 DEF Aimed

LEMMA AimedStep ==
    ASSUME Typed, Control, Exclusive, Aimed, Moves
    PROVE  Aimed'
<1>0. Len(<<>>) = 0
  BY EmptySeq
<1>1. ASSUME NEW a \in Actors, NEW asks, NEW s, Taking(a, asks, s) PROVE Aimed'
  <2>1. /\ job'[a].asks = asks /\ todo'[a] = s /\ mem' = mem
        /\ \A b \in Actors \ {a} : todo'[b] = todo[b] /\ job'[b] = job[b]
    BY <1>1 DEF Taking
  <2>2. \A i \in 1 .. Len(s) :
          /\ s[i].op \in Writes /\ s[i].f # "dcl" =>
               s[i].v = IF s[i].f \in DOMAIN asks THEN asks[s[i].f] ELSE mem[s[i].f]
          /\ Lone(s, i) => "fp" \notin DOMAIN asks
    BY <1>1 DEF Taking, Handler
  <2>3. ASSUME NEW b \in Actors, NEW i \in 1 .. Len(todo'[b])
        PROVE  LET x == todo'[b][i]
               IN  /\ x.op \in Writes /\ x.f # "dcl" =>
                        x.v = IF x.f \in DOMAIN job'[b].asks THEN job'[b].asks[x.f] ELSE mem'[x.f]
                   /\ Lone(todo'[b], i) => "fp" \notin DOMAIN job'[b].asks
    <3>1. CASE b = a
      BY <2>1, <2>2, <2>3, <3>1
    <3>2. CASE b # a
      BY <2>1, <2>3, <3>2 DEF Aimed
    <3> QED
      BY <3>1, <3>2
  <2> QED
    BY <2>3 DEF Aimed
<1>2. ASSUME NEW a \in Actors, todo'[a] = <<>>, mem' = mem,
             \A b \in Actors \ {a} : todo'[b] = todo[b] /\ job'[b] = job[b]
      PROVE  Aimed'
  <2>1. ASSUME NEW b \in Actors, NEW i \in 1 .. Len(todo'[b])
        PROVE  b # a
    BY <1>0, <1>2, <2>1
  <2> QED
    BY <1>2, <2>1 DEF Aimed
<1>3. ASSUME NEW a \in Actors, Abandoned(a) PROVE Aimed'
  BY <1>2, <1>3 DEF Abandoned
<1>4. ASSUME NEW a \in Actors, Answered(a) PROVE Aimed'
  BY <1>2, <1>4 DEF Answered
<1>5. ASSUME Rebooted PROVE Aimed'
  <2>1. todo'["bus"] = CosaSecurityInitialize /\ \A a \in Actors \ {"bus"} : todo'[a] = <<>>
    BY <1>5, Rebooting
  <2>2. \A a \in Actors : \A i \in 1 .. Len(todo'[a]) : todo'[a][i].op \notin Writes /\ ~Lone(todo'[a], i)
    <3> TAKE a \in Actors
    <3> TAKE i \in 1 .. Len(todo'[a])
    <3>1. a = "bus"
      BY <1>0, <2>1
    <3> QED
      BY <2>1, <3>1, BootHandler
  <2> QED
    BY <2>2 DEF Aimed
<1>6. ASSUME Passes PROVE Aimed'
  BY <1>6 DEF Passes, Aimed
<1> QED
  BY <1>1, <1>3, <1>4, <1>5, <1>6, AdvancedAimed DEF Moves

-----------------------------------------------------------------------------
(* The values of a switch.                                                  *)

(* Which steps lead into the middle of the writes to a switch.              *)
LEMMA HeadMoves ==
    ASSUME NEW s, NEW F, NEW R, Follows(s, F, R), Continues(s[1], F)
    PROVE  /\ s[1].op = "set" => R # <<>> /\ Is(R[1], "commit", s[1].f, s[1].v)
           /\ s[1].op = "commit" /\ s[1].f # "fp" => R # <<>> /\ Is(R[1], "mem", s[1].f, s[1].v)
           /\ s[1].op = "mem" /\ s[1].f = "fp" =>
                \/ R = <<>> /\ Lone(s, 1)
                \/ R # <<>> /\ Is(R[1], "set", "fp", s[1].v)
           /\ R # <<>> /\ R[1].op = "commit" => s[1].op = "set" /\ s[1].f = R[1].f
           /\ R # <<>> /\ R[1].op = "mem" /\ R[1].f # "fp" => s[1].op = "commit" /\ s[1].f = R[1].f
           /\ R # <<>> /\ R[1].op = "set" /\ R[1].f = "fp" => s[1].op = "mem" /\ s[1].f = "fp"
<1> DEFINE h == s[1]
           y == R[1]
<1>1. /\ R # <<>> => \/ F # <<>> /\ Opens(h, y)
                     \/ F = <<>> /\ Leads(h, y)
                     \/ F = <<>> /\ ~Bound(h) /\ Is(y, "mem", "fp", TRUE)
      /\ R = <<>> => F = <<>> /\ (~Bound(h) \/ (Lone(s, 1) /\ Is(h, "mem", "fp", TRUE)))
  <2>1. /\ R # <<>> => Goes(s[1], F, R)
        /\ R = <<>> => F = <<>> /\ (~Bound(s[1]) \/ Lone(s, 1))
    BY DEF Follows
  <2>2. /\ Lone(R, 1) => Is(R[1], "mem", "fp", TRUE)
        /\ Lone(s, 1) => Is(s[1], "mem", "fp", TRUE)
    BY DEF Lone
  <2> QED
    BY <2>1, <2>2 DEF Goes
<1>2. h.op \in {"set", "commit", "mem"} => F = <<>>
  BY DEF Continues
<1> HIDE DEF h, y
<1>3. h.op \in {"set", "commit"} /\ (h.op = "commit" => h.f # "fp") => Bound(h) /\ ~Is(h, "mem", "fp", TRUE)
  BY DEF Bound, Is
<1>4. h.op = "mem" /\ h.f = "fp" => Bound(h)
  BY DEF Bound
<1>5. ASSUME R # <<>>, Leads(h, y)
      PROVE  /\ h.op = "set" => Is(y, "commit", h.f, h.v)
             /\ h.op = "commit" /\ h.f # "fp" => Is(y, "mem", h.f, h.v)
             /\ h.op = "mem" /\ h.f = "fp" => Is(y, "set", "fp", h.v)
  BY <1>5 DEF Leads
<1>6. ASSUME Entry(y)
      PROVE  y.op # "commit" /\ y.op # "mem" /\ ~(y.op = "set" /\ y.f = "fp")
  BY <1>6 DEF Entry, EntryOps
<1>7. ASSUME Leads(h, y)
      PROVE  /\ y.op = "commit" => h.op = "set" /\ h.f = y.f
             /\ y.op = "mem" /\ y.f # "fp" => h.op = "commit" /\ h.f = y.f
             /\ y.op = "set" /\ y.f = "fp" => h.op = "mem" /\ h.f = "fp"
  BY <1>6, <1>7 DEF Leads, Bound, Is
<1>8. ASSUME Opens(h, y)
      PROVE  y.op # "commit" /\ y.op # "mem" /\ ~(y.op = "set" /\ y.f = "fp")
  BY <1>6, <1>8 DEF Opens
<1>9. /\ h.op = "set" => R # <<>> /\ Is(y, "commit", h.f, h.v)
      /\ h.op = "commit" /\ h.f # "fp" => R # <<>> /\ Is(y, "mem", h.f, h.v)
      /\ h.op = "mem" /\ h.f = "fp" =>
           \/ R = <<>> /\ Lone(s, 1)
           \/ R # <<>> /\ Is(y, "set", "fp", h.v)
  BY <1>1, <1>2, <1>3, <1>4, <1>5
<1>10. /\ R # <<>> /\ y.op = "commit" => h.op = "set" /\ h.f = y.f
       /\ R # <<>> /\ y.op = "mem" /\ y.f # "fp" => h.op = "commit" /\ h.f = y.f
       /\ R # <<>> /\ y.op = "set" /\ y.f = "fp" => h.op = "mem" /\ h.f = "fp"
  BY <1>1, <1>7, <1>8 DEF Is
<1> QED
  BY <1>9, <1>10 DEF h, y

(* The values of f have been asked for, or were there before.               *)
Covered(f) == flash'[f] \in promised[f] /\ cfg'[f] \in promised[f] /\ mem'[f] \in promised[f]

LEMMA AdvancedValues ==
    ASSUME Typed, Control, Exclusive, Aimed, NEW a \in Actors, todo[a] # <<>>, NEW F, Advanced(a, F),
           NEW f \in Features \ {"dcl"}, Kept(f), \A b \in Actors \ {a} : ~Moving(b, f)
    PROVE  /\ Moving(a, f)' => Moved(a, f)'
           /\ Same(f) /\ ~Moving(a, f)' => (faults.cut \/ cfg'[f] = flash'[f]) /\ mem'[f] = cfg'[f]
           /\ Covered(f)
<1> DEFINE s == todo[a]
           R == todo'[a]
           h == todo[a][1]
           y == todo'[a][1]
<1>1. /\ s[1].op = "set" => R # <<>> /\ Is(R[1], "commit", s[1].f, s[1].v)
      /\ s[1].op = "commit" /\ s[1].f # "fp" => R # <<>> /\ Is(R[1], "mem", s[1].f, s[1].v)
      /\ s[1].op = "mem" /\ s[1].f = "fp" =>
           \/ R = <<>> /\ Lone(s, 1)
           \/ R # <<>> /\ Is(R[1], "set", "fp", s[1].v)
      /\ R # <<>> /\ R[1].op = "commit" => s[1].op = "set" /\ s[1].f = R[1].f
      /\ R # <<>> /\ R[1].op = "mem" /\ R[1].f # "fp" => s[1].op = "commit" /\ s[1].f = R[1].f
      /\ R # <<>> /\ R[1].op = "set" /\ R[1].f = "fp" => s[1].op = "mem" /\ s[1].f = "fp"
  BY HeadMoves DEF Advanced
<1>2. /\ mem'[f] = IF h.op = "mem" /\ h.f = f THEN h.v ELSE IF h.op = "load" THEN cfg[f] ELSE mem[f]
      /\ cfg'[f] = IF h.op = "set" /\ h.f = f THEN h.v ELSE cfg[f]
      /\ \/ h.op # "commit" /\ flash'[f] = flash[f]
         \/ h.op \in {"commit", "dclBoot"} /\ flash'[f] = cfg[f]
  BY DEF Advanced, SwitchEffect
<1>3. Head(s) = h /\ (R # <<>> => Head(R) = y)
  BY DEF Advanced, Follows
<1>4. Moving(a, f) <=> h.f = f /\ h.op \in (IF f = "fp" THEN {"set", "commit"} ELSE {"commit", "mem"})
  BY <1>3 DEF Moving, Feature
<1>5. Moving(a, f)' <=> R # <<>> /\ y.f = f /\ y.op \in (IF f = "fp" THEN {"set", "commit"} ELSE {"commit", "mem"})
  BY <1>3 DEF Moving, Feature
<1>6. Moved(a, f) <=> IF f = "fp" THEN mem[f] = h.v /\ (h.op = "commit" => cfg[f] = h.v)
                                  ELSE cfg[f] = h.v /\ (h.op = "mem" => flash[f] = h.v)
  BY <1>3 DEF Moved, Value, Doing
<1>7. R # <<>> =>
        (Moved(a, f)' <=> IF f = "fp" THEN mem'[f] = y.v /\ (y.op = "commit" => cfg'[f] = y.v)
                                      ELSE cfg'[f] = y.v /\ (y.op = "mem" => flash'[f] = y.v))
  BY <1>3 DEF Moved, Value, Doing
<1>8. Loading => h.op = "load"
  BY Alone
<1>9. /\ Moving(a, f) => Moved(a, f)
      /\ Same(f) /\ ~Moving(a, f) => (faults.cut \/ cfg[f] = flash[f]) /\ (Loading \/ mem[f] = cfg[f])
      /\ flash[f] \in promised[f] /\ cfg[f] \in promised[f] /\ (Loading \/ mem[f] \in promised[f])
  BY DEF Kept, Same
<1>10. h.op \in {"set", "commit", "mem"} /\ h.f = f => h.v \in promised[f]
  <2> SUFFICES ASSUME h.op \in {"set", "commit", "mem"}, h.f = f PROVE h.v \in promised[f]
    OBVIOUS
  <2>1. h.v = IF f \in DOMAIN job[a].asks THEN job[a].asks[f] ELSE mem[f]
    BY AimedHead DEF Writes
  <2>2. f \in DOMAIN job[a].asks => job[a].asks[f] \in promised[f]
    BY DEF Kept
  <2> QED
    BY <1>8, <1>9, <2>1, <2>2
<1>11. h.op = "mem" /\ h.f = "fp" /\ Lone(s, 1) => h.v = mem["fp"]
  BY AimedHead DEF Writes, Lone, Is
<1> HIDE DEF h, y, s, R
<1>12. Covered(f)
  BY <1>2, <1>8, <1>9, <1>10 DEF Covered
<1>13. CASE h.op = "set" /\ h.f = f
  <2>1. R # <<>> /\ y.op = "commit" /\ y.f = f /\ y.v = h.v
    BY <1>1, <1>13 DEF Is, h, y, s, R
  <2>2. Moving(a, f)' /\ cfg'[f] = y.v /\ mem'[f] = mem[f]
    BY <1>2, <1>5, <1>13, <2>1
  <2>3. f = "fp" => mem[f] = h.v
    BY <1>4, <1>6, <1>9, <1>13
  <2> QED
    BY <1>7, <1>12, <2>1, <2>2, <2>3
<1>14. CASE h.op = "commit" /\ h.f = f
  <2>1. flash'[f] = cfg[f] /\ cfg'[f] = cfg[f] /\ mem'[f] = mem[f] /\ cfg[f] = h.v /\ (f = "fp" => mem[f] = h.v)
    BY <1>2, <1>4, <1>6, <1>9, <1>14
  <2>2. CASE f = "fp"
    <3>1. ~Moving(a, f)'
      BY <1>1, <1>5, <1>14, <2>2 DEF h, y, s, R
    <3> QED
      BY <1>12, <2>1, <2>2, <3>1
  <2>3. CASE f # "fp"
    <3>1. R # <<>> /\ y.op = "mem" /\ y.f = f /\ y.v = h.v
      BY <1>1, <1>14, <2>3 DEF Is, h, y, s, R
    <3>2. Moving(a, f)'
      BY <1>5, <2>3, <3>1
    <3> QED
      BY <1>7, <1>12, <2>1, <2>3, <3>1, <3>2
  <2> QED
    BY <2>2, <2>3
<1>15. CASE h.op = "mem" /\ h.f = f
  <2>1. flash'[f] = flash[f] /\ cfg'[f] = cfg[f] /\ mem'[f] = h.v
    BY <1>2, <1>15
  <2>2. CASE f = "fp"
    <3>1. Same(f) => (faults.cut \/ cfg[f] = flash[f]) /\ mem[f] = cfg[f]
      BY <1>4, <1>8, <1>9, <1>15, <2>2
    <3>2. CASE R = <<>> /\ Lone(s, 1)
      <4>1. ~Moving(a, f)' /\ mem'[f] = mem[f]
        BY <1>5, <1>11, <1>15, <2>1, <2>2, <3>2
      <4> QED
        BY <1>12, <2>1, <3>1, <4>1
    <3>3. CASE R # <<>> /\ Is(y, "set", "fp", h.v)
      <4>1. Moving(a, f)' /\ y.op = "set" /\ y.v = h.v
        BY <1>5, <2>2, <3>3 DEF Is
      <4> QED
        BY <1>7, <1>12, <2>1, <2>2, <3>3, <4>1
    <3> QED
      BY <1>1, <1>15, <2>2, <3>2, <3>3 DEF h, y, s, R
  <2>3. CASE f # "fp"
    <3>1. cfg[f] = h.v /\ flash[f] = h.v
      BY <1>4, <1>6, <1>9, <1>15, <2>3
    <3>2. ~Moving(a, f)'
      BY <1>1, <1>5, <1>15, <2>3 DEF h, y, s, R
    <3> QED
      BY <1>12, <2>1, <3>1, <3>2
  <2> QED
    BY <2>2, <2>3
<1>16. CASE ~(h.op \in {"set", "commit", "mem"} /\ h.f = f)
  <2>1. ~Moving(a, f)
    BY <1>4, <1>16
  <2>2. Same(f) => (faults.cut \/ cfg[f] = flash[f]) /\ (h.op = "load" \/ mem[f] = cfg[f])
    BY <1>8, <1>9, <2>1
  <2>3. cfg'[f] = cfg[f] /\ flash'[f] \in {flash[f], cfg[f]} /\ (Same(f) => mem'[f] = cfg[f])
    BY <1>2, <1>16, <2>2
  <2>4. ~Moving(a, f)'
    BY <1>1, <1>5, <1>16 DEF h, y, s, R
  <2> QED
    BY <1>12, <2>2, <2>3, <2>4
<1> QED
  BY <1>13, <1>14, <1>15, <1>16

(* What was asked for is there, or is still to be written.                  *)
LEMMA AdvancedAsks ==
    ASSUME Typed, Control, Aimed, NEW a \in Actors, todo[a] # <<>>, NEW F, Advanced(a, F),
           NEW f \in Features \ {"dcl"}, Kept(f), f \in DOMAIN job[a].asks
    PROVE  Due(a, f)'
<1> DEFINE s == todo[a]
           R == todo'[a]
           h == todo[a][1]
           v == job[a].asks[f]
<1>1. Follows(s, F, R) /\ Continues(h, F) /\ SwitchEffect(h) /\ job' = job
  BY DEF Advanced
<1>2. h.op # "load"
  BY Alone DEF Control, BootOps
<1>3. /\ mem'[f] = IF h.op = "mem" /\ h.f = f THEN h.v ELSE mem[f]
      /\ cfg'[f] = IF h.op = "set" /\ h.f = f THEN h.v ELSE cfg[f]
      /\ \/ h.op # "commit" /\ flash'[f] = flash[f]
         \/ h.op \in {"commit", "dclBoot"} /\ flash'[f] = cfg[f]
  BY <1>1, <1>2 DEF SwitchEffect
<1>4. h.op \in Writes /\ h.f = f => h.v = v
  BY AimedHead
<1>5. /\ Pending(a, f)' <=> \E i \in 1 .. Len(R) : R[i].f = f /\ R[i].op \in Writes
      /\ Midway(a, f)' <=> \E i \in 1 .. Len(R) : R[i].f = f /\ R[i].op \in {"set", "commit", "mem"}
  BY DEF Pending, Midway
<1>6. Settled(f, v) \/ Midway(a, f) \/ (Pending(a, f) /\ mem[f] # v)
  BY DEF Kept, Due
<1>7. Due(a, f)' <=> \/ mem'[f] = v /\ cfg'[f] = v /\ flash'[f] = v
                     \/ Midway(a, f)'
                     \/ Pending(a, f)' /\ mem'[f] # v
  BY <1>1 DEF Due, Settled
<1>8. Head(s) = h
  BY <1>1 DEF Follows
<1>9. \A i \in 1 .. Len(s) : i # 1 => \E k \in 1 .. Len(R) : R[k] = s[i]
  <2> SUFFICES ASSUME NEW i \in 1 .. Len(s), i # 1 PROVE \E k \in 1 .. Len(R) : R[k] = s[i]
    OBVIOUS
  <2>1. i \in 2 .. Len(s)
    BY JobFacts, LenProperties
  <2> QED
    BY <1>1, <2>1 DEF Follows
<1>10. CASE h.f = f /\ h.op \in {"set", "commit", "mem"}
  <2>1. h.v = v
    BY <1>4, <1>10 DEF Writes
  <2>2. ASSUME R # <<>>, R[1].f = f, R[1].op \in {"set", "commit", "mem"} PROVE Due(a, f)'
    <3>1. 1 \in 1 .. Len(R)
      BY <1>1, <2>2 DEF Follows
    <3> QED
      BY <1>5, <1>7, <2>2, <3>1
  <2>3. CASE h.op = "set" \/ (h.op = "commit" /\ f # "fp")
    <3>1. R # <<>> /\ R[1].f = f /\ R[1].op \in {"commit", "mem"}
      BY <1>1, <1>10, <2>3, HeadMoves DEF Is
    <3> QED
      BY <2>2, <3>1
  <2>4. CASE h.op = "mem" /\ f = "fp"
    <3>1. ~Lone(s, 1)
      <4>1. 1 \in 1 .. Len(s)
        BY JobFacts
      <4> QED
        BY <2>4, <4>1 DEF Aimed
    <3>2. R # <<>> /\ R[1].f = f /\ R[1].op = "set"
      BY <1>1, <1>10, <2>4, <3>1, HeadMoves DEF Is
    <3> QED
      BY <2>2, <3>2
  <2>5. CASE (h.op = "commit" /\ f = "fp") \/ (h.op = "mem" /\ f # "fp")
    <3>1. Moving(a, f)
      BY <1>8, <1>10, <2>5 DEF Moving, Feature
    <3>2. Moved(a, f)
      BY <3>1 DEF Kept
    <3>3. IF f = "fp" THEN mem[f] = h.v /\ cfg[f] = h.v ELSE cfg[f] = h.v /\ flash[f] = h.v
      BY <1>8, <2>5, <3>2 DEF Moved, Value, Doing
    <3> QED
      BY <1>3, <1>7, <1>10, <2>1, <2>5, <3>3
  <2> QED
    BY <1>10, <2>3, <2>4, <2>5
<1>11. CASE ~(h.f = f /\ h.op \in {"set", "commit", "mem"})
  <2>1. mem'[f] = mem[f] /\ cfg'[f] = cfg[f] /\ flash'[f] \in {flash[f], cfg[f]}
    BY <1>3, <1>11
  <2>2. CASE Settled(f, v)
    BY <1>7, <2>1, <2>2 DEF Settled
  <2>3. CASE Midway(a, f)
    <3>1. PICK i \in 1 .. Len(s) : s[i].f = f /\ s[i].op \in {"set", "commit", "mem"}
      BY <2>3 DEF Midway
    <3>2. i # 1
      BY <1>11, <3>1
    <3> QED
      BY <1>5, <1>7, <1>9, <3>1, <3>2
  <2>4. CASE Pending(a, f) /\ mem[f] # v
    <3>1. PICK i \in 1 .. Len(s) : s[i].f = f /\ s[i].op \in Writes
      BY <2>4 DEF Pending
    <3>2. CASE i # 1
      BY <1>5, <1>7, <1>9, <2>1, <2>4, <3>1, <3>2
    <3>3. CASE i = 1
      <4>1. h.f = f /\ h.op \in {"update", "agent"}
        BY <1>11, <3>1, <3>3 DEF Writes
      <4>2. mem[f] # h.v
        BY <1>4, <2>4, <4>1 DEF Writes
      <4>3. F # <<>>
        <5>1. h \in Steps
          BY <1>1 DEF Follows
        <5>2. h.v \in BOOLEAN /\ h.f \in Features /\ (h.op = "update" => h.f # "fp")
          BY <5>1 DEF Steps
        <5>3. Len(<<>>) = 0
          BY EmptySeq
        <5>4. h.op = "update" => Save(h.f, h.v) # <<>>
          BY <5>2, <5>3, SaveChain
        <5>5. \A w \in BOOLEAN : Agent(w) # <<>>
          BY <5>3, AgentChain
        <5>6. (IF h.v THEN CosaAdvSecInit ELSE CosaAdvSecDeInit) # <<>>
          BY <5>2, <5>5 DEF Agent
        <5> QED
          BY <1>1, <4>1, <4>2, <5>4, <5>6 DEF Continues
      <4>4. \E k \in 1 .. Len(R) : R[k].f = h.f /\ R[k].op \in Writes
        BY <1>1, <4>1, <4>3 DEF Follows
      <4> QED
        BY <1>5, <1>7, <2>1, <2>4, <4>1, <4>4
    <3> QED
      BY <3>2, <3>3
  <2> QED
    BY <1>6, <2>2, <2>3, <2>4
<1> QED
  BY <1>10, <1>11

(* The event callback is never in the middle of another switch.             *)
LEMMA CallbackStill ==
    ASSUME Typed, Control, NEW f \in Features \ {"dcl"}
    PROVE  ~Moving("wifi", f)
<1>1. todo["wifi"] # <<>> => Head(todo["wifi"]) = todo["wifi"][1] /\ 1 \in 1 .. Len(todo["wifi"])
  BY JobFacts DEF Actors
<1> QED
  BY <1>1 DEF Moving, Feature, Control

LEMMA AdvancedKept ==
    ASSUME Typed, Control, Exclusive, Aimed, NEW a \in Actors, todo[a] # <<>>, NEW F, Advanced(a, F), Control', Typed',
           NEW f \in Features \ {"dcl"}, Kept(f)
    PROVE  Kept(f)'
<1> DEFINE h == todo[a][1]
<1>1. UNCHANGED <<job, up, promised>> /\ \A b \in Actors \ {a} : todo'[b] = todo[b]
  BY DEF Advanced
<1>2. \A b \in Actors \ {a} : (Moving(b, f)' <=> Moving(b, f))
  BY <1>1 DEF Moving, Feature
<1>3. ASSUME NEW b \in Actors, f \in DOMAIN job'[b].asks
      PROVE  job'[b].asks[f] \in promised'[f] /\ Due(b, f)'
  <2>1. f \in DOMAIN job[b].asks /\ job[b].asks[f] \in promised[f] /\ Due(b, f)
    BY <1>1, <1>3 DEF Kept
  <2>2. CASE b = a
    BY <1>1, <2>1, <2>2, AdvancedAsks
  <2>3. CASE b # a
    <3>1. a = "wifi"
      BY <2>1, <2>3, Companions
    <3>2. ~Loading /\ h.f = "dcl" /\ h.op # "load"
      BY <3>1, Alone DEF BootOps
    <3>3. mem'[f] = mem[f] /\ cfg'[f] = cfg[f] /\ (flash'[f] = flash[f] \/ flash'[f] = cfg[f])
      BY <3>2 DEF Advanced, SwitchEffect
    <3>4. (Pending(b, f) => Pending(b, f)') /\ (Midway(b, f) => Midway(b, f)')
      BY <1>1, <2>3 DEF Pending, Midway
    <3> QED
      BY <1>1, <2>1, <3>3, <3>4 DEF Due, Settled
  <2> QED
    BY <2>2, <2>3
<1>4. CASE a # "wifi"
  <2>1. \A b \in Actors \ {a} : ~Moving(b, f)
    <3> TAKE b \in Actors \ {a}
    <3>1. CASE b = "wifi"
      BY <3>1, CallbackStill
    <3>2. CASE b # "wifi"
      BY <1>4, <3>2, Companions DEF Moving
    <3> QED
      BY <3>1, <3>2
  <2>2. /\ Moving(a, f)' => Moved(a, f)'
        /\ Covered(f)
    BY <2>1, AdvancedValues
  <2>3. \A b \in Actors : Moving(b, f)' => Moved(b, f)'
    BY <1>2, <2>1, <2>2
  <2> QED
    BY <1>1, <1>3, <2>2, <2>3 DEF Kept, Covered
<1>5. CASE a = "wifi"
  <2>1. ~Loading /\ h.f = "dcl" /\ h.op # "load"
    BY <1>5, Alone DEF BootOps
  <2>2. mem'[f] = mem[f] /\ cfg'[f] = cfg[f] /\ (flash'[f] = flash[f] \/ flash'[f] = cfg[f])
    BY <2>1 DEF Advanced, SwitchEffect
  <2>3. ~Moving(a, f)' /\ ~Moving(a, f)
    <3>1. \A i \in 1 .. Len(todo'["wifi"]) : todo'["wifi"][i].f = "dcl"
      BY DEF Control
    <3>2. todo'[a] # <<>> => 1 \in 1 .. Len(todo'[a]) /\ Head(todo'[a]) = todo'[a][1]
      BY DEF Advanced, Follows
    <3> QED
      BY <1>5, <3>1, <3>2, CallbackStill DEF Moving, Feature
  <2>4. ASSUME NEW b \in Actors, Moving(b, f)'
        PROVE  Moved(b, f)'
    <3>1. b # a /\ todo'[b] = todo[b] /\ Moving(b, f)
      BY <1>1, <1>2, <2>3, <2>4
    <3>2. Moved(b, f)
      BY <3>1 DEF Kept
    <3>3. Value(b)' = Value(b) /\ (Doing(b, "commit")' <=> Doing(b, "commit")) /\ (Doing(b, "mem")' <=> Doing(b, "mem"))
      BY <3>1 DEF Value, Doing
    <3>4. CASE f = "fp"
      BY <2>2, <3>2, <3>3, <3>4 DEF Moved
    <3>5. CASE f # "fp"
      BY <2>2, <3>2, <3>3, <3>5 DEF Moved
    <3> QED
      BY <3>4, <3>5
  <2>6. flash'[f] \in promised'[f] /\ cfg'[f] \in promised'[f] /\ mem'[f] \in promised'[f]
    BY <1>1, <2>1, <2>2 DEF Kept
  <2> QED
    BY <1>3, <2>4, <2>6 DEF Kept
<1> QED
  BY <1>4, <1>5

LEMMA TakingKept ==
    ASSUME Typed, Control, NEW a \in Actors, NEW asks, NEW s, Taking(a, asks, s), NEW f \in Features \ {"dcl"}, Kept(f),
           Typed', Control'
    PROVE  Kept(f)'
<1>1. /\ job'[a].asks = asks /\ todo'[a] = s /\ UNCHANGED <<mem, cfg, flash>>
      /\ \A b \in Actors \ {a} : todo'[b] = todo[b] /\ job'[b] = job[b]
      /\ promised[f] \subseteq promised'[f] /\ Handler(s, asks) /\ Honest(asks)
      /\ f \in DOMAIN asks => asks[f] \in promised'[f]
  BY DEF Taking
<1>2. up /\ todo[a] = <<>>
  BY DEF Taking, Idle, Control
<1>3. ~Loading
  <2>1. todo["bus"] # <<>> => Head(todo["bus"]) = todo["bus"][1] /\ 1 \in 1 .. Len(todo["bus"])
    BY JobFacts DEF Actors
  <2> QED
    BY <1>2, <2>1 DEF Loading, Control, Actors, BootOps
<1>4. s # <<>> => Head(s) = s[1] /\ Entry(s[1])
  <2>1. s \in Seq(Steps)
    BY <1>1 DEF Handler, WellFormed
  <2> QED
    BY <1>1, <2>1, HeadTailProperties DEF Handler
<1>5. ~Moving(a, f) /\ ~Moving(a, f)'
  BY <1>1, <1>2, <1>4 DEF Moving, Feature, Entry, EntryOps
<1>6. \A b \in Actors : (Moving(b, f)' <=> Moving(b, f))
  <2>1. \A b \in Actors \ {a} : (Moving(b, f)' <=> Moving(b, f))
    BY <1>1 DEF Moving, Feature
  <2> QED
    BY <1>5, <2>1
<1>7. ASSUME NEW b \in Actors, Moving(b, f)'
      PROVE  Moved(b, f)'
  <2>1. todo'[b] = todo[b] /\ Moved(b, f)
    BY <1>1, <1>5, <1>6, <1>7 DEF Kept
  <2>2. Value(b)' = Value(b) /\ (Doing(b, "commit")' <=> Doing(b, "commit")) /\ (Doing(b, "mem")' <=> Doing(b, "mem"))
    BY <2>1 DEF Value, Doing
  <2> QED
    BY <1>1, <2>1, <2>2 DEF Moved
<1>8. ASSUME NEW b \in Actors, f \in DOMAIN job'[b].asks
      PROVE  job'[b].asks[f] \in promised'[f] /\ Due(b, f)'
  <2>1. CASE b = a
    <3>1. mem[f] = asks[f] \/ \E i \in 1 .. Len(s) : s[i].f = f /\ s[i].op \in Writes
      BY <1>1, <1>8, <2>1 DEF Handler
    <3>2. CASE mem[f] = asks[f]
      BY <1>1, <1>8, <2>1, <3>2 DEF Honest, Due, Settled
    <3>3. CASE mem[f] # asks[f]
      BY <1>1, <1>8, <2>1, <3>1, <3>3 DEF Due, Pending
    <3> QED
      BY <3>2, <3>3
  <2>2. CASE b # a
    BY <1>1, <1>8, <2>2 DEF Kept, Due, Settled, Pending, Midway
  <2> QED
    BY <2>1, <2>2
<1>10. flash'[f] \in promised'[f] /\ cfg'[f] \in promised'[f] /\ mem'[f] \in promised'[f]
  BY <1>1, <1>3 DEF Kept
<1> QED
  BY <1>7, <1>8, <1>10 DEF Kept

LEMMA AbandonedKept ==
    ASSUME Typed, Control, NEW a \in Actors, todo[a] # <<>>, Abandoned(a), NEW f \in Features \ {"dcl"}, Kept(f)
    PROVE  Kept(f)'
<1> DEFINE h == todo[a][1]
<1>1. /\ todo'[a] = <<>> /\ DOMAIN job'[a].asks = {} /\ UNCHANGED <<mem, cfg, flash, promised>>
      /\ \A b \in Actors \ {a} : todo'[b] = todo[b] /\ job'[b] = job[b]
      /\ h.op \notin BootOps
  BY NoJobFacts DEF Abandoned, BootOps
<1>2. ~Loading
  BY <1>1, Alone DEF BootOps
<1>7. ASSUME NEW b \in Actors, Moving(b, f)'
      PROVE  Moved(b, f)'
  <2>0. b # a
    BY <1>1, <1>7 DEF Moving
  <2>1. todo'[b] = todo[b] /\ Moved(b, f)
    BY <1>1, <1>7, <2>0 DEF Kept, Moving, Feature
  <2>2. Value(b)' = Value(b) /\ (Doing(b, "commit")' <=> Doing(b, "commit")) /\ (Doing(b, "mem")' <=> Doing(b, "mem"))
    BY <2>1 DEF Value, Doing
  <2> QED
    BY <1>1, <2>1, <2>2 DEF Moved
<1>8. ASSUME NEW b \in Actors, f \in DOMAIN job'[b].asks
      PROVE  job'[b].asks[f] \in promised'[f] /\ Due(b, f)'
  <2>1. b # a
    BY <1>1, <1>8
  <2> QED
    BY <1>1, <1>8, <2>1 DEF Kept, Due, Settled, Pending, Midway
<1>10. flash'[f] \in promised'[f] /\ cfg'[f] \in promised'[f] /\ mem'[f] \in promised'[f]
  BY <1>1, <1>2 DEF Kept
<1> QED
  BY <1>7, <1>8, <1>10 DEF Kept

LEMMA AnsweredKept ==
    ASSUME Typed, Control, Exclusive, NEW a \in Actors, Answered(a), NEW f \in Features \ {"dcl"}, Kept(f)
    PROVE  Kept(f)'
<1>1. /\ todo[a] = <<>> /\ DOMAIN job'[a].asks = {} /\ UNCHANGED <<mem, cfg, flash, todo>>
      /\ \A b \in Actors \ {a} : job'[b] = job[b]
      /\ promised'[f] = IF f \in DOMAIN job[a].asks THEN {job[a].asks[f]} ELSE promised[f]
  BY NoJobFacts DEF Answered
<1>2. \A b \in Actors : (Moving(b, f)' <=> Moving(b, f)) /\ (Moved(b, f)' <=> Moved(b, f))
  BY <1>1 DEF Moving, Moved, Feature, Value, Doing
<1>3. /\ Loading' <=> Loading
      /\ \A b \in Actors : (Pending(b, f)' <=> Pending(b, f)) /\ (Midway(b, f)' <=> Midway(b, f))
  BY <1>1 DEF Loading, Pending, Midway
<1>4. ASSUME f \in DOMAIN job[a].asks
      PROVE  /\ Settled(f, job[a].asks[f])
             /\ \A b \in Actors \ {a} : f \notin DOMAIN job[b].asks
  <2>1. job[a].busy /\ up /\ a # "wifi"
    BY <1>4 DEF Control
  <2>2. \A b \in Actors \ {a} : b # "wifi" => todo[b] = <<>> /\ ~job[b].busy
    BY <2>1 DEF Exclusive, Control, Actors
  <2>5. ~Pending(a, f) /\ ~Midway(a, f)
    BY <1>1, EmptySeq DEF Pending, Midway
  <2>6. \A b \in Actors \ {a} : f \notin DOMAIN job[b].asks
    BY <2>2 DEF Control
  <2> QED
    BY <1>4, <2>5, <2>6 DEF Kept, Due
<1>5. ASSUME NEW b \in Actors, f \in DOMAIN job'[b].asks
      PROVE  job'[b].asks[f] \in promised'[f] /\ Due(b, f)'
  <2>1. b # a /\ job'[b] = job[b]
    BY <1>1, <1>5
  <2>2. promised'[f] = promised[f]
    BY <1>1, <1>4, <1>5, <2>1
  <2> QED
    BY <1>1, <1>3, <1>5, <2>1, <2>2 DEF Kept, Due, Settled
<1>6. flash'[f] \in promised'[f] /\ cfg'[f] \in promised'[f] /\ (Loading' \/ mem'[f] \in promised'[f])
  <2>1. CASE f \in DOMAIN job[a].asks
    BY <1>1, <1>4, <2>1 DEF Settled
  <2>2. CASE f \notin DOMAIN job[a].asks
    BY <1>1, <1>3, <2>2 DEF Kept
  <2> QED
    BY <2>1, <2>2
<1>8. \A b \in Actors : Moving(b, f)' => Moved(b, f)'
  BY <1>2 DEF Kept
<1> QED
  BY <1>5, <1>6, <1>8 DEF Kept

LEMMA RebootedKept ==
    ASSUME Rebooted, NEW f \in Features \ {"dcl"}, Kept(f)
    PROVE  Kept(f)'
<1>1. /\ todo'["bus"] = CosaSecurityInitialize /\ \A a \in Actors \ {"bus"} : todo'[a] = <<>>
      /\ \A a \in Actors : DOMAIN job'[a].asks = {}
  BY Rebooting
<1>2. Head(todo'["bus"]).op = "load" /\ todo'["bus"] # <<>>
  BY <1>1, BootHandler
<1>3. Loading'
  BY <1>2 DEF Loading
<1>4. \A a \in Actors : ~Moving(a, f)'
  BY <1>1, <1>2 DEF Moving
<1>5. (cfg' = flash \/ cfg' = cfg) /\ UNCHANGED <<flash, promised>>
  BY DEF Rebooted
<1>6. flash[f] \in promised[f] /\ cfg[f] \in promised[f]
  BY DEF Kept
<1>7. flash'[f] \in promised'[f] /\ cfg'[f] \in promised'[f]
  BY <1>5, <1>6
<1> QED
  BY <1>1, <1>3, <1>4, <1>7 DEF Kept

LEMMA KeptStep ==
    ASSUME Typed, Control, Exclusive, Aimed, AllKept, Moves, Typed', Control'
    PROVE  AllKept'
<1>1. SUFFICES ASSUME NEW f \in Features \ {"dcl"}, Kept(f) PROVE Kept(f)'
  BY DEF AllKept
<1>2. ASSUME Passes PROVE Kept(f)'
  <2>1. UNCHANGED <<mem, cfg, flash, todo, job, promised>>
    BY <1>2 DEF Passes
  <2> QED
    BY <1>1, <2>1 DEF Kept, Due, Settled, Moving, Moved, Pending, Midway, Loading, Feature, Value, Doing
<1> QED
  BY <1>1, <1>2, TakingKept, AdvancedKept, AbandonedKept, AnsweredKept, RebootedKept DEF Moves

(* The copies of a switch agree between handlers.                           *)

LEMMA TakingSame ==
    ASSUME Typed, Control, NEW a \in Actors, NEW asks, NEW s, Taking(a, asks, s), NEW f \in Features \ {"dcl"}, Same(f)
    PROVE  Same(f)'
<1>1. /\ todo'[a] = s /\ UNCHANGED <<mem, cfg, flash>> /\ Handler(s, asks) /\ (faults.cut => faults'.cut)
      /\ \A b \in Actors \ {a} : todo'[b] = todo[b]
  BY DEF Taking
<1>2. up /\ todo[a] = <<>>
  BY DEF Taking, Idle, Control
<1>3. ~Loading
  <2>1. todo["bus"] # <<>> => Head(todo["bus"]) = todo["bus"][1] /\ 1 \in 1 .. Len(todo["bus"])
    BY JobFacts DEF Actors
  <2> QED
    BY <1>2, <2>1 DEF Loading, Control, Actors, BootOps
<1>4. \A b \in Actors : Moving(b, f) => Moving(b, f)'
  BY <1>1, <1>2 DEF Moving, Feature
<1> QED
  BY <1>1, <1>3, <1>4 DEF Same

LEMMA AdvancedSame ==
    ASSUME Typed, Control, Exclusive, Aimed, NEW a \in Actors, todo[a] # <<>>, NEW F, Advanced(a, F), Control',
           NEW f \in Features \ {"dcl"}, Kept(f), Same(f)
    PROVE  Same(f)'
<1> DEFINE h == todo[a][1]
<1>1. (faults.cut => faults'.cut) /\ \A b \in Actors \ {a} : todo'[b] = todo[b]
  BY DEF Advanced, FaultsGrow
<1>2. CASE a # "wifi"
  <2>1. \A b \in Actors \ {a} : ~Moving(b, f)
    <3> TAKE b \in Actors \ {a}
    <3>1. CASE b = "wifi"
      BY <3>1, CallbackStill
    <3>2. CASE b # "wifi"
      BY <1>2, <3>2, Companions DEF Moving
    <3> QED
      BY <3>1, <3>2
  <2>2. ~Moving(a, f)' => (faults.cut \/ cfg'[f] = flash'[f]) /\ mem'[f] = cfg'[f]
    BY <2>1, AdvancedValues
  <2> QED
    BY <1>1, <2>2 DEF Same
<1>3. CASE a = "wifi"
  <2>1. ~Loading /\ h.f = "dcl" /\ h.op # "load"
    BY <1>3, Alone DEF BootOps
  <2>2. mem'[f] = mem[f] /\ cfg'[f] = cfg[f] /\ (flash'[f] = flash[f] \/ flash'[f] = cfg[f])
    BY <2>1 DEF Advanced, SwitchEffect
  <2>3. \A b \in Actors : Moving(b, f) => Moving(b, f)'
    <3>1. ~Moving(a, f)
      BY <1>3, CallbackStill
    <3> QED
      BY <1>1, <3>1 DEF Moving, Feature
  <2> QED
    BY <1>1, <2>1, <2>2, <2>3 DEF Same
<1> QED
  BY <1>2, <1>3

LEMMA AbandonedSame ==
    ASSUME Typed, Control, NEW a \in Actors, todo[a] # <<>>, Abandoned(a), NEW f \in Features \ {"dcl"}, Same(f),
           faults'.set + faults'.commit = 0, Typed'
    PROVE  Same(f)'
<1> DEFINE h == todo[a][1]
<1>1. /\ UNCHANGED <<mem, cfg, flash>> /\ (faults.cut => faults'.cut)
      /\ \A b \in Actors \ {a} : todo'[b] = todo[b]
      /\ h.op \notin BootOps /\ h.op # "mem"
      /\ h.op = "set" => faults'.set > 0
      /\ h.op = "commit" => faults'.commit > 0
  BY DEF Abandoned, BootOps, FaultsGrow
<1>2. ~Loading
  BY <1>1, Alone DEF BootOps
<1>3. Head(todo[a]) = h
  BY JobFacts
<1>4. faults'.set \in Nat /\ faults'.commit \in Nat
  BY DEF Typed, DataTyped
<1>5. h.op # "commit" /\ h.op # "set"
  BY <1>1, <1>4
<1>6. \A b \in Actors : Moving(b, f) => Moving(b, f)'
  BY <1>1, <1>3, <1>5 DEF Moving, Feature
<1> QED
  BY <1>1, <1>2, <1>6 DEF Same

LEMMA RebootedSame ==
    ASSUME Rebooted, NEW f \in Features \ {"dcl"}
    PROVE  Same(f)'
<1>1. todo'["bus"] = CosaSecurityInitialize
  BY Rebooting
<1>2. Loading'
  BY <1>1, BootHandler DEF Loading
<1> QED
  BY <1>2 DEF Rebooted, Same

LEMMA SameStep ==
    ASSUME Typed, Control, Exclusive, Aimed, AllKept, AllSame, Moves, Typed', Control'
    PROVE  AllSame'
<1>1. SUFFICES ASSUME faults'.set + faults'.commit = 0, NEW f \in Features \ {"dcl"} PROVE Same(f)'
  BY DEF AllSame
<1>2. faults.set \in Nat /\ faults.commit \in Nat /\ faults'.set \in Nat /\ faults'.commit \in Nat
  BY DEF Typed, DataTyped
<1>3. faults'.set >= faults.set /\ faults'.commit >= faults.commit => Same(f)
  BY <1>1, <1>2 DEF AllSame
<1>4. ASSUME NEW a \in Actors, NEW asks, NEW s, Taking(a, asks, s) PROVE Same(f)'
  <2>1. faults'.set >= faults.set /\ faults'.commit >= faults.commit
    BY <1>2, <1>4 DEF Taking
  <2> QED
    BY <1>3, <1>4, <2>1, TakingSame
<1>5. ASSUME NEW a \in Actors, todo[a] # <<>>, NEW F, Advanced(a, F) PROVE Same(f)'
  <2>1. Same(f) /\ Kept(f)
    BY <1>3, <1>5 DEF Advanced, FaultsGrow, AllKept
  <2> QED
    BY <1>5, <2>1, AdvancedSame
<1>6. ASSUME NEW a \in Actors, todo[a] # <<>>, Abandoned(a) PROVE Same(f)'
  <2>1. Same(f)
    BY <1>3, <1>6 DEF Abandoned, FaultsGrow
  <2> QED
    BY <1>1, <1>6, <2>1, AbandonedSame
<1>7. ASSUME UNCHANGED <<mem, cfg, flash, todo, faults>> PROVE Same(f)'
  <2>1. Same(f)
    BY <1>2, <1>3, <1>7
  <2> QED
    BY <1>7, <2>1 DEF Same, Moving, Loading, Feature
<1> QED
  BY <1>4, <1>5, <1>6, <1>7, RebootedSame DEF Moves, Answered, Passes

-----------------------------------------------------------------------------
(* Data collection.                                                         *)

(* The tests and what they are for, case by case.                           *)
Plain(h) ==
    IF h.op \in {"set", "commit", "mem"} THEN h.f # "dcl" /\ ~(h.op = "mem" /\ h.f = "fp")
                                        ELSE h.op \notin BootOps \cup {"dclAtInit", "initOrClear"}

LEMMA RunsCases ==
    ASSUME NEW h, NEW fp, NEW dcl, NEW runs
    PROVE  /\ h.op \in BootOps \cup {"dclAtInit", "initOrClear"} => RunsAt(h, fp, dcl, runs)
           /\ h.op \in {"set", "commit", "mem"} /\ h.f = "dcl" => (RunsAt(h, fp, dcl, runs) <=> (h.v => runs))
           /\ h.op = "mem" /\ h.f = "fp" => (RunsAt(h, fp, dcl, runs) <=> (h.v /\ dcl => runs))
           /\ Plain(h) => (RunsAt(h, fp, dcl, runs) <=> (fp /\ dcl => runs))
  BY DEF RunsAt, BootOps, Plain

LEMMA PlainRuns ==
    ASSUME NEW h, NEW fp, NEW dcl, NEW runs, Plain(h), RunsAt(h, fp, dcl, runs)
    PROVE  fp /\ dcl => runs
  BY DEF RunsAt, BootOps, Plain

LEMMA EntryRuns ==
    ASSUME NEW y, NEW fp, NEW dcl, NEW runs, Entry(y), fp /\ dcl => runs
    PROVE  RunsAt(y, fp, dcl, runs)
<1>1. y.op = "dclAtInit" \/ Plain(y)
  BY DEF Entry, EntryOps, BootOps, Plain
<1> QED
  BY <1>1, RunsCases

LEMMA AdvancedRuns ==
    ASSUME Typed, Control, NEW a \in Actors, todo[a] # <<>>, NEW F, Advanced(a, F), Aimed', Typed',
           HeadRuns(todo[a][1])
    PROVE  IF todo'[a] = <<>> THEN Collecting' ELSE HeadRuns(todo[a][1])'
<1> DEFINE s == todo[a]
           R == todo'[a]
           h == todo[a][1]
           y == todo'[a][1]
           fp == mem["fp"]
           dcl == mem["dcl"]
           fpp == mem'["fp"]
           dclp == mem'["dcl"]
<1>0. /\ fp \in BOOLEAN /\ dcl \in BOOLEAN /\ fpp \in BOOLEAN /\ dclp \in BOOLEAN
      /\ consumer \in BOOLEAN /\ consumer' \in BOOLEAN
  BY KnownFeatures DEF Typed, DataTyped
<1>1. /\ Continues(h, F) /\ SwitchEffect(h) /\ CollectionEffect(h, F)
      /\ R # <<>> => 1 \in 1 .. Len(R) /\ Goes(h, F, R)
      /\ R = <<>> => F = <<>> /\ (~Bound(h) \/ Lone(s, 1))
      /\ h \in Steps
  BY DEF Advanced, Follows
<1>2. fpp = IF h.op = "mem" /\ h.f = "fp" THEN h.v ELSE IF h.op = "load" THEN cfg["fp"] ELSE fp
  BY <1>1, KnownFeatures DEF SwitchEffect
<1>3. RunsAt(h, fp, dcl, consumer)
  BY DEF HeadRuns
<1>4. R # <<>> /\ Lone(R, 1) => Is(y, "mem", "fp", TRUE) /\ fpp = TRUE
  <2> SUFFICES ASSUME R # <<>>, Lone(R, 1) PROVE Is(y, "mem", "fp", TRUE) /\ fpp = TRUE
    OBVIOUS
  <2>1. Is(y, "mem", "fp", TRUE)
    BY DEF Lone
  <2>2. 1 \in 1 .. Len(todo'[a])
    BY <1>1
  <2>3. /\ y.op \in Writes /\ y.f # "dcl" =>
             y.v = IF y.f \in DOMAIN job'[a].asks THEN job'[a].asks[y.f] ELSE mem'[y.f]
        /\ Lone(todo'[a], 1) => "fp" \notin DOMAIN job'[a].asks
    BY <2>2 DEF Aimed
  <2> QED
    BY <2>1, <2>3 DEF Is, Writes
<1>5. Lone(s, 1) => h.op = "mem" /\ h.f = "fp"
  BY DEF Lone, Is
<1>6. h.op \notin {"update", "agent", "agentBoot", "dclIfOff", "dclIfOn", "dclAtInit", "dclAtDeInit", "dclBoot"} => F = <<>>
  BY <1>1 DEF Continues
<1> HIDE DEF s, R, h, y, fp, dcl, fpp, dclp
<1>7. SUFFICES (R = <<>> => (fpp /\ dclp => consumer')) /\ (R # <<>> => RunsAt(y, fpp, dclp, consumer'))
  BY DEF HeadRuns, Collecting, R, y, fpp, dclp
<1>8. /\ R # <<>> => \/ F # <<>> /\ Opens(h, y)
                     \/ F = <<>> /\ Leads(h, y)
                     \/ F = <<>> /\ ~Bound(h) /\ Lone(R, 1)
      /\ R = <<>> => F = <<>> /\ (~Bound(h) \/ (h.op = "mem" /\ h.f = "fp"))
  BY <1>1, <1>5 DEF Goes, y, R
(* From a place where nothing is half done.                                 *)
<1>9. ASSUME ~Bound(h), fpp /\ dclp => consumer'
      PROVE  R # <<>> => RunsAt(y, fpp, dclp, consumer')
  <2>1. Opens(h, y) \/ Leads(h, y) => Entry(y)
    BY <1>9 DEF Opens, Leads, Bound
  <2>2. R # <<>> /\ Lone(R, 1) => RunsAt(y, fpp, dclp, consumer')
    BY <1>4, <1>9, RunsCases DEF Is
  <2> QED
    BY <1>8, <1>9, <2>1, <2>2, EntryRuns
<1>10. CASE h.op \in {"load", "wifiTry", "dclBoot", "dclValue"}
  <2>1. Bound(h) /\ h.op # "mem"
    BY <1>10 DEF Bound
  <2>2. Opens(h, y) \/ Leads(h, y) => y.op \in BootOps
    BY <1>10, <2>1 DEF Opens, Leads, BootOps
  <2>3. R # <<>> /\ y.op \in BootOps
    BY <1>8, <2>1, <2>2
  <2> QED
    BY <2>3, RunsCases
<1>11. CASE h.op = "agentBoot"
  <2>1. ~Bound(h) /\ dclp = dcl /\ fpp = fp /\ consumer' = consumer
    BY <1>1, <1>2, <1>11 DEF Bound, CollectionEffect, dcl, dclp
  <2>2. CASE F # <<>>
    <3>1. y.op = "dclAtInit" /\ R # <<>>
      BY <1>8, <1>11, <2>2 DEF Opens
    <3> QED
      BY <3>1, RunsCases
  <2>3. CASE F = <<>>
    <3>1. CosaAdvSecInit # <<>>
      <4>1. Len(<<>>) = 0
        BY EmptySeq
      <4>2. \A w \in BOOLEAN : Agent(w) # <<>>
        BY <4>1, AgentChain
      <4>3. Agent(TRUE) # <<>>
        BY <4>2
      <4> QED
        BY <4>3 DEF Agent
    <3>2. ~fp
      BY <1>1, <1>11, <2>3, <3>1 DEF Continues, fp
    <3> QED
      BY <1>9, <2>1, <3>2
  <2> QED
    BY <2>2, <2>3
<1>12. CASE h.op \in {"precheck", "precheckLevl", "dclIfOff", "dclIfOn", "completed", "initialized", "update", "agent",
                      "wifiSet", "wifiWait"}
  <2>1. ~Bound(h) /\ dclp = dcl /\ fpp = fp /\ consumer' = consumer
    BY <1>1, <1>2, <1>12 DEF Bound, CollectionEffect, dcl, dclp
  <2>2. fp /\ dcl => consumer
    <3>1. Plain(h)
      BY <1>12 DEF Plain, BootOps
    <3> QED
      BY <1>0, <1>3, <3>1, PlainRuns, Zenon
  <2> QED
    BY <1>9, <2>1, <2>2
<1>13. CASE h.op = "dclAtDeInit"
  <2>1. Bound(h) /\ dclp = dcl /\ fpp = fp /\ consumer' = consumer
    BY <1>1, <1>2, <1>13 DEF Bound, CollectionEffect, dcl, dclp
  <2>2. fp /\ dcl => consumer
    <3>1. Plain(h)
      BY <1>13 DEF Plain, BootOps
    <3> QED
      BY <1>0, <1>3, <3>1, PlainRuns, Zenon
  <2>3. R # <<>> /\ (y.op = "deinit" \/ Is(y, "mem", "fp", FALSE))
    BY <1>8, <1>13, <2>1 DEF Opens, Leads
  <2> QED
    <3>1. y.op = "deinit" => Plain(y)
      BY DEF Plain, BootOps
    <3> QED
      BY <2>1, <2>2, <2>3, <3>1, RunsCases DEF Is
<1>14. CASE h.op \in {"init", "deinit"}
  <2>1. F = <<>> /\ Bound(h) /\ (h.op = "init" => consumer' = TRUE)
    BY <1>1, <1>6, <1>14 DEF Bound, CollectionEffect
  <2>2. R # <<>> /\ (h.op = "init" => Is(y, "set", "dcl", TRUE))
        /\ (h.op = "deinit" => Is(y, "set", "dcl", FALSE) \/ Is(y, "mem", "fp", FALSE))
    BY <1>8, <1>14, <2>1 DEF Leads
  <2> QED
    BY <1>14, <2>1, <2>2, RunsCases DEF Is
<1>15. CASE h.op = "dclAtInit"
  <2>1. Bound(h)
    BY <1>15 DEF Bound
  <2>2. CASE F # <<>>
    <3>1. R # <<>> /\ y.op = "initOrClear"
      BY <1>8, <1>15, <2>1, <2>2 DEF Opens
    <3> QED
      BY <3>1, RunsCases
  <2>3. CASE F = <<>>
    <3>1. R # <<>> /\ Is(y, "mem", "fp", TRUE)
      BY <1>8, <1>15, <2>1, <2>3 DEF Leads
    <3>2. dclp = FALSE
      BY <1>1, <1>15, <2>3 DEF CollectionEffect, dclp
    <3> QED
      BY <3>1, <3>2, RunsCases DEF Is
  <2> QED
    BY <2>2, <2>3
<1>16. CASE h.op = "initOrClear"
  <2>1. Bound(h) /\ F = <<>> /\ (consumer' = TRUE \/ dclp = FALSE)
    BY <1>1, <1>6, <1>16 DEF Bound, CollectionEffect, dclp
  <2>2. R # <<>> /\ Is(y, "mem", "fp", TRUE)
    BY <1>8, <1>16, <2>1 DEF Leads
  <2> QED
    BY <2>1, <2>2, RunsCases DEF Is
<1>17. CASE h.op \in {"set", "commit"}
  <2>1. F = <<>> /\ dclp = dcl /\ fpp = fp /\ consumer' = consumer
    BY <1>1, <1>2, <1>6, <1>17 DEF CollectionEffect, dcl, dclp
  <2>2. CASE h.f = "dcl"
    <3>1. Bound(h) /\ (h.v => consumer)
      BY <1>3, <1>17, <2>2, RunsCases DEF Bound
    <3>2. R # <<>> /\ y.op \in {"commit", "mem"} /\ y.f = "dcl" /\ y.v = h.v
      BY <1>8, <1>17, <2>1, <2>2, <3>1 DEF Leads, Is
    <3> QED
      BY <2>1, <3>1, <3>2, RunsCases
  <2>3. CASE h.f # "dcl"
    <3>1. fp /\ dcl => consumer
      <4>1. Plain(h)
        BY <1>17, <2>3 DEF Plain
      <4> QED
        BY <1>0, <1>3, <4>1, PlainRuns, Zenon
    <3>2. CASE h.op = "commit" /\ h.f = "fp"
      <4>1. ~Bound(h)
        BY <3>2 DEF Bound
      <4> QED
        BY <1>9, <2>1, <3>1, <4>1
    <3>3. CASE ~(h.op = "commit" /\ h.f = "fp")
      <4>1. Bound(h)
        BY <1>17, <3>3 DEF Bound
      <4>2. R # <<>> /\ y.op \in {"commit", "mem"} /\ y.f # "dcl" /\ ~(y.op = "mem" /\ y.f = "fp")
        BY <1>8, <1>17, <2>1, <2>3, <3>3, <4>1 DEF Leads, Is
      <4>3. Plain(y)
        BY <4>2 DEF Plain
      <4> QED
        BY <2>1, <3>1, <4>2, <4>3, RunsCases
    <3> QED
      BY <3>2, <3>3
  <2> QED
    BY <2>2, <2>3
<1>18. CASE h.op = "mem"
  <2>1. F = <<>> /\ consumer' = consumer
    BY <1>1, <1>6, <1>18 DEF CollectionEffect
  <2>2. CASE h.f = "fp"
    <3>1. fpp = h.v /\ dclp = dcl /\ (h.v /\ dcl => consumer)
      BY <1>1, <1>2, <1>3, <1>18, <2>2, RunsCases DEF CollectionEffect, dcl, dclp
    <3>2. R # <<>> => Is(y, "set", "fp", h.v)
      <4>1. Bound(h)
        BY <1>18, <2>2 DEF Bound
      <4> QED
        BY <1>8, <1>18, <2>1, <2>2, <4>1 DEF Leads
    <3>3. R # <<>> => Plain(y)
      BY <3>2 DEF Is, Plain
    <3> QED
      BY <2>1, <3>1, <3>3, RunsCases
  <2>3. CASE h.f # "fp"
    <3>1. ~Bound(h) /\ fpp = fp
      BY <1>2, <1>18, <2>3 DEF Bound
    <3>2. fpp /\ dclp => consumer'
      <4>1. CASE h.f = "dcl"
        <5>1. dclp = h.v /\ (h.v => consumer)
          BY <1>1, <1>3, <1>18, <4>1, RunsCases DEF CollectionEffect, dclp
        <5> QED
          BY <2>1, <5>1
      <4>2. CASE h.f # "dcl"
        <5>1. dclp = dcl /\ (fp /\ dcl => consumer)
          <6>1. Plain(h)
            BY <1>18, <2>3, <4>2 DEF Plain
          <6>2. dclp = dcl
            BY <1>1, <1>18, <4>2 DEF CollectionEffect, dcl, dclp
          <6> QED
            BY <1>3, <6>1, <6>2, RunsCases
        <5> QED
          BY <2>1, <3>1, <5>1
      <4> QED
        BY <4>1, <4>2
    <3> QED
      BY <1>9, <3>1, <3>2
  <2> QED
    BY <2>2, <2>3
<1>19. h.op \in Ops
  BY <1>1, FieldsOfSteps
<1> QED
  BY <1>10, <1>11, <1>12, <1>13, <1>14, <1>15, <1>16, <1>17, <1>18, <1>19 DEF Ops, BootOps, EntryOps

LEMMA RunsStep ==
    ASSUME Typed, Control, Exclusive, Runs, Serialised, Moves, Typed', Aimed'
    PROVE  Runs'
<1>0. /\ faults.set \in Nat /\ faults.commit \in Nat /\ faults.overlap \in BOOLEAN
      /\ faults'.set \in Nat /\ faults'.commit \in Nat /\ faults'.overlap \in BOOLEAN
  BY DEF Typed, DataTyped
<1>1. SUFFICES ASSUME faults'.set + faults'.commit = 0, ~faults'.overlap
               PROVE  /\ (\A a \in Actors : todo'[a] = <<>>) => Collecting'
                      /\ \A a \in Actors : todo'[a] # <<>> => HeadRuns(Head(todo[a]))'
  BY DEF Runs
<1>2. ASSUME faults'.set >= faults.set, faults'.commit >= faults.commit, ~faults.overlap
      PROVE  /\ (\A a \in Actors : todo[a] = <<>>) => Collecting
             /\ \A a \in Actors : todo[a] # <<>> => HeadRuns(Head(todo[a]))
  <2>1. faults.set + faults.commit = 0
    BY <1>0, <1>1, <1>2
  <2> QED
    BY <1>2, <2>1 DEF Runs
<1>3. ASSUME NEW a \in Actors, NEW asks, NEW s, Taking(a, asks, s)
      PROVE  /\ (\A b \in Actors : todo'[b] = <<>>) => Collecting'
             /\ \A b \in Actors : todo'[b] # <<>> => HeadRuns(Head(todo[b]))'
  <2>1. /\ faults'.set = faults.set /\ faults'.commit = faults.commit /\ ~faults.overlap
        /\ \A b \in Actors : job[b].busy => a # "wifi" /\ b # "wifi"
        /\ UNCHANGED <<mem, consumer>> /\ todo'[a] = s /\ Handler(s, asks)
        /\ \A b \in Actors \ {a} : todo'[b] = todo[b]
        /\ a # "wifi" => Idle("bus") /\ Idle("webconfig")
        /\ up
    BY <1>1, <1>3 DEF Taking, Idle
  <2>2. \A b \in Actors : ~job[b].busy
    BY <2>1 DEF Idle, Actors
  <2>3. \A b \in Actors : todo[b] = <<>>
    BY <2>1, <2>2 DEF Control
  <2>4. faults'.set >= faults.set /\ faults'.commit >= faults.commit
    BY <1>0, <2>1
  <2>5. Collecting
    BY <1>2, <2>1, <2>3, <2>4
  <2>6. mem["fp"] /\ mem["dcl"] => consumer
    BY <2>5 DEF Collecting
  <2>7. Collecting'
    BY <2>1, <2>5 DEF Collecting
  <2>8. s # <<>> => Head(s) = s[1] /\ Entry(s[1])
    <3>1. s \in Seq(Steps)
      BY <2>1 DEF Handler, WellFormed
    <3> QED
      BY <2>1, <3>1, HeadTailProperties DEF Handler
  <2>9. s # <<>> => RunsAt(s[1], mem["fp"], mem["dcl"], consumer)
    BY <2>6, <2>8, EntryRuns
  <2>10. ASSUME NEW b \in Actors, todo'[b] # <<>> PROVE HeadRuns(Head(todo[b]))'
    <3>1. b = a
      BY <2>1, <2>3, <2>10
    <3> QED
      BY <2>1, <2>8, <2>9, <2>10, <3>1 DEF HeadRuns
  <2> QED
    BY <2>7, <2>10
<1>4. ASSUME NEW a \in Actors, todo[a] # <<>>, NEW F, Advanced(a, F)
      PROVE  /\ (\A b \in Actors : todo'[b] = <<>>) => Collecting'
             /\ \A b \in Actors : todo'[b] # <<>> => HeadRuns(Head(todo[b]))'
  <2>1. FaultsGrow /\ Follows(todo[a], F, todo'[a]) /\ \A b \in Actors \ {a} : todo'[b] = todo[b]
    BY <1>4 DEF Advanced
  <2>2. ~faults.overlap
    BY <1>1, <2>1 DEF FaultsGrow
  <2>3. \A b \in Actors \ {a} : todo[b] = <<>>
    BY <1>4, <2>2, Companions
  <2>4. Head(todo[a]) = todo[a][1] /\ (todo'[a] # <<>> => Head(todo'[a]) = todo'[a][1])
    BY <2>1 DEF Follows
  <2>5. HeadRuns(todo[a][1])
    BY <1>2, <1>4, <2>1, <2>2, <2>4 DEF FaultsGrow
  <2>6. IF todo'[a] = <<>> THEN Collecting' ELSE HeadRuns(todo[a][1])'
    BY <1>4, <2>5, AdvancedRuns
  <2>7. ASSUME NEW b \in Actors, todo'[b] # <<>> PROVE HeadRuns(Head(todo[b]))'
    <3>1. b = a
      BY <2>1, <2>3, <2>7
    <3>2. HeadRuns(todo[a][1])'
      BY <2>6, <2>7, <3>1
    <3> QED
      BY <2>4, <2>7, <3>1, <3>2 DEF HeadRuns
  <2> QED
    BY <1>4, <2>6, <2>7
<1>5. ASSUME NEW a \in Actors, todo[a] # <<>>, Abandoned(a)
      PROVE  /\ (\A b \in Actors : todo'[b] = <<>>) => Collecting'
             /\ \A b \in Actors : todo'[b] # <<>> => HeadRuns(Head(todo[b]))'
  <2> DEFINE h == todo[a][1]
  <2>1. /\ FaultsGrow /\ todo'[a] = <<>> /\ UNCHANGED <<mem, consumer>>
        /\ \A b \in Actors \ {a} : todo'[b] = todo[b]
        /\ h.op \in {"set", "commit", "completed", "initialized", "precheck", "precheckLevl", "init", "wifiSet", "wifiWait"}
        /\ h.op = "set" => faults'.set > 0
        /\ h.op = "commit" => faults'.commit > 0
    BY <1>5 DEF Abandoned
  <2>2. ~faults.overlap
    BY <1>1, <2>1 DEF FaultsGrow
  <2>3. \A b \in Actors \ {a} : todo[b] = <<>>
    BY <1>5, <2>2, Companions
  <2>4. Head(todo[a]) = h
    BY <1>5, JobFacts
  <2>5. HeadRuns(h)
    BY <1>2, <1>5, <2>1, <2>2, <2>4 DEF FaultsGrow
  <2>6. h.op \notin {"set", "commit", "mem"}
    BY <1>0, <1>1, <2>1
  <2>7. Plain(h)
    BY <2>1, <2>6 DEF Plain, BootOps
  <2>8. mem["fp"] /\ mem["dcl"] => consumer
    <3>1. RunsAt(h, mem["fp"], mem["dcl"], consumer)
      BY <2>5 DEF HeadRuns
    <3> DEFINE fp == mem["fp"]
    <3> DEFINE dcl == mem["dcl"]
    <3>2. RunsAt(h, fp, dcl, consumer)
      BY <3>1
    <3>3. fp \in BOOLEAN /\ dcl \in BOOLEAN /\ consumer \in BOOLEAN
      BY KnownFeatures DEF Typed, DataTyped
    <3>4. Plain(h)
      BY <2>7
    <3> HIDE DEF h, fp, dcl
    <3>5. fp /\ dcl => consumer
      BY <3>2, <3>3, <3>4, PlainRuns, Zenon
    <3> QED
      BY <3>5 DEF fp, dcl
  <2>9. Collecting'
    BY <2>1, <2>8 DEF Collecting
  <2> QED
    BY <2>1, <2>3, <2>9
<1>6. ASSUME UNCHANGED <<todo, mem, consumer, faults>>
      PROVE  /\ (\A b \in Actors : todo'[b] = <<>>) => Collecting'
             /\ \A b \in Actors : todo'[b] # <<>> => HeadRuns(Head(todo[b]))'
  BY <1>0, <1>1, <1>2, <1>6 DEF Collecting, HeadRuns
<1>7. ASSUME Rebooted
      PROVE  /\ (\A b \in Actors : todo'[b] = <<>>) => Collecting'
             /\ \A b \in Actors : todo'[b] # <<>> => HeadRuns(Head(todo[b]))'
  <2>1. todo'["bus"] = CosaSecurityInitialize /\ \A a \in Actors \ {"bus"} : todo'[a] = <<>>
    BY <1>7, Rebooting
  <2>2. Head(todo'["bus"]).op = "load" /\ todo'["bus"] # <<>> /\ "bus" \in Actors
    BY <2>1, BootHandler DEF Actors
  <2>3. Head(todo'["bus"]).op \in BootOps \cup {"dclAtInit", "initOrClear"}
    BY <2>2 DEF BootOps
  <2>4. HeadRuns(Head(todo["bus"]))'
    BY <2>3, RunsCases DEF HeadRuns
  <2> QED
    BY <2>1, <2>2, <2>4
<1> QED
  BY <1>3, <1>4, <1>5, <1>6, <1>7 DEF Moves, Answered, Passes

-----------------------------------------------------------------------------
(* The theorems.                                                            *)

LEMMA InitFacts ==
    ASSUME Init
    PROVE  Typed /\ Control /\ Exclusive /\ Aimed /\ AllKept /\ AllSame /\ Runs
<1>1. /\ todo = [a \in Actors |-> IF a = "bus" THEN CosaSecurityInitialize ELSE <<>>]
      /\ job = [a \in Actors |-> NoJob] /\ up = FALSE
      /\ promised = [f \in Features |-> {flash[f]}]
      /\ faults = [set |-> 0, commit |-> 0, consumer |-> 0, cut |-> FALSE, overlap |-> FALSE]
  BY DEF Init
<1>2. WellFormed(CosaSecurityInitialize) /\ CosaSecurityInitialize \in Seq(Steps)
  BY BootHandler DEF WellFormed
<1>3. WellFormed(<<>>) /\ <<>> \in Seq(Steps) /\ Len(<<>>) = 0
  BY EmptySeq DEF WellFormed
<1>4. NoJob \in Jobs /\ ~NoJob.busy /\ DOMAIN NoJob.asks = {}
  BY NoJobFacts
<1>5. /\ todo["bus"] = CosaSecurityInitialize /\ todo \in [Actors -> Seq(Steps)]
      /\ \A a \in Actors \ {"bus"} : todo[a] = <<>>
      /\ \A a \in Actors : WellFormed(todo[a])
      /\ job \in [Actors -> Jobs] /\ \A a \in Actors : ~job[a].busy /\ DOMAIN job[a].asks = {}
  <2> HIDE DEF Steps, Jobs, NoJob, CosaSecurityInitialize
  <2> QED
    BY <1>1, <1>2, <1>3, <1>4 DEF Actors
<1>6. flash \in [Features -> BOOLEAN] /\ cfg = flash
  BY StoresAssumption DEF Init
<1>7. mem \in [Features -> BOOLEAN] /\ wifi \in BOOLEAN /\ consumer \in BOOLEAN /\ marker \in BOOLEAN
  BY DEF Init
<1>8. promised \in [Features -> SUBSET BOOLEAN] /\ \A f \in Features : flash[f] \in promised[f]
  BY <1>1, <1>6
<1>9. faults \in [set : Nat, commit : Nat, consumer : Nat, cut : BOOLEAN, overlap : BOOLEAN]
  BY <1>1
<1>10. Typed
  BY <1>1, <1>5, <1>6, <1>7, <1>8, <1>9 DEF Typed, DataTyped
<1>11. Head(todo["bus"]).op = "load" /\ todo["bus"] # <<>> /\ Loading
  BY <1>5, BootHandler DEF Loading
<1>12. "bus" \in Actors /\ "webconfig" \in Actors \ {"bus"} /\ "wifi" \in Actors \ {"bus"}
  BY DEF Actors
<1>13. Control
  <2>1. \A i \in 1 .. Len(todo["wifi"]) : todo["wifi"][i].f = "dcl"
    BY <1>3, <1>5, <1>12
  <2> QED
    BY <1>1, <1>5, <1>12, <2>1 DEF Control
<1>14. Exclusive
  BY <1>5, <1>12 DEF Exclusive
<1>15. Aimed
  <2>1. ASSUME NEW a \in Actors, NEW i \in 1 .. Len(todo[a])
        PROVE  todo[a][i].op \notin Writes /\ ~Lone(todo[a], i)
    <3>1. a = "bus"
      BY <1>3, <1>5, <2>1
    <3> QED
      BY <1>5, <2>1, <3>1, BootHandler
  <2> QED
    BY <2>1 DEF Aimed
<1>16. AllKept /\ AllSame
  <2>1. \A f \in Features : \A a \in Actors : ~Moving(a, f)
    BY <1>5, <1>11 DEF Moving
  <2> QED
    BY <1>5, <1>6, <1>8, <1>11, <2>1 DEF AllKept, Kept, AllSame, Same
<1>17. Runs
  <2>1. Head(todo["bus"]).op \in BootOps \cup {"dclAtInit", "initOrClear"}
    BY <1>11 DEF BootOps
  <2>2. HeadRuns(Head(todo["bus"]))
    BY <2>1, RunsCases DEF HeadRuns
  <2> QED
    BY <1>5, <1>11, <1>12, <2>2 DEF Runs
<1> QED
  BY <1>10, <1>13, <1>14, <1>15, <1>16, <1>17

(* Every reachable state is typed and its handlers are well formed, with or *)
(* without requests that run beside each other.                             *)
LEMMA Controlled == Spec => [](Typed /\ Control)
<1>1. Init => Typed /\ Control
  BY InitFacts
<1>2. Typed /\ Control /\ [Next]_vars => Typed' /\ Control'
  BY NextMoves, TypedStep, ControlStep
<1> QED
  BY <1>1, <1>2, PTL DEF Spec

IInv == Typed /\ Control /\ Exclusive /\ Aimed /\ AllKept /\ AllSame /\ Runs

LEMMA IInvStep ==
    ASSUME Serialised, IInv, [Next]_vars
    PROVE  IInv'
<1>1. Moves
  BY NextMoves DEF IInv
<1>2. Typed' /\ Control'
  BY <1>1, TypedStep, ControlStep DEF IInv
<1>3. Exclusive' /\ Aimed'
  BY <1>1, ExclusiveStep, AimedStep DEF IInv
<1>4. AllKept' /\ AllSame'
  BY <1>1, <1>2, KeptStep, SameStep DEF IInv
<1>5. Runs'
  BY <1>1, <1>2, <1>3, RunsStep DEF IInv
<1> QED
  BY <1>2, <1>3, <1>4, <1>5 DEF IInv

LEMMA Invariance ==
    ASSUME Serialised
    PROVE  Spec => []IInv
<1>1. Init => IInv
  BY InitFacts DEF IInv
<1>2. IInv /\ [Next]_vars => IInv'
  BY IInvStep
<1> QED
  BY <1>1, <1>2, PTL DEF Spec

(* Once the component is up and nobody serves a request nobody has steps    *)
(* left.                                                                    *)
LEMMA UpFacts ==
    ASSUME Typed, Control, up
    PROVE  ~Loading /\ (Quiet => \A a \in Actors : todo[a] = <<>>)
<1>1. todo["bus"] # <<>> => Head(todo["bus"]) = todo["bus"][1] /\ 1 \in 1 .. Len(todo["bus"])
  BY JobFacts DEF Actors
<1>2. ~Loading
  BY <1>1 DEF Loading, Control, Actors, BootOps
<1>3. Quiet => \A a \in Actors : todo[a] = <<>>
  BY DEF Quiet, Control
<1> QED
  BY <1>2, <1>3

(* The switches, syscfg, the requests under way and the environment have    *)
(* their types whatever the handlers, the blob, the event callback and the  *)
(* restarts do to each other.                                               *)
THEOREM TypeCorrect == Spec => []TypeOK
<1>1. ASSUME Typed, Control PROVE TypeOK
  <2>1. ASSUME NEW a \in Actors
        PROVE  DOMAIN job[a].asks \subseteq Features /\ (todo[a] # <<>> => Feature(a) \in Features)
    <3>1. DOMAIN job[a].asks \subseteq Features /\ todo[a] \in Seq(Steps)
      BY <1>1, JobFacts
    <3>2. todo[a] # <<>> => Head(todo[a]) \in Steps
      BY <3>1, HeadTailProperties
    <3> QED
      BY <3>1, <3>2, FieldsOfSteps DEF Feature
  <2> QED
    BY <1>1, <2>1 DEF TypeOK, Typed, DataTyped
<1>2. Typed /\ Control => TypeOK
  BY <1>1
<1> QED
  BY <1>2, Controlled, PTL

(* A value a request wrote and answered for survives every later death,     *)
(* reboot and failed write, and a request that failed or was cut off at any *)
(* step leaves the old or the new value in each copy, as long as no setter  *)
(* runs beside the blob: CosaSetSysCfgUlong and the set, commit and         *)
(* assignment of its callers are enough, whatever the event callback        *)
(* commits in between.                                                      *)
THEOREM ValuesDurable ==
    ASSUME Serialised
    PROVE  Spec => []Durable
<1>1. IInv => Durable
  <2> SUFFICES ASSUME IInv, NEW f \in Features \ {"dcl"}
               PROVE  flash[f] \in promised[f] /\ cfg[f] \in promised[f] /\ (up => mem[f] \in promised[f])
    BY DEF Durable
  <2>1. Kept(f)
    BY DEF IInv, AllKept
  <2>2. up => ~Loading
    BY UpFacts DEF IInv
  <2> QED
    BY <2>1, <2>2 DEF Kept
<1>2. Spec => []IInv
  BY Invariance
<1> QED
  BY <1>1, <1>2, PTL

(* With no failed write so far, memory and syscfg agree on every switch but *)
(* data collection's when no handler is under way, and so does flash unless *)
(* the process has died between a set and its commit.                       *)
THEOREM ValuesAgree ==
    ASSUME Serialised
    PROVE  Spec => []Agreement
<1>1. IInv => Agreement
  <2> SUFFICES ASSUME IInv, Quiet, faults.set + faults.commit = 0, NEW f \in Features \ {"dcl"}
               PROVE  mem[f] = cfg[f] /\ (faults.cut \/ cfg[f] = flash[f])
    BY DEF Agreement
  <2>1. up
    BY DEF Quiet
  <2>2. ~Loading /\ \A a \in Actors : todo[a] = <<>>
    BY <2>1, UpFacts DEF IInv
  <2>5. Same(f)
    BY DEF IInv, AllSame
  <2>6. \A a \in Actors : ~Moving(a, f)
    BY <2>2 DEF Moving
  <2> QED
    BY <2>2, <2>5, <2>6 DEF Same
<1>2. Spec => []IInv
  BY Invariance
<1> QED
  BY <1>1, <1>2, PTL

(* Data collection that is switched on with the agent is running, when no   *)
(* write has failed and the event callback met no handler in the middle.    *)
THEOREM CollectionIsRunning ==
    ASSUME Serialised
    PROVE  Spec => []CollectionRuns
<1>1. IInv => CollectionRuns
  <2> SUFFICES ASSUME IInv, Quiet, mem["fp"], mem["dcl"], faults.set + faults.commit = 0, ~faults.overlap
               PROVE  consumer
    BY DEF CollectionRuns
  <2>1. up
    BY DEF Quiet
  <2>2. \A a \in Actors : todo[a] = <<>>
    BY <2>1, UpFacts DEF IInv
  <2>3. Collecting
    BY <2>2 DEF IInv, Runs
  <2> QED
    BY <2>3 DEF Collecting
<1>2. Spec => []IInv
  BY Invariance
<1> QED
  BY <1>1, <1>2, PTL
=============================================================================
