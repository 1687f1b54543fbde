----------------------------- MODULE GuiProofs ------------------------------
(***************************************************************************)
(* Proofs about the desktop app's flows (GuiFlows), for any profiles,      *)
(* gauges, and number of flows, clicks and commands given up:              *)
(*   - PaysOnce: one click pays at most once;                              *)
(*   - OneWriter: two commands never write one profile's state at once;    *)
(*   - GaugesOwn, GaugesFresh: at rest the gauges show the active profile, *)
(*     and are up to date.                                                 *)
(*                                                                         *)
(* The properties speak of commands that run and of the app at rest.  What *)
(* keeps them is in the programs still to run: a payment is the first      *)
(* command, or the second after a check; after a change every gauge is     *)
(* still to be read (Form).  Of the flows in progress at most one does     *)
(* more than list (OneActs); a gauge that shows another profile, or is out *)
(* of date, has its read still to come in a flow that will not end before  *)
(* it (Own, Fresh).                                                        *)
(***************************************************************************)
EXTENDS GuiFlows, FiniteSetTheorems, TLAPS

-----------------------------------------------------------------------------
(* Programs *)

Reads == {"show", "base", "stealth", "pool"}
Cmds == Changes \cup {"check", "paycode", "list"} \cup Reads
Marked == {"paycode", "checkpay"}   \* what may end a flow

MarkedFirst(prog) == \A j \in DOMAIN prog : prog[j] \in Marked => j = 1
PayForm(prog) ==
  \A j \in DOMAIN prog : prog[j] \in Pays =>
    j = 1 \/ (j = 2 /\ prog[2] = "withdraw" /\ prog[1] \in {"check", "checkpay"})
ToRead(prog, i) == \E j \in DOMAIN prog : prog[j] = Gauges[i]
Refreshing(prog) ==
  \A j \in DOMAIN prog : prog[j] \in Changes =>
    \A i \in DOMAIN Gauges : \E k \in DOMAIN prog : k > j /\ prog[k] = Gauges[i]
Form(prog) == PayForm(prog) /\ MarkedFirst(prog) /\ Refreshing(prog)

LEMMA GaugeFacts ==
  /\ Gauges \in Seq(Cmds)
  /\ \A j \in DOMAIN Gauges : Gauges[j] \in Reads
  /\ GaugeReads \subseteq Reads
  /\ \A i \in DOMAIN Gauges : Gauges[i] \in GaugeReads
  /\ Reads \cap (Changes \cup {"check", "paycode", "list"}) = {}
<1>1. Gauges \in Seq(Reads)
  BY GuiAssumption DEF GuiAssumption, Reads
<1>2. Reads \subseteq Cmds
  BY DEF Cmds
<1>3. Gauges \in Seq(Cmds)
  BY <1>1, <1>2
<1>4. \A j \in DOMAIN Gauges : Gauges[j] \in Reads
  BY <1>1
<1>5. Reads \cap (Changes \cup {"check", "paycode", "list"}) = {}
  BY DEF Reads, Changes, Writes
<1> QED
  BY <1>3, <1>4, <1>5 DEF GaugeReads

LEMMA TailIs ==
  ASSUME NEW prog \in Seq(Cmds), prog # <<>>
  PROVE  /\ Head(prog) = prog[1] /\ 1 \in DOMAIN prog
         /\ Tail(prog) \in Seq(Cmds)
         /\ \A j \in DOMAIN Tail(prog) : j \in Nat \ {0} /\ j + 1 \in DOMAIN prog /\ Tail(prog)[j] = prog[j + 1]
         /\ \A k \in DOMAIN prog : k \in Nat \ {0} /\ (k # 1 => k - 1 \in DOMAIN Tail(prog))
OBVIOUS

LEMMA TailForm ==
  ASSUME NEW prog \in Seq(Cmds), prog # <<>>, Form(prog)
  PROVE  Form(Tail(prog))
<1> DEFINE t == Tail(prog)
<1>1. \A j \in DOMAIN t : j \in Nat \ {0} /\ j + 1 \in DOMAIN prog /\ t[j] = prog[j + 1]
  BY TailIs
<1>2. \A k \in DOMAIN prog : k \in Nat \ {0} /\ (k # 1 => k - 1 \in DOMAIN t)
  BY TailIs
<1> HIDE DEF t
<1>3. PayForm(t)
  <2> SUFFICES ASSUME NEW j \in DOMAIN t, t[j] \in Pays PROVE j = 1
    BY DEF PayForm
  <2>1. j + 1 \in DOMAIN prog /\ prog[j + 1] \in Pays
    BY <1>1
  <2>2. j + 1 = 1 \/ j + 1 = 2
    BY <2>1 DEF Form, PayForm
  <2> QED
    BY <1>1, <2>2
<1>4. MarkedFirst(t)
  <2> SUFFICES ASSUME NEW j \in DOMAIN t, t[j] \in Marked PROVE FALSE
    BY DEF MarkedFirst
  <2>1. j + 1 \in DOMAIN prog /\ prog[j + 1] \in Marked
    BY <1>1
  <2>2. j + 1 = 1
    BY <2>1 DEF Form, MarkedFirst
  <2> QED
    BY <1>1, <2>2
<1>5. Refreshing(t)
  <2> SUFFICES ASSUME NEW j \in DOMAIN t, t[j] \in Changes, NEW i \in DOMAIN Gauges
               PROVE  \E k \in DOMAIN t : k > j /\ t[k] = Gauges[i]
    BY DEF Refreshing
  <2>1. j + 1 \in DOMAIN prog /\ prog[j + 1] \in Changes /\ j \in Nat \ {0}
    BY <1>1
  <2>2. PICK k \in DOMAIN prog : k > j + 1 /\ prog[k] = Gauges[i]
    BY <2>1 DEF Form, Refreshing
  <2>3. k \in Nat /\ k - 1 \in DOMAIN t
    BY <1>2, <2>1, <2>2
  <2>4. t[k - 1] = prog[k]
    <3>1. t[k - 1] = prog[(k - 1) + 1]
      BY <1>1, <2>3
    <3>2. (k - 1) + 1 = k
      BY <2>3
    <3> QED
      BY <3>1, <3>2
  <2>5. k - 1 > j
    BY <2>1, <2>2, <2>3
  <2> QED
    BY <2>2, <2>3, <2>4, <2>5
<1> QED
  BY <1>3, <1>4, <1>5 DEF Form, t

LEMMA EmptyForm == <<>> \in Seq(Cmds) /\ Form(<<>>)
BY DEF Form, PayForm, MarkedFirst, Refreshing

(* What a flow goes on with is a part of what it had to do, behind the      *)
(* first command.                                                           *)
LEMMA AfterParts ==
  ASSUME NEW prog \in Seq(Cmds), prog # <<>>, Form(prog), NEW good \in BOOLEAN
  PROVE  /\ After(prog, good) \in Seq(Cmds) /\ Form(After(prog, good))
         /\ \A j \in DOMAIN After(prog, good) : \E k \in DOMAIN prog : k > 1 /\ After(prog, good)[j] = prog[k]
<1> DEFINE t == Tail(prog)
<1>1. /\ t \in Seq(Cmds) /\ Form(t)
      /\ \A j \in DOMAIN t : j \in Nat \ {0} /\ j + 1 \in DOMAIN prog /\ t[j] = prog[j + 1]
  BY TailIs, TailForm
<1> HIDE DEF t
<1>2. CASE After(prog, good) = <<>>
  BY <1>2, EmptyForm
<1>3. CASE After(prog, good) = t
  <2>1. \A j \in DOMAIN t : j + 1 > 1
    BY <1>1
  <2> QED
    BY <1>1, <1>3, <2>1
<1>4. CASE t # <<>> /\ After(prog, good) = Tail(t)
  <2>1. /\ Tail(t) \in Seq(Cmds) /\ Form(Tail(t))
        /\ \A j \in DOMAIN Tail(t) : j \in Nat \ {0} /\ j + 1 \in DOMAIN t /\ Tail(t)[j] = t[j + 1]
    BY <1>1, <1>4, TailIs, TailForm
  <2>2. ASSUME NEW j \in DOMAIN Tail(t) PROVE \E k \in DOMAIN prog : k > 1 /\ Tail(t)[j] = prog[k]
    <3>1. j + 1 \in DOMAIN t /\ Tail(t)[j] = t[j + 1] /\ j \in Nat
      BY <2>1
    <3>2. (j + 1) + 1 \in DOMAIN prog /\ t[j + 1] = prog[(j + 1) + 1]
      BY <1>1, <3>1
    <3>3. (j + 1) + 1 > 1
      BY <3>1
    <3> QED
      BY <3>1, <3>2, <3>3
  <2> QED
    BY <1>4, <2>1, <2>2
<1>5. After(prog, good) \in {<<>>, t} \/ (t # <<>> /\ After(prog, good) = Tail(t))
  BY DEF After, t
<1> QED
  BY <1>2, <1>3, <1>4, <1>5

(* After a check that broadcast there is no payment left. *)
LEMMA AfterPaid ==
  ASSUME NEW prog \in Seq(Cmds), prog # <<>>, Form(prog), prog[1] = "checkpay"
  PROVE  \A j \in DOMAIN After(prog, TRUE) : After(prog, TRUE)[j] \notin Pays
<1> DEFINE t == Tail(prog)
<1>1. /\ t \in Seq(Cmds) /\ Head(prog) = prog[1]
      /\ \A j \in DOMAIN t : j \in Nat \ {0} /\ j + 1 \in DOMAIN prog /\ t[j] = prog[j + 1]
  BY TailIs
<1> HIDE DEF t
<1>2. \A j \in DOMAIN t : t[j] \in Pays => j = 1 /\ t[1] = "withdraw"
  <2> SUFFICES ASSUME NEW j \in DOMAIN t, t[j] \in Pays PROVE j = 1 /\ t[1] = "withdraw"
    OBVIOUS
  <2>1. j + 1 \in DOMAIN prog /\ prog[j + 1] \in Pays /\ j \in Nat \ {0}
    BY <1>1
  <2>2. j + 1 = 2 /\ prog[2] = "withdraw"
    BY <2>1 DEF Form, PayForm
  <2>3. j = 1
    BY <2>1, <2>2
  <2> QED
    BY <1>1, <2>2, <2>3
<1>3. CASE t # <<>> /\ Head(t) = "withdraw"
  <2>1. After(prog, TRUE) = Tail(t)
    BY <1>1, <1>3 DEF After, t
  <2>2. \A j \in DOMAIN Tail(t) : j \in Nat \ {0} /\ j + 1 \in DOMAIN t /\ Tail(t)[j] = t[j + 1]
    BY <1>1, <1>3, TailIs
  <2>3. \A j \in DOMAIN Tail(t) : j + 1 # 1
    BY <2>2
  <2> QED
    BY <1>2, <2>1, <2>2, <2>3
<1>4. CASE ~(t # <<>> /\ Head(t) = "withdraw")
  <2>1. After(prog, TRUE) = t
    BY <1>1, <1>4 DEF After, t
  <2>2. t # <<>> => Head(t) = t[1]
    BY <1>1
  <2>3. \A j \in DOMAIN t : t # <<>>
    OBVIOUS
  <2> QED
    BY <1>2, <1>4, <2>1, <2>2, <2>3
<1> QED
  BY <1>3, <1>4

(* A gauge still to be read stays so, unless the flow is cut. *)
LEMMA AfterReads ==
  ASSUME NEW prog \in Seq(Cmds), prog # <<>>, Form(prog), NEW good \in BOOLEAN,
         NEW i \in DOMAIN Gauges, ToRead(prog, i), Gauges[i] # prog[1], prog[1] # "paycode",
         prog[1] = "checkpay" => good
  PROVE  ToRead(After(prog, good), i)
<1> DEFINE t == Tail(prog)
<1>1. /\ t \in Seq(Cmds) /\ Head(prog) = prog[1]
      /\ \A j \in DOMAIN t : j \in Nat \ {0} /\ j + 1 \in DOMAIN prog /\ t[j] = prog[j + 1]
      /\ \A k \in DOMAIN prog : k \in Nat \ {0} /\ (k # 1 => k - 1 \in DOMAIN t)
  BY TailIs
<1> HIDE DEF t
<1>2. PICK j \in DOMAIN t : t[j] = Gauges[i]
  <2>1. PICK k \in DOMAIN prog : prog[k] = Gauges[i]
    BY DEF ToRead
  <2>2. k # 1 /\ k \in Nat \ {0} /\ k - 1 \in DOMAIN t
    BY <1>1, <2>1
  <2>3. t[k - 1] = prog[(k - 1) + 1] /\ (k - 1) + 1 = k
    BY <1>1, <2>2
  <2> QED
    BY <2>1, <2>2, <2>3
<1>3. CASE prog[1] = "checkpay" /\ t # <<>> /\ Head(t) = "withdraw"
  <2>1. After(prog, good) = Tail(t)
    BY <1>1, <1>3 DEF After, t
  <2>2. /\ \A m \in DOMAIN Tail(t) : m \in Nat \ {0} /\ m + 1 \in DOMAIN t /\ Tail(t)[m] = t[m + 1]
        /\ \A k \in DOMAIN t : k \in Nat \ {0} /\ (k # 1 => k - 1 \in DOMAIN Tail(t))
        /\ Head(t) = t[1]
    BY <1>1, <1>3, TailIs
  <2>3. j # 1
    BY <1>2, <1>3, <2>2, GaugeFacts DEF Changes, Writes
  <2>4. j - 1 \in DOMAIN Tail(t) /\ (j - 1) + 1 = j
    BY <1>1, <2>2, <2>3
  <2>5. Tail(t)[j - 1] = t[j]
    BY <2>2, <2>4
  <2> QED
    BY <1>2, <2>1, <2>4, <2>5 DEF ToRead
<1>4. CASE ~(prog[1] = "checkpay" /\ t # <<>> /\ Head(t) = "withdraw")
  <2>1. After(prog, good) = t
    BY <1>1, <1>4 DEF After, t
  <2> QED
    BY <1>2, <2>1 DEF ToRead
<1> QED
  BY <1>3, <1>4

-----------------------------------------------------------------------------
(* The programs of the tabs have the form. *)

Covers(prog) == \A i \in DOMAIN Gauges : ToRead(prog, i)
Plain(prog) == \A j \in DOMAIN prog : prog[j] \notin Pays \cup Marked
Silent(prog) == \A j \in DOMAIN prog : prog[j] \notin Changes

LEMMA Joined ==
  ASSUME NEW s \in Seq(Cmds), NEW t \in Seq(Cmds)
  PROVE  /\ s \o t \in Seq(Cmds)
         /\ \A j \in DOMAIN s : j \in DOMAIN (s \o t) /\ (s \o t)[j] = s[j]
         /\ \A j \in DOMAIN t : j + Len(s) \in DOMAIN (s \o t) /\ (s \o t)[j + Len(s)] = t[j]
         /\ \A j \in DOMAIN (s \o t) :
              \/ j \in DOMAIN s /\ (s \o t)[j] = s[j]
              \/ j - Len(s) \in DOMAIN t /\ (s \o t)[j] = t[j - Len(s)]
         /\ \A j \in DOMAIN s : j \in Nat \ {0} /\ j <= Len(s)
         /\ \A j \in DOMAIN t : j \in Nat \ {0}
         /\ \A j \in DOMAIN (s \o t) : j \in Nat \ {0}
         /\ Len(s) \in Nat
OBVIOUS

LEMMA PlainJoined ==
  ASSUME NEW s \in Seq(Cmds), NEW t \in Seq(Cmds), Plain(s), Plain(t)
  PROVE  s \o t \in Seq(Cmds) /\ Plain(s \o t)
BY Joined DEF Plain

LEMMA CoversJoined ==
  ASSUME NEW s \in Seq(Cmds), NEW t \in Seq(Cmds), Covers(t), Refreshing(t)
  PROVE  Covers(s \o t) /\ Refreshing(s \o t)
<1> DEFINE u == s \o t
           n == Len(s)
<1>1. /\ \A j \in DOMAIN s : j \in DOMAIN u /\ u[j] = s[j] /\ j \in Nat \ {0} /\ j <= n
      /\ \A j \in DOMAIN t : j + n \in DOMAIN u /\ u[j + n] = t[j] /\ j \in Nat \ {0}
      /\ \A j \in DOMAIN u : \/ j \in DOMAIN s /\ u[j] = s[j]
                             \/ j - n \in DOMAIN t /\ u[j] = t[j - n]
      /\ \A j \in DOMAIN u : j \in Nat \ {0}
      /\ n \in Nat
  BY Joined
<1> HIDE DEF u, n
<1>2. Covers(u)
  BY <1>1 DEF Covers, ToRead
<1>3. Refreshing(u)
  <2> SUFFICES ASSUME NEW j \in DOMAIN u, u[j] \in Changes, NEW i \in DOMAIN Gauges
               PROVE  \E k \in DOMAIN u : k > j /\ u[k] = Gauges[i]
    BY DEF Refreshing
  <2>1. CASE j \in DOMAIN s
    <3>1. PICK k \in DOMAIN t : t[k] = Gauges[i]
      BY DEF Covers, ToRead
    <3>2. k + n \in DOMAIN u /\ u[k + n] = t[k] /\ k + n > j
      BY <1>1, <2>1, <3>1
    <3> QED
      BY <3>1, <3>2
  <2>2. CASE j - n \in DOMAIN t /\ u[j] = t[j - n]
    <3>1. PICK k \in DOMAIN t : k > j - n /\ t[k] = Gauges[i]
      BY <2>2 DEF Refreshing
    <3>2. k + n \in DOMAIN u /\ u[k + n] = t[k] /\ k \in Nat /\ j \in Nat
      BY <1>1, <3>1
    <3>3. k + n > j
      BY <1>1, <3>1, <3>2
    <3> QED
      BY <3>1, <3>2, <3>3
  <2> QED
    BY <1>1, <2>1, <2>2
<1> QED
  BY <1>2, <1>3 DEF u

LEMMA SilentJoined ==
  ASSUME NEW s \in Seq(Cmds), NEW t \in Seq(Cmds), Refreshing(s), Silent(t)
  PROVE  Refreshing(s \o t)
<1> DEFINE u == s \o t
           n == Len(s)
<1>1. /\ \A j \in DOMAIN s : j \in DOMAIN u /\ u[j] = s[j]
      /\ \A j \in DOMAIN u : \/ j \in DOMAIN s /\ u[j] = s[j]
                             \/ j - n \in DOMAIN t /\ u[j] = t[j - n]
  BY Joined
<1> HIDE DEF u, n
<1> QED
  BY <1>1 DEF Refreshing, Silent, u

LEMMA HeadPlain ==
  ASSUME NEW s \in Seq(Cmds), NEW t \in Seq(Cmds), PayForm(s), MarkedFirst(s), Plain(t)
  PROVE  s \o t \in Seq(Cmds) /\ PayForm(s \o t) /\ MarkedFirst(s \o t)
<1> DEFINE u == s \o t
           n == Len(s)
<1>1. /\ u \in Seq(Cmds)
      /\ \A j \in DOMAIN s : j \in DOMAIN u /\ u[j] = s[j]
      /\ \A j \in DOMAIN u : \/ j \in DOMAIN s /\ u[j] = s[j]
                             \/ j - n \in DOMAIN t /\ u[j] = t[j - n]
      /\ \A j \in DOMAIN s : j \in Nat \ {0} /\ (j = 2 => 1 \in DOMAIN s)
  BY Joined
<1> HIDE DEF u, n
<1>2. PayForm(u)
  <2> SUFFICES ASSUME NEW j \in DOMAIN u, u[j] \in Pays
               PROVE  j = 1 \/ (j = 2 /\ u[2] = "withdraw" /\ u[1] \in {"check", "checkpay"})
    BY DEF PayForm
  <2>1. j \in DOMAIN s /\ u[j] = s[j]
    BY <1>1 DEF Plain
  <2>2. j = 1 \/ (j = 2 /\ s[2] = "withdraw" /\ s[1] \in {"check", "checkpay"})
    BY <2>1 DEF PayForm
  <2> QED
    BY <1>1, <2>1, <2>2
<1>3. MarkedFirst(u)
  BY <1>1 DEF MarkedFirst, Plain
<1> QED
  BY <1>1, <1>2, <1>3 DEF u

LEMMA HeadForm ==
  ASSUME NEW s \in Seq(Cmds), NEW t \in Seq(Cmds), PayForm(s), MarkedFirst(s),
         Plain(t), Covers(t), Refreshing(t)
  PROVE  s \o t \in Seq(Cmds) /\ Form(s \o t)
BY HeadPlain, CoversJoined DEF Form

LEMMA PlainForm == \A s : Plain(s) => PayForm(s) /\ MarkedFirst(s)
BY DEF Plain, PayForm, MarkedFirst

LEMMA GaugesForm ==
  /\ Gauges \in Seq(Cmds) /\ Plain(Gauges) /\ Covers(Gauges) /\ Refreshing(Gauges) /\ Form(Gauges)
  /\ Silent(Gauges)
<1>1. Gauges \in Seq(Cmds) /\ \A j \in DOMAIN Gauges : Gauges[j] \notin Changes \cup {"paycode"}
  BY GaugeFacts
<1>2. Plain(Gauges)
  BY <1>1 DEF Plain, Pays, Marked, Changes, Writes
<1>3. Covers(Gauges)
  BY DEF Covers, ToRead
<1>4. Refreshing(Gauges)
  BY <1>1 DEF Refreshing
<1> QED
  BY <1>1, <1>2, <1>3, <1>4, PlainForm DEF Form, Silent

LEMMA ManyIs ==
  ASSUME NEW c \in Cmds \ (Pays \cup Marked), NEW n \in Nat
  PROVE  Many(c, n) \in Seq(Cmds) /\ Plain(Many(c, n))
<1>1. Many(c, n) \in [1 .. n -> Cmds]
  BY DEF Many
<1>2. Many(c, n) \in Seq(Cmds)
  BY <1>1
<1>3. \A j \in DOMAIN Many(c, n) : Many(c, n)[j] = c
  BY DEF Many
<1> QED
  BY <1>2, <1>3 DEF Plain

LEMMA ListForm == <<"list">> \in Seq(Cmds) /\ Plain(<<"list">>) /\ Silent(<<"list">>) /\ Form(<<"list">>)
<1>1. <<"list">> \in Seq(Cmds)
  BY DEF Cmds
<1>2. Plain(<<"list">>) /\ Silent(<<"list">>)
  BY DEF Plain, Silent, Pays, Marked, Changes, Writes
<1>3. Refreshing(<<"list">>)
  BY <1>2 DEF Silent, Refreshing
<1> QED
  BY <1>1, <1>2, <1>3, PlainForm DEF Form

LEMMA ScanForm == \A prog \in ScanPrograms : prog \in Seq(Cmds) /\ Form(prog)
<1>1. <<"scan", "list">> \in Seq(Cmds) /\ Plain(<<"scan", "list">>)
  BY DEF Cmds, Changes, Writes, Plain, Pays, Marked
<1>2. <<"scan", "list">> \o Gauges \in Seq(Cmds) /\ Form(<<"scan", "list">> \o Gauges)
  BY <1>1, GaugesForm, PlainForm, HeadForm
<1> QED
  BY <1>2 DEF ScanPrograms

LEMMA InitForm == \A prog \in InitPrograms : prog \in Seq(Cmds) /\ Form(prog)
<1>1. <<"init", "list">> \in Seq(Cmds) /\ Plain(<<"init", "list">>)
  BY DEF Cmds, Changes, Writes, Plain, Pays, Marked
<1>2. <<"init", "list">> \o Gauges \in Seq(Cmds) /\ Form(<<"init", "list">> \o Gauges)
  BY <1>1, GaugesForm, PlainForm, HeadForm
<1>3. ASSUME NEW retry \in {<<>>, <<"init">>}
      PROVE  LET prog == <<"paycode", "send", "scan">> \o retry \o <<"list">> \o Gauges
             IN  prog \in Seq(Cmds) /\ Form(prog)
  <2> DEFINE a == <<"paycode", "send", "scan">>
  <2>1. a \in Seq(Cmds) /\ PayForm(a) /\ MarkedFirst(a)
    BY DEF Cmds, Changes, Writes, PayForm, MarkedFirst, Pays, Marked
  <2>2. retry \in Seq(Cmds) /\ Plain(retry)
    <3>1. <<"init">> \in Seq(Cmds) /\ Plain(<<"init">>)
      BY DEF Cmds, Changes, Writes, Plain, Pays, Marked
    <3>2. <<>> \in Seq(Cmds) /\ Plain(<<>>)
      BY DEF Plain
    <3> QED
      BY <3>1, <3>2
  <2> HIDE DEF a
  <2>3. a \o retry \in Seq(Cmds) /\ PayForm(a \o retry) /\ MarkedFirst(a \o retry)
    BY <2>1, <2>2, HeadPlain
  <2> DEFINE b == a \o retry
  <2> HIDE DEF b
  <2>4. b \o <<"list">> \in Seq(Cmds) /\ PayForm(b \o <<"list">>) /\ MarkedFirst(b \o <<"list">>)
    BY <2>3, ListForm, HeadPlain DEF b
  <2>5. (b \o <<"list">>) \o Gauges \in Seq(Cmds) /\ Form((b \o <<"list">>) \o Gauges)
    BY <2>4, GaugesForm, HeadForm
  <2> QED
    BY <2>5 DEF a, b
<1> QED
  BY <1>2, <1>3 DEF InitPrograms

LEMMA ImportForm == \A prog \in ImportPrograms : prog \in Seq(Cmds) /\ Form(prog)
<1>1. ASSUME NEW n \in 0 .. MaxMany
      PROVE  LET prog == <<"scan", "list", "list">> \o Many("stage", n) \o <<"list">> \o Gauges
             IN  prog \in Seq(Cmds) /\ Form(prog)
  <2> DEFINE a == <<"scan", "list", "list">>
             b == Many("stage", n)
  <2>1. a \in Seq(Cmds) /\ Plain(a)
    BY DEF Cmds, Changes, Writes, Plain, Pays, Marked
  <2>2. b \in Seq(Cmds) /\ Plain(b)
    <3>1. "stage" \in Cmds \ (Pays \cup Marked)
      BY DEF Cmds, Changes, Writes, Pays, Marked
    <3>2. n \in Nat
      BY GuiAssumption DEF GuiAssumption
    <3> QED
      BY <3>1, <3>2, ManyIs
  <2> HIDE DEF a, b
  <2>3. a \o b \in Seq(Cmds) /\ Plain(a \o b)
    BY <2>1, <2>2, PlainJoined
  <2>4. (a \o b) \o <<"list">> \in Seq(Cmds) /\ Plain((a \o b) \o <<"list">>)
    BY <2>3, ListForm, PlainJoined
  <2>5. ((a \o b) \o <<"list">>) \o Gauges \in Seq(Cmds) /\ Form(((a \o b) \o <<"list">>) \o Gauges)
    BY <2>4, GaugesForm, PlainForm, HeadForm
  <2> QED
    BY <2>5 DEF a, b
<1>2. ASSUME NEW n \in 1 .. MaxMany
      PROVE  LET prog == Many("import", n) \o Gauges \o <<"list">>
             IN  prog \in Seq(Cmds) /\ Form(prog)
  <2> DEFINE b == Many("import", n)
  <2>1. b \in Seq(Cmds) /\ Plain(b)
    <3>1. "import" \in Cmds \ (Pays \cup Marked)
      BY DEF Cmds, Changes, Writes, Pays, Marked
    <3>2. n \in Nat
      BY GuiAssumption DEF GuiAssumption
    <3> QED
      BY <3>1, <3>2, ManyIs
  <2> HIDE DEF b
  <2>2. b \o Gauges \in Seq(Cmds) /\ Plain(b \o Gauges) /\ Refreshing(b \o Gauges)
    BY <2>1, GaugesForm, PlainJoined, CoversJoined
  <2>3. (b \o Gauges) \o <<"list">> \in Seq(Cmds) /\ Plain((b \o Gauges) \o <<"list">>)
    BY <2>2, ListForm, PlainJoined
  <2>4. Refreshing((b \o Gauges) \o <<"list">>)
    BY <2>2, ListForm, SilentJoined
  <2> QED
    BY <2>3, <2>4, PlainForm DEF Form, b
<1> QED
  BY <1>1, <1>2 DEF ImportPrograms

LEMMA PayForms == \A prog \in CheckPrograms \cup WithdrawPrograms : prog \in Seq(Cmds) /\ Form(prog)
<1>1. <<"check">> \in Seq(Cmds) /\ Form(<<"check">>)
  BY DEF Cmds, Form, PayForm, MarkedFirst, Refreshing, Changes, Writes, Pays, Marked
<1>2. <<"checkpay">> \o Gauges \in Seq(Cmds) /\ Form(<<"checkpay">> \o Gauges)
  <2>1. <<"checkpay">> \in Seq(Cmds) /\ PayForm(<<"checkpay">>) /\ MarkedFirst(<<"checkpay">>)
    BY DEF Cmds, Changes, Writes, PayForm, MarkedFirst
  <2> QED
    BY <2>1, GaugesForm, HeadForm
<1>3. ASSUME NEW first \in {<<>>, <<"check">>, <<"checkpay">>}
      PROVE  LET prog == first \o <<"withdraw">> \o Gauges
             IN  prog \in Seq(Cmds) /\ Form(prog)
  <2> DEFINE s == first \o <<"withdraw">>
             w == <<"withdraw">>
  <2>1. first \in Seq(Cmds) /\ w \in Seq(Cmds) /\ w[1] = "withdraw" /\ DOMAIN w = {1}
    <3>1. <<"check">> \in Seq(Cmds) /\ <<"checkpay">> \in Seq(Cmds) /\ <<"withdraw">> \in Seq(Cmds)
      BY DEF Cmds, Changes, Writes
    <3>2. first \in Seq(Cmds)
      <4>1. CASE first = <<>>
        BY <4>1, EmptyForm
      <4>2. CASE first \in {<<"check">>, <<"checkpay">>}
        BY <3>1, <4>2
      <4> QED
        BY <4>1, <4>2
    <3>3. w[1] = "withdraw" /\ DOMAIN w = {1}
      OBVIOUS
    <3> QED
      BY <3>1, <3>2, <3>3
  <2> HIDE DEF w
  <2>2. /\ s \in Seq(Cmds)
        /\ \A j \in DOMAIN s : \/ j \in DOMAIN first /\ s[j] = first[j]
                               \/ j = Len(first) + 1 /\ s[j] = "withdraw"
        /\ \A j \in DOMAIN first : s[j] = first[j]
    <3>1. /\ first \o w \in Seq(Cmds)
          /\ \A j \in DOMAIN (first \o w) :
               \/ j \in DOMAIN first /\ (first \o w)[j] = first[j]
               \/ j - Len(first) \in {1} /\ (first \o w)[j] = w[j - Len(first)]
          /\ \A j \in DOMAIN first : (first \o w)[j] = first[j]
          /\ \A j \in DOMAIN (first \o w) : j \in Nat
          /\ Len(first) \in Nat
      BY <2>1, Joined
    <3> QED
      BY <2>1, <3>1 DEF w
  <2> HIDE DEF s
  <2>3. PayForm(s) /\ MarkedFirst(s)
    <3>1. CASE first = <<>>
      <4>1. \A j \in DOMAIN s : j = 1
        BY <2>2, <3>1
      <4> QED
        BY <4>1 DEF PayForm, MarkedFirst
    <3>2. CASE first \in {<<"check">>, <<"checkpay">>}
      <4>1. s[1] \in {"check", "checkpay"} /\ \A j \in DOMAIN s : j = 1 \/ (j = 2 /\ s[j] = "withdraw")
        BY <2>2, <3>2
      <4> QED
        BY <4>1 DEF PayForm, MarkedFirst, Marked
    <3> QED
      BY <3>1, <3>2
  <2>4. s \o Gauges \in Seq(Cmds) /\ Form(s \o Gauges)
    BY <2>2, <2>3, GaugesForm, HeadForm
  <2> QED
    BY <2>4 DEF s
<1> QED
  BY <1>1, <1>2, <1>3 DEF CheckPrograms, WithdrawPrograms

LEMMA WalletForm ==
  <<"wallet">> \o Gauges \in Seq(Cmds) /\ Form(<<"wallet">> \o Gauges)
<1>1. <<"wallet">> \in Seq(Cmds) /\ Plain(<<"wallet">>)
  BY DEF Cmds, Changes, Writes, Plain, Pays, Marked
<1> QED
  BY <1>1, GaugesForm, PlainForm, HeadForm

LEMMA ProgramsForm ==
  ASSUME tab \in Tabs
  PROVE  \A prog \in Programs : prog \in Seq(Cmds) /\ Form(prog)
<1>1. <<"send">> \o Gauges \in Seq(Cmds) /\ Form(<<"send">> \o Gauges)
  <2>1. <<"send">> \in Seq(Cmds) /\ Plain(<<"send">>)
    BY DEF Cmds, Changes, Writes, Plain, Pays, Marked
  <2> QED
    BY <2>1, GaugesForm, PlainForm, HeadForm
<1> QED
  BY <1>1, ScanForm, InitForm, ImportForm, PayForms DEF Tabs, Programs

-----------------------------------------------------------------------------
(* Types *)

SlotType ==
  [prof : Profile \cup {None}, prog : Seq(Cmds), own : BOOLEAN, child : {"none", "runs", "did", "gone"},
   reply : BOOLEAN, exit : {"no", "early", "seen"}, good : BOOLEAN, fresh : BOOLEAN, paid : Nat,
   unsure : BOOLEAN]
LateType == [n : Nat, prof : Profile, cmd : Cmds, child : {"runs", "did"}]
GaugeType == [of : Profile \cup {None}, fresh : BOOLEAN]

SlotOk(s) ==
  /\ s \in SlotType /\ Form(s.prog)
  /\ s.prog = <<>> => s = Free
  /\ s.prog # <<>> => s.prof \in Profile /\ s.child # "none" /\ (s.exit = "no" <=> s.child # "gone")

GuiType ==
  /\ active \in Profile /\ tab \in Tabs /\ busy \in BOOLEAN /\ fix \in BOOLEAN
  /\ slot \in [1 .. Slots -> SlotType] /\ \A f \in 1 .. Slots : SlotOk(slot[f])
  /\ late \subseteq LateType
  /\ gauge \in [DOMAIN Gauges -> GaugeType]
  /\ started \in BOOLEAN /\ odd \in {"no", "unread", "mixed"}
  /\ clicks \in Nat /\ timeouts \in Nat

LEMMA FreeOk == Free \in SlotType /\ SlotOk(Free) /\ Free.prog = <<>>
<1>1. Free \in SlotType
  BY DEF Free, SlotType
<1> QED
  BY <1>1, EmptyForm DEF SlotOk, Free

LEMMA LiveProg ==
  ASSUME NEW s, SlotOk(s)
  PROVE  /\ s # Free <=> s.prog # <<>>
         /\ s.child \in {"runs", "did", "gone"} => s.prog # <<>>
BY FreeOk DEF SlotOk, Free

LEMMA SpawnedOk ==
  ASSUME NEW s \in SlotType, s.prof \in Profile, NEW prog \in Seq(Cmds), Form(prog)
  PROVE  /\ SlotOk(Spawned(s, prog))
         /\ Spawned(s, prog).prog = prog
         /\ prog = <<>> => Spawned(s, prog) = Free
         /\ prog # <<>> =>
              /\ Spawned(s, prog).prof = s.prof /\ Spawned(s, prog).paid = s.paid
              /\ Spawned(s, prog).unsure = s.unsure
              /\ Spawned(s, prog).child = IF Head(prog) \in Changes \cup Judged THEN "runs" ELSE "did"
<1>1. CASE prog = <<>>
  BY <1>1, FreeOk DEF Spawned
<1>2. CASE prog # <<>>
  <2> DEFINE c == IF Head(prog) \in Changes \cup Judged THEN "runs" ELSE "did"
  <2>1. c \in {"runs", "did"}
    OBVIOUS
  <2>2. Spawned(s, prog) = [s EXCEPT !.prog = prog, !.child = c, !.reply = FALSE, !.exit = "no",
                                     !.good = FALSE, !.fresh = FALSE]
    BY <1>2 DEF Spawned
  <2> HIDE DEF c
  <2>3. Spawned(s, prog) =
          [prof |-> s.prof, prog |-> prog, own |-> s.own, child |-> c, reply |-> FALSE, exit |-> "no",
           good |-> FALSE, fresh |-> FALSE, paid |-> s.paid, unsure |-> s.unsure]
    BY <2>2 DEF SlotType
  <2>4. /\ s.prof \in Profile \cup {None} /\ s.own \in BOOLEAN /\ s.paid \in Nat /\ s.unsure \in BOOLEAN
    BY DEF SlotType
  <2>5. Spawned(s, prog) \in SlotType
    BY <2>1, <2>3, <2>4 DEF SlotType
  <2> QED
    BY <1>2, <2>1, <2>3, <2>5 DEF SlotOk, c
<1> QED
  BY <1>1, <1>2

LEMMA FlowOk ==
  ASSUME NEW p \in Profile, NEW prog \in Seq(Cmds), Form(prog), NEW own \in BOOLEAN
  PROVE  /\ SlotOk(Flow(p, prog, own)) /\ Flow(p, prog, own).prog = prog
         /\ Flow(p, prog, own).paid = 0
         /\ prog # <<>> =>
              /\ Flow(p, prog, own).prof = p
              /\ Flow(p, prog, own).child = IF Head(prog) \in Changes \cup Judged THEN "runs" ELSE "did"
<1> DEFINE s == [Free EXCEPT !.prof = p, !.own = own]
<1>1. s \in SlotType /\ s.prof = p /\ s.paid = 0
  BY FreeOk DEF SlotType, Free
<1>2. Flow(p, prog, own) = Spawned(s, prog)
  BY DEF Flow
<1> HIDE DEF s
<1>3. Free.paid = 0
  BY DEF Free
<1> QED
  BY <1>1, <1>2, <1>3, SpawnedOk

-----------------------------------------------------------------------------
(* What a click adds: at most one flow that does more than list *)

Stays(f) == slot'[f] = slot[f] \/ slot'[f] = [slot[f] EXCEPT !.own = FALSE]
Lists1(f) == slot[f] = Free /\ \E p \in Profile : slot'[f] = Flow(p, <<"list">>, FALSE)
Adds(f, p, prog) == slot[f] = Free /\ \E own \in BOOLEAN : slot'[f] = Flow(p, prog, own)

OnlyLists == \A f \in 1 .. Slots : Stays(f) \/ Lists1(f)
Begins(p, prog) ==
  \E g \in 1 .. Slots : Adds(g, p, prog) /\ \A f \in 1 .. Slots : f # g => Stays(f) \/ Lists1(f)

LEMMA StartIs ==
  ASSUME NEW s \in [1 .. Slots -> SlotType], NEW flow \in SlotType, \E f \in 1 .. Slots : s[f] = Free
  PROVE  /\ \E g \in 1 .. Slots : s[g] = Free /\ Start(s, flow) = [s EXCEPT ![g] = flow]
         /\ Start(s, flow) \in [1 .. Slots -> SlotType]
<1> DEFINE g == CHOOSE f \in 1 .. Slots : s[f] = Free
<1>1. g \in 1 .. Slots /\ s[g] = Free
  OBVIOUS
<1>2. Start(s, flow) = [s EXCEPT ![g] = flow]
  BY DEF Start
<1> HIDE DEF g
<1> QED
  BY <1>1, <1>2

LEMMA FreeFinite ==
  /\ IsFiniteSet(FreeSlots) /\ Cardinality(FreeSlots) \in Nat
  /\ Room(1) => FreeSlots # {}
  /\ Room(2) => \A g : \E f \in FreeSlots : f # g
<1>1. IsFiniteSet(1 .. Slots)
  BY FS_Interval, GuiAssumption DEF GuiAssumption
<1>2. IsFiniteSet(FreeSlots) /\ Cardinality(FreeSlots) \in Nat
  BY <1>1, FS_Subset, FS_CardinalityType DEF FreeSlots
<1>3. Cardinality({}) = 0
  BY FS_EmptySet
<1>4. Room(1) => FreeSlots # {}
  BY <1>3 DEF Room
<1>5. ASSUME NEW g, Room(2) PROVE \E f \in FreeSlots : f # g
  <2> SUFFICES ASSUME \A f \in FreeSlots : f = g PROVE FALSE
    OBVIOUS
  <2>1. FreeSlots \subseteq {g}
    OBVIOUS
  <2>2. IsFiniteSet({g}) /\ Cardinality({g}) = 1
    BY FS_Singleton
  <2>3. Cardinality(FreeSlots) <= 1
    BY <2>1, <2>2, FS_Subset
  <2> QED
    BY <1>2, <1>5, <2>3 DEF Room
<1> QED
  BY <1>2, <1>4, <1>5

LEMMA LeftOk ==
  ASSUME NEW s, SlotOk(s)
  PROVE  /\ SlotOk([s EXCEPT !.own = FALSE]) /\ [s EXCEPT !.own = FALSE].prog = s.prog
         /\ s = Free => [s EXCEPT !.own = FALSE] = Free
<1> DEFINE t == [s EXCEPT !.own = FALSE]
<1>1. s \in SlotType
  BY DEF SlotOk
<1>2. t \in SlotType /\ t.prog = s.prog /\ t.prof = s.prof /\ t.child = s.child /\ t.exit = s.exit
  BY <1>1 DEF SlotType
<1>3. s = Free => t = Free
  <2>1. [Free EXCEPT !.own = FALSE] = [Free EXCEPT !.own = Free.own] /\ Free.own = FALSE
    BY DEF Free
  <2>2. [Free EXCEPT !.own = Free.own] = Free
    BY DEF Free
  <2> QED
    BY <2>1, <2>2
<1> HIDE DEF t
<1>4. SlotOk(t)
  BY <1>2, <1>3 DEF SlotOk
<1> QED
  BY <1>2, <1>3, <1>4 DEF t

LEMMA BegunOk ==
  ASSUME GuiType, NEW p \in Profile, NEW prog \in Seq(Cmds), Form(prog), OnlyLists \/ Begins(p, prog)
  PROVE  \A f \in 1 .. Slots : SlotOk(slot'[f])
<1>1. ASSUME NEW f \in 1 .. Slots, Stays(f) \/ Lists1(f) PROVE SlotOk(slot'[f])
  <2>1. SlotOk(slot[f])
    BY DEF GuiType
  <2>2. CASE Stays(f)
    BY <2>1, <2>2, LeftOk DEF Stays
  <2>3. CASE Lists1(f)
    BY <2>3, FlowOk, ListForm DEF Lists1
  <2> QED
    BY <1>1, <2>2, <2>3
<1>2. ASSUME NEW f \in 1 .. Slots, Adds(f, p, prog) PROVE SlotOk(slot'[f])
  BY <1>2, FlowOk DEF Adds
<1> QED
  BY <1>1, <1>2 DEF OnlyLists, Begins

LEMMA StartBegins ==
  ASSUME GuiType, FreeSlots # {}, NEW p \in Profile, NEW prog \in Seq(Cmds), Form(prog), NEW own \in BOOLEAN,
         slot' = Start(slot, Flow(p, prog, own))
  PROVE  Begins(p, prog) /\ slot' \in [1 .. Slots -> SlotType]
<1>1. slot \in [1 .. Slots -> SlotType]
  BY DEF GuiType
<1>2. Flow(p, prog, own) \in SlotType
  BY FlowOk DEF SlotOk
<1>3. \E f \in 1 .. Slots : slot[f] = Free
  BY DEF FreeSlots, Live
<1>4. PICK g \in 1 .. Slots : slot[g] = Free /\ slot' = [slot EXCEPT ![g] = Flow(p, prog, own)]
  BY <1>1, <1>2, <1>3, StartIs
<1>5. slot' \in [1 .. Slots -> SlotType]
  BY <1>1, <1>2, <1>4
<1>6. Adds(g, p, prog) /\ \A f \in 1 .. Slots : f # g => Stays(f)
  BY <1>1, <1>4 DEF Adds, Stays
<1> QED
  BY <1>5, <1>6 DEF Begins

LEMMA StartLists ==
  ASSUME GuiType, NEW p \in Profile, NEW s \in [1 .. Slots -> SlotType],
         \A f \in 1 .. Slots : s[f] = slot[f] \/ s[f] = [slot[f] EXCEPT !.own = FALSE],
         slot' = s \/ (FreeSlots # {} /\ slot' = Start(s, Flow(p, <<"list">>, FALSE)))
  PROVE  OnlyLists /\ slot' \in [1 .. Slots -> SlotType]
<1>1. CASE slot' = s
  BY <1>1 DEF OnlyLists, Stays
<1>2. CASE FreeSlots # {} /\ slot' = Start(s, Flow(p, <<"list">>, FALSE))
  <2>1. Flow(p, <<"list">>, FALSE) \in SlotType
    BY FlowOk, ListForm DEF SlotOk
  <2>2. \A f \in 1 .. Slots : (slot[f] = Free => s[f] = Free) /\ (s[f] = Free => slot[f] = Free)
    <3> SUFFICES ASSUME NEW f \in 1 .. Slots
                 PROVE  (slot[f] = Free => s[f] = Free) /\ (s[f] = Free => slot[f] = Free)
      OBVIOUS
    <3>1. SlotOk(slot[f])
      BY DEF GuiType
    <3>2. slot[f] = Free => [slot[f] EXCEPT !.own = FALSE] = Free
      BY <3>1, LeftOk
    <3>3. [slot[f] EXCEPT !.own = FALSE] = Free => slot[f].prog = <<>>
      BY <3>1, LeftOk, FreeOk
    <3>4. slot[f].prog = <<>> => slot[f] = Free
      BY <3>1 DEF SlotOk
    <3> QED
      BY <3>2, <3>3, <3>4
  <2>3. \E f \in 1 .. Slots : s[f] = Free
    BY <1>2, <2>2 DEF FreeSlots, Live
  <2>4. PICK g \in 1 .. Slots : s[g] = Free /\ slot' = [s EXCEPT ![g] = Flow(p, <<"list">>, FALSE)]
    BY <1>2, <2>1, <2>3, StartIs
  <2>5. slot' \in [1 .. Slots -> SlotType]
    BY <2>1, <2>4
  <2>6. Lists1(g)
    BY <2>2, <2>4 DEF Lists1
  <2>7. \A f \in 1 .. Slots : f # g => slot'[f] = s[f]
    BY <2>4
  <2> QED
    BY <2>5, <2>6, <2>7 DEF OnlyLists, Stays
<1> QED
  BY <1>1, <1>2

LEMMA ShowsBegins ==
  ASSUME GuiType, NEW q \in Profile, Room(IF Lists(tab) THEN 2 ELSE 1), Shows(q)
  PROVE  /\ Begins(q, Gauges) /\ slot' \in [1 .. Slots -> SlotType]
         /\ active' = q /\ busy' \in BOOLEAN /\ fix' = FALSE
<1> DEFINE s == Start(slot, Flow(q, Gauges, FALSE))
           l == Flow(q, <<"list">>, FALSE)
<1>1. /\ active' = q /\ slot' = (IF Lists(tab) THEN Start(s, l) ELSE s)
      /\ busy' \in BOOLEAN /\ fix' = FALSE
  BY DEF Shows, GuiType
<1>2. Flow(q, Gauges, FALSE) \in SlotType /\ l \in SlotType
  BY FlowOk, GaugesForm, ListForm DEF SlotOk
<1>3. slot \in [1 .. Slots -> SlotType]
  BY DEF GuiType
<1>4. FreeSlots # {}
  BY FreeFinite
<1>5. PICK g \in 1 .. Slots : slot[g] = Free /\ s = [slot EXCEPT ![g] = Flow(q, Gauges, FALSE)]
  BY <1>2, <1>3, <1>4, StartIs DEF FreeSlots, Live
<1> HIDE DEF s, l
<1>6. s \in [1 .. Slots -> SlotType]
  BY <1>2, <1>3, <1>5
<1>7. \/ Adds(g, q, Gauges) /\ (\A f \in 1 .. Slots : f # g => Stays(f)) /\ slot' = s
      \/ Lists(tab)
  <2>1. CASE slot' = s
    BY <1>3, <1>5, <2>1 DEF Adds, Stays
  <2> QED
    BY <1>1, <2>1
<1>8. CASE Lists(tab)
  <2>1. PICK f \in FreeSlots : f # g
    BY <1>8, FreeFinite
  <2>2. s[f] = Free /\ f \in 1 .. Slots
    BY <1>3, <1>5, <2>1 DEF FreeSlots, Live
  <2>3. PICK h \in 1 .. Slots : s[h] = Free /\ Start(s, l) = [s EXCEPT ![h] = l]
    BY <1>2, <1>6, <2>2, StartIs
  <2>4. slot' = [s EXCEPT ![h] = l]
    BY <1>1, <1>8, <2>3
  <2>5. slot' \in [1 .. Slots -> SlotType]
    BY <1>2, <1>6, <2>4
  <2>6. CASE h # g
    <3>1. slot[h] = Free /\ slot'[h] = l
      BY <1>3, <1>5, <1>6, <2>3, <2>4, <2>6
    <3>2. Lists1(h)
      BY <3>1 DEF Lists1, l
    <3>3. slot'[g] = Flow(q, Gauges, FALSE)
      BY <1>3, <1>5, <1>6, <2>4, <2>6
    <3>4. Adds(g, q, Gauges)
      BY <1>5, <3>3 DEF Adds
    <3>5. \A k \in 1 .. Slots : k # g /\ k # h => slot'[k] = slot[k]
      BY <1>3, <1>5, <1>6, <2>4
    <3> QED
      BY <1>1, <2>5, <3>2, <3>4, <3>5 DEF Begins, Stays
  <2>7. CASE h = g
    <3>1. s[g] = Flow(q, Gauges, FALSE)
      BY <1>3, <1>5
    <3>2. Gauges = <<>>
      <4>1. Flow(q, Gauges, FALSE).prog = Gauges
        BY FlowOk, GaugesForm
      <4>2. Flow(q, Gauges, FALSE) = Free
        BY <2>3, <2>7, <3>1
      <4>3. Free.prog = <<>>
        BY FreeOk
      <4> QED
        BY <4>1, <4>2, <4>3
    <3>3. Flow(q, Gauges, FALSE) = Free
      BY <2>3, <2>7, <3>1
    <3>4. s = slot
      BY <1>3, <1>5, <3>3
    <3>5. slot'[f] = slot[f] /\ slot[f] = Free
      BY <1>6, <2>1, <2>2, <2>4, <2>7, <3>4
    <3>6. Adds(f, q, Gauges)
      BY <3>3, <3>5 DEF Adds
    <3>7. Lists1(g)
      BY <1>5, <1>6, <2>4, <2>7 DEF Lists1, l
    <3>8. \A k \in 1 .. Slots : k # g => slot'[k] = slot[k]
      BY <1>6, <2>4, <2>7, <3>4
    <3> QED
      BY <1>1, <2>1, <2>2, <2>5, <3>6, <3>7, <3>8 DEF Begins, Stays
  <2> QED
    BY <2>6, <2>7
<1> QED
  BY <1>1, <1>6, <1>7, <1>8 DEF Begins


-----------------------------------------------------------------------------
(* The invariant *)

(* What a flow has paid: at most once, and then nothing is left to pay with *)
(* but behind a check that stands for the withdrawal.                       *)
PayOk(s) ==
  \/ s.unsure \/ s.paid = 0
  \/ /\ s.paid = 1 /\ (s.child = "runs" => s.prog[1] \notin Pays)
     /\ \A j \in DOMAIN s.prog : j > 1 /\ s.prog[j] \in Pays =>
          s.prog[1] = "checkpay" /\ s.child # "runs" /\ s.good
PayInv == \A f \in 1 .. Slots : PayOk(slot[f])

Acts(prog) == \E j \in DOMAIN prog : prog[j] # "list"
WritesIn(prog) == \E j \in DOMAIN prog : prog[j] \in Writes
ActsOnce == \A f, g \in 1 .. Slots : Acts(slot[f].prog) /\ Acts(slot[g].prog) => f = g
LateOnce == \A l, m \in late : l.cmd \in Writes /\ m.cmd \in Writes => l = m
LateAlone == \A l \in late : l.cmd \in Writes => \A f \in 1 .. Slots : ~WritesIn(slot[f].prog)
OneActs == ActsOnce /\ LateOnce /\ LateAlone

(* A gauge that shows another profile is read by a refresh in progress, and *)
(* every flow in progress that reads one is of the active profile.          *)
Refresh(prog, i) == ToRead(prog, i) /\ \A j \in DOMAIN prog : prog[j] \in GaugeReads
OwnReads == \A f \in 1 .. Slots : \A i \in DOMAIN Gauges : ToRead(slot[f].prog, i) => slot[f].prof = active
OwnShown ==
  \A i \in DOMAIN Gauges : gauge[i].of \in {active, None} \/ \E f \in 1 .. Slots : Refresh(slot[f].prog, i)
Own == OwnReads /\ OwnShown

(* A gauge that is out of date will be read by a flow in progress. *)
Will(s, i) ==
  /\ ToRead(s.prog, i) /\ s.prog[1] # "paycode"
  /\ s.prog[1] = "checkpay" => s.child # "runs" /\ (s.good \/ s.unsure)
FreshRead(s) == s.prog # <<>> /\ s.prog[1] \in GaugeReads /\ s.child # "runs" => s.fresh
LateReads == \A l \in late : l.cmd \notin Changes
FreshReads == \A f \in 1 .. Slots : FreshRead(slot[f])
FreshShown ==
  \A i \in DOMAIN Gauges : gauge[i].of = active /\ ~gauge[i].fresh => \E f \in 1 .. Slots : Will(slot[f], i)
Fresh == LateReads /\ FreshReads /\ FreshShown

GInv ==
  /\ GuiType /\ PayInv
  /\ odd # "mixed" => OneActs /\ Own
  /\ odd = "no" => Fresh

-----------------------------------------------------------------------------
(* Steps that leave the flows as the invariant sees them *)

Same(s, t) ==
  /\ t.prof = s.prof /\ t.prog = s.prog /\ t.good = s.good /\ t.fresh = s.fresh
  /\ t.paid = s.paid /\ t.unsure = s.unsure /\ (t.child = "runs" <=> s.child = "runs")

LEMMA SameMeans ==
  ASSUME NEW s, NEW t, Same(s, t)
  PROVE  /\ PayOk(s) => PayOk(t)
         /\ t.prog = s.prog /\ t.prof = s.prof
         /\ FreshRead(s) => FreshRead(t)
         /\ \A i : Will(s, i) => Will(t, i)
<1>1. PayOk(s) => PayOk(t)
  BY DEF Same, PayOk
<1>2. FreshRead(s) => FreshRead(t)
  BY DEF Same, FreshRead
<1>3. \A i : Will(s, i) => Will(t, i)
  BY DEF Same, Will
<1> QED
  BY <1>1, <1>2, <1>3 DEF Same

LEMMA SameKeeps ==
  ASSUME GInv, GuiType', \A f \in 1 .. Slots : Same(slot[f], slot'[f]),
         late' \subseteq late, UNCHANGED <<active, gauge, odd>>
  PROVE  GInv'
<1>1. \A f \in 1 .. Slots : slot'[f].prog = slot[f].prog /\ slot'[f].prof = slot[f].prof
  BY SameMeans
<1>2. PayInv'
  <2>1. \A f \in 1 .. Slots : PayOk(slot'[f])
    BY SameMeans DEF GInv, PayInv
  <2> QED
    BY <2>1 DEF PayInv
<1>3. ASSUME odd' # "mixed" PROVE OneActs' /\ Own'
  <2>1. OneActs /\ Own
    BY <1>3 DEF GInv
  <2>2. ActsOnce'
    BY <1>1, <2>1 DEF OneActs, ActsOnce
  <2>3. LateOnce' /\ LateAlone'
    BY <1>1, <2>1 DEF OneActs, LateOnce, LateAlone
  <2>4. OwnReads' /\ OwnShown'
    BY <1>1, <2>1 DEF Own, OwnReads, OwnShown
  <2> QED
    BY <2>2, <2>3, <2>4 DEF OneActs, Own
<1>4. ASSUME odd' = "no" PROVE Fresh'
  <2>1. Fresh
    BY <1>4 DEF GInv
  <2>2. LateReads'
    BY <2>1 DEF Fresh, LateReads
  <2>3. \A f \in 1 .. Slots : FreshRead(slot'[f])
    BY <2>1, SameMeans DEF Fresh, FreshReads
  <2>4. \A f \in 1 .. Slots : \A i : Will(slot[f], i) => Will(slot'[f], i)
    BY SameMeans
  <2>5. FreshShown'
    BY <2>1, <2>4 DEF Fresh, FreshShown
  <2> QED
    BY <2>2, <2>3, <2>5 DEF Fresh, FreshReads
<1> QED
  BY <1>2, <1>3, <1>4 DEF GInv

LEMMA OneSlot ==
  ASSUME GuiType, NEW f \in 1 .. Slots, NEW t, SlotOk(t), slot' = [slot EXCEPT ![f] = t]
  PROVE  /\ slot' \in [1 .. Slots -> SlotType] /\ \A g \in 1 .. Slots : SlotOk(slot'[g])
         /\ slot'[f] = t /\ \A g \in 1 .. Slots : g # f => slot'[g] = slot[g]
<1>1. slot \in [1 .. Slots -> SlotType] /\ t \in SlotType /\ \A g \in 1 .. Slots : SlotOk(slot[g])
  BY DEF GuiType, SlotOk
<1> QED
  BY <1>1

LEMMA OneSame ==
  ASSUME GInv, NEW f \in 1 .. Slots, NEW t, SlotOk(t), slot' = [slot EXCEPT ![f] = t], Same(slot[f], t),
         UNCHANGED <<active, tab, busy, fix, late, gauge, started, odd, clicks, timeouts>>
  PROVE  GInv'
<1>1. GuiType
  BY DEF GInv
<1>2. /\ slot' \in [1 .. Slots -> SlotType] /\ \A g \in 1 .. Slots : SlotOk(slot'[g])
      /\ slot'[f] = t /\ \A g \in 1 .. Slots : g # f => slot'[g] = slot[g]
  BY <1>1, OneSlot
<1>3. GuiType'
  BY <1>1, <1>2 DEF GuiType
<1>4. \A g \in 1 .. Slots : Same(slot[g], slot'[g])
  BY <1>2 DEF Same
<1> QED
  BY <1>3, <1>4, SameKeeps

LEMMA ReplyKeeps ==
  ASSUME GInv, NEW f \in 1 .. Slots, Reply(f)
  PROVE  GInv'
<1> DEFINE s == slot[f]
           t == [s EXCEPT !.reply = TRUE]
<1>1. SlotOk(s) /\ s \in SlotType /\ s # Free
  BY DEF GInv, GuiType, SlotOk, Reply, Live
<1>2. slot' = [slot EXCEPT ![f] = t]
  BY DEF Reply
<1> HIDE DEF s
<1>3. t \in SlotType /\ Same(s, t) /\ t.exit = s.exit /\ t.child = s.child /\ t.prog = s.prog /\ t.prof = s.prof
  BY <1>1 DEF SlotType, Same
<1>4. SlotOk(t)
  BY <1>1, <1>3 DEF SlotOk
<1> HIDE DEF t
<1> QED
  BY <1>2, <1>3, <1>4, OneSame DEF Reply, s

LEMMA ExitKeeps ==
  ASSUME GInv, NEW f \in 1 .. Slots, Exit(f)
  PROVE  GInv'
<1> DEFINE s == slot[f]
           e == IF s.reply THEN "seen" ELSE "early"
           t == [s EXCEPT !.child = "gone", !.exit = e]
<1>1. SlotOk(s) /\ s \in SlotType /\ s.child = "did"
  BY DEF GInv, GuiType, SlotOk, Exit
<1>2. slot' = [slot EXCEPT ![f] = t]
  BY DEF Exit
<1>3. e \in {"seen", "early"}
  OBVIOUS
<1> HIDE DEF s, e
<1>4. t \in SlotType /\ Same(s, t) /\ t.exit = e /\ t.child = "gone" /\ t.prog = s.prog /\ t.prof = s.prof
  BY <1>1, <1>3 DEF SlotType, Same
<1>5. s.prog # <<>>
  BY <1>1, LiveProg
<1>6. SlotOk(t)
  BY <1>1, <1>3, <1>4, <1>5 DEF SlotOk
<1> HIDE DEF t
<1> QED
  BY <1>2, <1>4, <1>6, OneSame DEF Exit, s

LEMMA LateExitKeeps ==
  ASSUME GInv, NEW l, LateExit(l)
  PROVE  GInv'
<1>1. GuiType'
  BY DEF GInv, GuiType, LateExit
<1>2. \A g \in 1 .. Slots : Same(slot[g], slot'[g])
  BY DEF Same, LateExit
<1> QED
  BY <1>1, <1>2, SameKeeps DEF LateExit


-----------------------------------------------------------------------------
(* Work done: what was read before it is out of date *)

Lax(s, t) ==
  /\ t.prof = s.prof /\ t.prog = s.prog /\ t.child = s.child /\ t.good = s.good
  /\ t.paid = s.paid /\ t.unsure = s.unsure

LEMMA StaleReadsIs ==
  ASSUME NEW x \in [1 .. Slots -> SlotType], \A f \in 1 .. Slots : SlotOk(x[f]), NEW p \in Profile
  PROVE  /\ StaleReads(x, p) \in [1 .. Slots -> SlotType]
         /\ \A f \in 1 .. Slots : SlotOk(StaleReads(x, p)[f]) /\ Lax(x[f], StaleReads(x, p)[f])
<1> DEFINE y == StaleReads(x, p)
<1>1. \A f \in 1 .. Slots : y[f] = IF x[f].prof = p THEN [x[f] EXCEPT !.fresh = FALSE] ELSE x[f]
  BY DEF StaleReads
<1>2. DOMAIN y = 1 .. Slots /\ y = [f \in 1 .. Slots |-> y[f]]
  BY DEF StaleReads
<1> HIDE DEF y
<1>3. ASSUME NEW f \in 1 .. Slots PROVE y[f] \in SlotType /\ SlotOk(y[f]) /\ Lax(x[f], y[f])
  <2>1. CASE x[f].prof # p
    BY <1>1, <2>1 DEF Lax
  <2>2. CASE x[f].prof = p
    <3> DEFINE s == x[f]
               t == [s EXCEPT !.fresh = FALSE]
    <3>1. s \in SlotType /\ SlotOk(s) /\ s.prof = p
      BY <2>2
    <3>2. y[f] = t
      BY <1>1, <2>2
    <3> HIDE DEF s
    <3>3. s.prog # <<>>
      BY <3>1, GuiAssumption DEF SlotOk, Free, GuiAssumption
    <3>4. t \in SlotType /\ Lax(s, t) /\ t.exit = s.exit
      BY <3>1 DEF SlotType, Lax
    <3> HIDE DEF t
    <3>5. SlotOk(t)
      BY <3>1, <3>3, <3>4 DEF SlotOk, Lax
    <3> QED
      BY <3>2, <3>4, <3>5 DEF s
  <2> QED
    BY <2>1, <2>2
<1> QED
  BY <1>2, <1>3 DEF y

LEMMA OutdatedIs ==
  ASSUME gauge \in [DOMAIN Gauges -> GaugeType], NEW p \in Profile
  PROVE  /\ Outdated(gauge, p) \in [DOMAIN Gauges -> GaugeType]
         /\ \A i \in DOMAIN Gauges : Outdated(gauge, p)[i].of = gauge[i].of
<1> DEFINE h == Outdated(gauge, p)
<1>1. ASSUME NEW i \in DOMAIN Gauges PROVE h[i] \in GaugeType /\ h[i].of = gauge[i].of
  <2>1. gauge[i] \in GaugeType
    OBVIOUS
  <2>2. h[i] \in {gauge[i], [gauge[i] EXCEPT !.fresh = FALSE]}
    BY DEF Outdated
  <2> QED
    BY <2>1, <2>2 DEF GaugeType
<1>2. DOMAIN h = DOMAIN Gauges /\ h = [i \in DOMAIN Gauges |-> h[i]]
  BY DEF Outdated
<1> QED
  BY <1>1, <1>2

(* What a command that does its work changes, in its own slot and others *)
WorksSlot(s, t, c, good, effect) ==
  /\ t.prof = s.prof /\ t.prog = s.prog /\ t.child = "did" /\ t.good = good
  /\ t.paid = (IF c \in Pays /\ effect THEN s.paid + 1 ELSE s.paid)
  /\ t.unsure = (s.unsure \/ (c = "checkpay" /\ effect /\ ~good))
  /\ t.fresh = (c \in GaugeReads)

LEMMA WorksIs ==
  ASSUME GuiType, NEW f \in 1 .. Slots, Works(f)
  PROVE  /\ slot[f].prog # <<>> /\ slot[f].child = "runs" /\ GuiType'
         /\ \E good \in BOOLEAN, effect \in BOOLEAN :
              LET c == slot[f].prog[1] IN
              /\ effect => c \in Changes
              /\ c = "checkpay" /\ good => effect
              /\ WorksSlot(slot[f], slot'[f], c, good, effect)
              /\ \A g \in 1 .. Slots : g # f => Lax(slot[g], slot'[g])
              /\ \A i \in DOMAIN Gauges : gauge'[i].of = gauge[i].of
              /\ ~effect => gauge' = gauge /\ \A g \in 1 .. Slots : g # f => slot'[g] = slot[g]
<1> DEFINE s == slot[f]
           c == Head(s.prog)
<1>1. s \in SlotType /\ SlotOk(s) /\ s.child = "runs" /\ s.prog # <<>>
  BY LiveProg DEF GuiType, SlotOk, Works
<1>2. s.prog \in Seq(Cmds) /\ c = s.prog[1] /\ s.prof \in Profile /\ s.exit = "no"
  BY <1>1, TailIs DEF SlotOk, SlotType
<1>3. PICK good \in IF c \in Judged THEN BOOLEAN ELSE {TRUE}, effect \in IF c \in Changes THEN BOOLEAN ELSE {FALSE} :
        /\ c = "checkpay" /\ good => effect
        /\ LET paid == c \in Pays /\ effect
               x == [slot EXCEPT ![f].child = "did", ![f].good = good,
                                 ![f].paid = IF paid THEN @ + 1 ELSE @,
                                 ![f].unsure = @ \/ (c = "checkpay" /\ paid /\ ~good)]
               y == IF effect THEN StaleReads(x, x[f].prof) ELSE x
           IN  /\ slot' = [y EXCEPT ![f].fresh = c \in GaugeReads]
               /\ gauge' = IF effect THEN Outdated(gauge, x[f].prof) ELSE gauge
  BY Zenon DEF Works
<1>4. good \in BOOLEAN /\ effect \in BOOLEAN /\ (effect => c \in Changes)
  OBVIOUS
<1> DEFINE paid == c \in Pays /\ effect
           x == [slot EXCEPT ![f].child = "did", ![f].good = good,
                             ![f].paid = IF paid THEN @ + 1 ELSE @,
                             ![f].unsure = @ \/ (c = "checkpay" /\ paid /\ ~good)]
           y == IF effect THEN StaleReads(x, x[f].prof) ELSE x
           n == IF paid THEN s.paid + 1 ELSE s.paid
           u == s.unsure \/ (c = "checkpay" /\ paid /\ ~good)
           t == [s EXCEPT !.child = "did", !.good = good, !.paid = n, !.unsure = u]
<1>5. slot' = [y EXCEPT ![f].fresh = c \in GaugeReads] /\ gauge' = IF effect THEN Outdated(gauge, x[f].prof) ELSE gauge
  BY <1>3
<1>6. slot \in [1 .. Slots -> SlotType] /\ \A g \in 1 .. Slots : SlotOk(slot[g])
  BY DEF GuiType
<1>7. x = [slot EXCEPT ![f] = t]
  BY <1>6
<1>8. n \in Nat /\ u \in BOOLEAN
  BY <1>1 DEF SlotType
<1> HIDE DEF n, u, x
<1>9. /\ t \in SlotType /\ t.prof = s.prof /\ t.prog = s.prog /\ t.exit = s.exit /\ t.child = "did" /\ t.good = good
      /\ t.paid = n /\ t.unsure = u
  BY <1>1, <1>4, <1>8 DEF SlotType
<1> HIDE DEF t
<1>10. SlotOk(t)
  BY <1>1, <1>2, <1>9 DEF SlotOk
<1>11. /\ x \in [1 .. Slots -> SlotType] /\ x[f] = t
       /\ \A g \in 1 .. Slots : SlotOk(x[g]) /\ (g # f => x[g] = slot[g])
  BY <1>6, <1>7, <1>9, <1>10
<1>12. /\ y \in [1 .. Slots -> SlotType]
       /\ \A g \in 1 .. Slots : SlotOk(y[g]) /\ Lax(x[g], y[g]) /\ (~effect => y[g] = x[g])
  <2>1. CASE effect
    BY <1>2, <1>9, <1>11, <2>1, StaleReadsIs
  <2>2. CASE ~effect
    BY <1>11, <2>2 DEF Lax
  <2> QED
    BY <2>1, <2>2
<1> HIDE DEF y
<1> DEFINE b == c \in GaugeReads
           z == y[f]
           w == [z EXCEPT !.fresh = b]
<1>13. slot' = [y EXCEPT ![f] = w] /\ b \in BOOLEAN
  BY <1>5
<1>14. z \in SlotType /\ SlotOk(z) /\ Lax(t, z)
  BY <1>11, <1>12
<1> HIDE DEF b, z
<1>15. w \in SlotType /\ Lax(z, w) /\ w.exit = z.exit /\ w.fresh = b
  BY <1>13, <1>14 DEF SlotType, Lax
<1> HIDE DEF w
<1>16. z.prog # <<>>
  BY <1>1, <1>9, <1>14 DEF Lax
<1>17. SlotOk(w)
  BY <1>14, <1>15, <1>16 DEF SlotOk, Lax
<1>18. /\ slot' \in [1 .. Slots -> SlotType] /\ slot'[f] = w
       /\ \A g \in 1 .. Slots : SlotOk(slot'[g]) /\ (g # f => slot'[g] = y[g])
  BY <1>12, <1>13, <1>15, <1>17
<1>19. WorksSlot(s, slot'[f], c, good, effect)
  <2>1. u = (s.unsure \/ (c = "checkpay" /\ effect /\ ~good))
    BY DEF u, Pays
  <2>2. n = IF c \in Pays /\ effect THEN s.paid + 1 ELSE s.paid
    BY DEF n
  <2> HIDE DEF c
  <2> QED
    BY <1>9, <1>14, <1>15, <1>18, <2>1, <2>2 DEF Lax, WorksSlot, b
<1>20. /\ gauge' \in [DOMAIN Gauges -> GaugeType] /\ \A i \in DOMAIN Gauges : gauge'[i].of = gauge[i].of
       /\ ~effect => gauge' = gauge
  <2>1. gauge \in [DOMAIN Gauges -> GaugeType]
    BY DEF GuiType
  <2>2. x[f].prof \in Profile
    BY <1>2, <1>9, <1>11
  <2> QED
    BY <1>5, <2>1, <2>2, OutdatedIs
<1>21. GuiType'
  BY <1>18, <1>20 DEF GuiType, Works
<1>22. \A g \in 1 .. Slots : g # f => Lax(slot[g], slot'[g]) /\ (~effect => slot'[g] = slot[g])
  BY <1>11, <1>12, <1>18
<1> HIDE DEF s, c
<1> QED
  BY <1>1, <1>2, <1>3, <1>4, <1>19, <1>20, <1>21, <1>22 DEF s


LEMMA LaxMeans ==
  ASSUME NEW s, NEW t, Lax(s, t)
  PROVE  /\ PayOk(s) => PayOk(t)
         /\ t.prog = s.prog /\ t.prof = s.prof
         /\ \A i : Will(s, i) => Will(t, i)
<1>1. PayOk(s) => PayOk(t)
  BY DEF Lax, PayOk
<1>2. \A i : Will(s, i) => Will(t, i)
  BY DEF Lax, Will
<1> QED
  BY <1>1, <1>2 DEF Lax

LEMMA WorksPays ==
  ASSUME NEW s, NEW t, SlotOk(s), s.prog # <<>>, s.child = "runs", PayOk(s),
         NEW good \in BOOLEAN, NEW effect \in BOOLEAN, WorksSlot(s, t, s.prog[1], good, effect)
  PROVE  PayOk(t)
<1> DEFINE c == s.prog[1]
<1>1. /\ t.prog = s.prog /\ t.child = "did" /\ t.good = good
      /\ t.paid = (IF c \in Pays /\ effect THEN s.paid + 1 ELSE s.paid)
      /\ t.unsure = (s.unsure \/ (c = "checkpay" /\ effect /\ ~good))
  BY DEF WorksSlot
<1>2. CASE s.unsure
  BY <1>1, <1>2 DEF PayOk
<1>3. CASE ~s.unsure /\ c \in Pays
  <2>1. s.paid = 0
    BY <1>3 DEF PayOk
  <2>2. CASE ~effect
    BY <1>1, <2>1, <2>2 DEF PayOk
  <2>3. CASE effect
    <3>1. t.paid = 1 /\ t.unsure = (c = "checkpay" /\ ~good)
      BY <1>1, <1>3, <2>1, <2>3
    <3>2. \A j \in DOMAIN s.prog : j > 1 /\ s.prog[j] \in Pays => c \in {"check", "checkpay"}
      BY DEF SlotOk, Form, PayForm
    <3>3. \A j \in DOMAIN s.prog : j > 1 /\ s.prog[j] \in Pays => c = "checkpay"
      BY <1>3, <3>2 DEF Pays
    <3>4. CASE t.unsure
      BY <3>4 DEF PayOk
    <3>5. CASE ~t.unsure
      <4>1. c = "checkpay" => good
        BY <3>1, <3>5
      <4>2. \A j \in DOMAIN t.prog : j > 1 /\ t.prog[j] \in Pays =>
              t.prog[1] = "checkpay" /\ t.child # "runs" /\ t.good
        BY <1>1, <3>3, <4>1
      <4>3. t.child # "runs"
        BY <1>1
      <4> QED
        BY <3>1, <4>2, <4>3 DEF PayOk
    <3> QED
      BY <3>4, <3>5
  <2> QED
    BY <2>2, <2>3
<1>4. CASE ~s.unsure /\ c \notin Pays
  <2>1. t.paid = s.paid /\ t.child # "runs"
    BY <1>1, <1>4
  <2>2. CASE s.paid = 0
    BY <2>1, <2>2 DEF PayOk
  <2>3. CASE s.paid # 0
    <3>1. s.paid = 1 /\ \A j \in DOMAIN s.prog : ~(j > 1 /\ s.prog[j] \in Pays)
      BY <1>4, <2>3 DEF PayOk
    <3> QED
      BY <1>1, <2>1, <3>1 DEF PayOk
  <2> QED
    BY <2>2, <2>3
<1> QED
  BY <1>2, <1>3, <1>4

LEMMA WorksKeeps ==
  ASSUME GInv, NEW f \in 1 .. Slots, Works(f)
  PROVE  GInv'
<1> DEFINE c == slot[f].prog[1]
<1>1. GuiType
  BY DEF GInv
<1>2. slot[f].prog # <<>> /\ slot[f].child = "runs" /\ GuiType'
  BY <1>1, WorksIs
<1>3. PICK good \in BOOLEAN, effect \in BOOLEAN :
        /\ effect => c \in Changes
        /\ c = "checkpay" /\ good => effect
        /\ WorksSlot(slot[f], slot'[f], c, good, effect)
        /\ \A g \in 1 .. Slots : g # f => Lax(slot[g], slot'[g])
        /\ \A i \in DOMAIN Gauges : gauge'[i].of = gauge[i].of
        /\ ~effect => gauge' = gauge /\ \A g \in 1 .. Slots : g # f => slot'[g] = slot[g]
  BY <1>1, WorksIs
<1>4. /\ slot'[f].prog = slot[f].prog /\ slot'[f].prof = slot[f].prof /\ slot'[f].child = "did"
      /\ slot'[f].good = good /\ slot'[f].fresh = (c \in GaugeReads)
      /\ slot'[f].unsure = (slot[f].unsure \/ (c = "checkpay" /\ effect /\ ~good))
  BY <1>3 DEF WorksSlot
<1>5. UNCHANGED <<active, late, odd>>
  BY DEF Works
<1>6. SlotOk(slot[f]) /\ slot[f].prog \in Seq(Cmds) /\ Form(slot[f].prog) /\ 1 \in DOMAIN slot[f].prog
  BY <1>1, <1>2, TailIs DEF GuiType, SlotOk, SlotType
<1> HIDE DEF c
<1>7. \A g \in 1 .. Slots : slot'[g].prog = slot[g].prog /\ slot'[g].prof = slot[g].prof
  BY <1>3, <1>4, LaxMeans
<1>8. PayInv'
  <2>1. ASSUME NEW g \in 1 .. Slots PROVE PayOk(slot'[g])
    <3>1. PayOk(slot[g])
      BY DEF GInv, PayInv
    <3>2. CASE g # f
      BY <1>3, <3>1, <3>2, LaxMeans
    <3>3. CASE g = f
      BY <1>2, <1>3, <1>6, <3>1, <3>3, WorksPays DEF c
    <3> QED
      BY <3>2, <3>3
  <2> QED
    BY <2>1 DEF PayInv
<1>9. ASSUME odd' # "mixed" PROVE OneActs' /\ Own'
  <2>1. OneActs /\ Own
    BY <1>5, <1>9 DEF GInv
  <2>2. ActsOnce'
    BY <1>7, <2>1 DEF OneActs, ActsOnce
  <2>3. LateOnce' /\ LateAlone'
    BY <1>5, <1>7, <2>1 DEF OneActs, LateOnce, LateAlone
  <2>4. OwnReads' /\ OwnShown'
    BY <1>3, <1>5, <1>7, <2>1 DEF Own, OwnReads, OwnShown
  <2> QED
    BY <2>2, <2>3, <2>4 DEF OneActs, Own
<1>10. ASSUME odd' = "no" PROVE Fresh'
  <2>1. Fresh /\ OneActs
    BY <1>5, <1>10 DEF GInv
  <2>2. LateReads'
    BY <1>5, <2>1 DEF Fresh, LateReads
  <2>3. FreshRead(slot'[f])
    BY <1>4 DEF FreshRead, c
  <2>4. ASSUME effect PROVE FreshReads' /\ FreshShown'
    <3>1. c \in Changes /\ Acts(slot[f].prog)
      BY <1>3, <1>6, <2>4 DEF Acts, Changes, Writes, c
    <3>2. ASSUME NEW g \in 1 .. Slots, g # f PROVE FreshRead(slot'[g])
      <4>1. ~Acts(slot[g].prog)
        BY <2>1, <3>1, <3>2 DEF OneActs, ActsOnce
      <4>2. SlotOk(slot[g]) /\ slot[g].prog \in Seq(Cmds)
        BY <1>1 DEF GuiType, SlotOk, SlotType
      <4>3. slot[g].prog # <<>> => slot[g].prog[1] = "list"
        BY <4>1, <4>2 DEF Acts
      <4> QED
        BY <1>7, <3>2, <4>3, GaugeFacts DEF FreshRead
    <3>3. \A i \in DOMAIN Gauges : ToRead(slot[f].prog, i)
      BY <1>6, <3>1 DEF Form, Refreshing, ToRead, c
    <3>4. c # "paycode"
      BY <3>1 DEF Changes, Writes
    <3>5. \A i \in DOMAIN Gauges : Will(slot'[f], i)
      BY <1>4, <2>4, <3>3, <3>4 DEF Will, c
    <3> QED
      BY <2>3, <3>2, <3>5 DEF FreshReads, FreshShown
  <2>5. ASSUME ~effect PROVE FreshReads' /\ FreshShown'
    <3>1. gauge' = gauge /\ \A g \in 1 .. Slots : g # f => slot'[g] = slot[g]
      BY <1>3, <2>5
    <3>2. \A g \in 1 .. Slots : FreshRead(slot'[g])
      BY <2>1, <2>3, <3>1 DEF Fresh, FreshReads
    <3>3. \A i \in DOMAIN Gauges : Will(slot[f], i) => Will(slot'[f], i)
      BY <1>2, <1>4 DEF Will
    <3>4. \A g \in 1 .. Slots : \A i \in DOMAIN Gauges : Will(slot[g], i) => Will(slot'[g], i)
      BY <3>1, <3>3
    <3>5. FreshShown'
      BY <1>5, <2>1, <3>1, <3>4 DEF Fresh, FreshShown
    <3> QED
      BY <3>2, <3>5 DEF FreshReads
  <2> QED
    BY <2>2, <2>4, <2>5 DEF Fresh
<1> QED
  BY <1>2, <1>8, <1>9, <1>10 DEF GInv


-----------------------------------------------------------------------------
(* A flow goes on behind its first command, or ends. *)

Part(prog, of) == \A j \in DOMAIN prog : \E k \in DOMAIN of : k > 1 /\ prog[j] = of[k]

LEMMA ProceedIs ==
  ASSUME GuiType, NEW f \in 1 .. Slots, slot[f].prog # <<>>,
         NEW prog \in Seq(Cmds), Form(prog), Part(prog, slot[f].prog), Proceed(f, prog)
  PROVE  /\ slot' \in [1 .. Slots -> SlotType] /\ (\A g \in 1 .. Slots : SlotOk(slot'[g])) /\ busy' \in BOOLEAN
         /\ slot'[f] = Spawned(slot[f], prog) /\ slot'[f].prog = prog /\ FreshRead(slot'[f])
         /\ prog # <<>> => slot'[f].prof = slot[f].prof
         /\ \A i \in DOMAIN Gauges : ToRead(prog, i) => Will(slot'[f], i)
         /\ \A g \in 1 .. Slots : g # f => slot'[g] = slot[g]
<1> DEFINE s == slot[f]
           t == Spawned(s, prog)
<1>1. s \in SlotType /\ s.prof \in Profile /\ MarkedFirst(s.prog)
  BY DEF GuiType, SlotOk, Form
<1>2. slot' = [slot EXCEPT ![f] = t] /\ busy' \in BOOLEAN
  BY DEF Proceed, GuiType
<1> HIDE DEF s
<1>3. /\ SlotOk(t) /\ t.prog = prog
      /\ prog # <<>> => /\ t.prof = s.prof
                        /\ t.child = IF Head(prog) \in Changes \cup Judged THEN "runs" ELSE "did"
  BY <1>1, SpawnedOk
<1> HIDE DEF t
<1>4. prog # <<>> => Head(prog) = prog[1] /\ 1 \in DOMAIN prog
  BY TailIs
<1>5. FreshRead(t)
  BY <1>3, <1>4 DEF FreshRead, Judged
<1>6. \A j \in DOMAIN prog : prog[j] \notin Marked
  BY <1>1 DEF Part, MarkedFirst, s
<1>7. ASSUME NEW i \in DOMAIN Gauges, ToRead(prog, i) PROVE Will(t, i)
  <2>1. prog # <<>>
    BY <1>7 DEF ToRead
  <2>2. prog[1] # "paycode" /\ prog[1] # "checkpay"
    BY <1>4, <1>6, <2>1 DEF Marked
  <2> QED
    BY <1>3, <1>7, <2>2 DEF Will
<1> QED
  BY <1>2, <1>3, <1>5, <1>7, OneSlot DEF s, t

LEMMA ProceedPays ==
  ASSUME NEW s, SlotOk(s), PayOk(s), s.prog # <<>>, NEW prog \in Seq(Cmds), Form(prog), Part(prog, s.prog),
         s.prog[1] = "checkpay" /\ s.good => \A j \in DOMAIN prog : prog[j] \notin Pays
  PROVE  PayOk(Spawned(s, prog))
<1> DEFINE t == Spawned(s, prog)
<1>1. CASE prog = <<>>
  BY <1>1 DEF Spawned, Free, PayOk
<1>2. CASE prog # <<>>
  <2>1. s \in SlotType /\ s.prof \in Profile
    BY DEF SlotOk
  <2>2. t.prog = prog /\ t.paid = s.paid /\ t.unsure = s.unsure
    BY <1>2, <2>1, SpawnedOk
  <2> HIDE DEF t
  <2>3. CASE s.unsure \/ s.paid = 0
    BY <2>2, <2>3 DEF PayOk, t
  <2>4. CASE ~(s.unsure \/ s.paid = 0)
    <3>1. s.paid = 1 /\ \A k \in DOMAIN s.prog : k > 1 /\ s.prog[k] \in Pays => s.prog[1] = "checkpay" /\ s.good
      BY <2>4 DEF PayOk
    <3>2. \A j \in DOMAIN prog : prog[j] \notin Pays
      BY <3>1 DEF Part
    <3>3. 1 \in DOMAIN prog
      BY <1>2, TailIs
    <3> QED
      BY <2>2, <3>1, <3>2, <3>3 DEF PayOk, t
  <2> QED
    BY <2>3, <2>4
<1> QED
  BY <1>1, <1>2

LEMMA ProceedActs ==
  ASSUME ActsOnce, \A g \in 1 .. Slots : slot'[g].prog = slot[g].prog \/ Part(slot'[g].prog, slot[g].prog)
  PROVE  ActsOnce' /\ \A g \in 1 .. Slots : WritesIn(slot'[g].prog) => WritesIn(slot[g].prog)
<1>1. \A g \in 1 .. Slots : Acts(slot'[g].prog) => Acts(slot[g].prog)
  BY DEF Acts, Part
<1>2. \A g \in 1 .. Slots : WritesIn(slot'[g].prog) => WritesIn(slot[g].prog)
  BY DEF WritesIn, Part
<1> QED
  BY <1>1, <1>2 DEF ActsOnce

LEMMA ProceedOwn ==
  ASSUME OwnReads, active' = active, NEW f \in 1 .. Slots, Part(slot'[f].prog, slot[f].prog),
         slot'[f].prog # <<>> => slot'[f].prof = slot[f].prof,
         \A g \in 1 .. Slots : g # f => slot'[g] = slot[g]
  PROVE  OwnReads'
<1>1. ASSUME NEW i \in DOMAIN Gauges, ToRead(slot'[f].prog, i) PROVE slot'[f].prof = active
  <2>1. PICK j \in DOMAIN slot'[f].prog : slot'[f].prog[j] = Gauges[i]
    BY <1>1 DEF ToRead
  <2>2. ToRead(slot[f].prog, i)
    BY <2>1 DEF Part, ToRead
  <2>3. slot'[f].prog # <<>>
    BY <2>1
  <2> QED
    BY <2>2, <2>3 DEF OwnReads
<1> QED
  BY <1>1 DEF OwnReads

LEMMA ResultIs ==
  ASSUME GuiType, NEW f \in 1 .. Slots, Result(f)
  PROVE  /\ slot[f].prog # <<>> /\ slot[f].prog \in Seq(Cmds) /\ Form(slot[f].prog)
         /\ slot[f].child = "gone" /\ slot[f].prof \in Profile
         /\ slot[f].good \in BOOLEAN /\ slot[f].fresh \in BOOLEAN /\ slot[f].unsure \in BOOLEAN
         /\ Head(slot[f].prog) = slot[f].prog[1] /\ 1 \in DOMAIN slot[f].prog
<1> DEFINE s == slot[f]
<1>1. SlotOk(s) /\ s \in SlotType /\ s.exit # "no"
  BY DEF GuiType, Result
<1> HIDE DEF s
<1>2. s.prog # <<>>
  BY <1>1 DEF SlotOk, Free
<1>3. s.child = "gone" /\ Form(s.prog) /\ s.prof \in Profile
  BY <1>1, <1>2 DEF SlotOk
<1>4. s.prog \in Seq(Cmds) /\ s.good \in BOOLEAN /\ s.fresh \in BOOLEAN /\ s.unsure \in BOOLEAN
  BY <1>1 DEF SlotType
<1> QED
  BY <1>2, <1>3, <1>4, TailIs DEF s

LEMMA ResultKeeps ==
  ASSUME GInv, NEW f \in 1 .. Slots, Result(f)
  PROVE  GInv'
<1> DEFINE s == slot[f]
           c == s.prog[1]
           good == s.good
           prog == After(s.prog, good)
           shown == IF good THEN [of |-> s.prof, fresh |-> s.fresh] ELSE Nothing
<1>1. GuiType
  BY DEF GInv
<1>2. /\ s.prog # <<>> /\ s.prog \in Seq(Cmds) /\ Form(s.prog) /\ s.child = "gone" /\ s.prof \in Profile
      /\ good \in BOOLEAN /\ s.fresh \in BOOLEAN /\ s.unsure \in BOOLEAN /\ Head(s.prog) = c /\ 1 \in DOMAIN s.prog
  BY <1>1, ResultIs
<1>3. prog \in Seq(Cmds) /\ Form(prog) /\ Part(prog, s.prog)
  BY <1>2, AfterParts DEF Part
<1>4. /\ Proceed(f, prog)
      /\ gauge' = [i \in DOMAIN gauge |-> IF Gauges[i] = c THEN shown ELSE gauge[i]]
      /\ fix' \in BOOLEAN
      /\ odd' = IF c = "checkpay" /\ s.unsure THEN Worse("unread") ELSE odd
      /\ UNCHANGED <<active, tab, late, started, clicks, timeouts>>
  <2>1. fix' \in BOOLEAN
    BY <1>1, <1>2 DEF Result, GuiType
  <2> QED
    BY <1>2, <2>1 DEF Result
<1> HIDE DEF prog
<1>5. /\ slot' \in [1 .. Slots -> SlotType] /\ (\A g \in 1 .. Slots : SlotOk(slot'[g])) /\ busy' \in BOOLEAN
      /\ slot'[f] = Spawned(s, prog) /\ slot'[f].prog = prog /\ FreshRead(slot'[f])
      /\ prog # <<>> => slot'[f].prof = s.prof
      /\ \A i \in DOMAIN Gauges : ToRead(prog, i) => Will(slot'[f], i)
      /\ \A g \in 1 .. Slots : g # f => slot'[g] = slot[g]
  BY <1>1, <1>2, <1>3, <1>4, ProceedIs
<1>6. DOMAIN gauge = DOMAIN Gauges /\ gauge \in [DOMAIN Gauges -> GaugeType]
  BY <1>1 DEF GuiType
<1>7. /\ gauge' \in [DOMAIN Gauges -> GaugeType]
      /\ \A i \in DOMAIN Gauges : gauge'[i] = IF Gauges[i] = c THEN shown ELSE gauge[i]
  <2>1. shown \in GaugeType
    BY <1>2 DEF GaugeType, Nothing
  <2> QED
    BY <1>4, <1>6, <2>1
<1>8. GuiType'
  <2>1. odd' \in {"no", "unread", "mixed"}
    BY <1>1, <1>4 DEF Worse, GuiType
  <2> QED
    BY <1>1, <1>4, <1>5, <1>7, <2>1 DEF GuiType
<1>9. PayInv'
  <2>1. SlotOk(s) /\ PayOk(s)
    BY <1>1 DEF GInv, GuiType, PayInv
  <2>2. c = "checkpay" /\ good => \A j \in DOMAIN prog : prog[j] \notin Pays
    <3>1. ASSUME c = "checkpay", good PROVE \A j \in DOMAIN prog : prog[j] \notin Pays
      <4>1. prog = After(s.prog, TRUE)
        BY <1>2, <3>1 DEF prog
      <4> QED
        BY <1>2, <3>1, <4>1, AfterPaid
    <3> QED
      BY <3>1
  <2>3. PayOk(slot'[f])
    BY <1>2, <1>3, <1>5, <2>1, <2>2, ProceedPays
  <2>4. \A g \in 1 .. Slots : PayOk(slot'[g])
    BY <1>5, <2>3 DEF GInv, PayInv
  <2> QED
    BY <2>4 DEF PayInv
<1>10. \A g \in 1 .. Slots : slot'[g].prog = slot[g].prog \/ Part(slot'[g].prog, slot[g].prog)
  BY <1>3, <1>5
<1>11. \A i \in DOMAIN Gauges : ToRead(s.prog, i) /\ Gauges[i] # c /\ c # "paycode" /\ (c = "checkpay" => good)
         => ToRead(prog, i)
  BY <1>2, AfterReads DEF prog
<1>12. ASSUME odd' # "mixed" PROVE odd # "mixed" /\ OneActs' /\ Own'
  <2>1. odd # "mixed" /\ OneActs /\ Own
    BY <1>4, <1>12 DEF GInv, Worse
  <2>2. ActsOnce' /\ \A g \in 1 .. Slots : WritesIn(slot'[g].prog) => WritesIn(slot[g].prog)
    BY <1>10, <2>1, ProceedActs DEF OneActs
  <2>3. LateOnce' /\ LateAlone'
    BY <1>4, <2>1, <2>2 DEF OneActs, LateOnce, LateAlone
  <2>4. OwnReads'
    BY <1>3, <1>4, <1>5, <2>1, ProceedOwn DEF Own
  <2>5. ASSUME NEW i \in DOMAIN Gauges, gauge'[i].of \notin {active, None}
        PROVE  \E g \in 1 .. Slots : Refresh(slot'[g].prog, i)
    <3>1. CASE Gauges[i] = c
      <4>1. ToRead(s.prog, i)
        BY <1>2, <3>1 DEF ToRead
      <4>2. s.prof = active
        BY <2>1, <4>1 DEF Own, OwnReads
      <4>3. shown.of \in {active, None}
        BY <4>2 DEF Nothing
      <4> QED
        BY <1>7, <2>5, <3>1, <4>3
    <3>2. CASE Gauges[i] # c
      <4>1. PICK g \in 1 .. Slots : Refresh(slot[g].prog, i)
        BY <1>7, <2>1, <2>5, <3>2 DEF Own, OwnShown
      <4>2. CASE g # f
        BY <1>5, <4>1, <4>2
      <4>3. CASE g = f
        <5>1. c \in GaugeReads /\ ToRead(s.prog, i)
          BY <1>2, <4>1, <4>3 DEF Refresh
        <5>2. c # "paycode" /\ c # "checkpay"
          BY <5>1, GaugeFacts DEF Changes, Writes
        <5>3. ToRead(prog, i)
          BY <1>11, <3>2, <5>1, <5>2
        <5>4. \A j \in DOMAIN prog : prog[j] \in GaugeReads
          BY <1>3, <4>1, <4>3 DEF Refresh, Part
        <5> QED
          BY <1>5, <5>3, <5>4 DEF Refresh
      <4> QED
        BY <4>2, <4>3
    <3> QED
      BY <3>1, <3>2
  <2>6. OwnShown'
    BY <1>4, <2>5 DEF OwnShown
  <2> QED
    BY <2>1, <2>2, <2>3, <2>4, <2>6 DEF OneActs, Own
<1>13. ASSUME odd' = "no" PROVE Fresh'
  <2>1. odd = "no" /\ ~(c = "checkpay" /\ s.unsure)
    BY <1>4, <1>13 DEF Worse
  <2>2. Fresh
    BY <2>1 DEF GInv
  <2>3. LateReads'
    BY <1>4, <2>2 DEF Fresh, LateReads
  <2>4. \A g \in 1 .. Slots : FreshRead(slot'[g])
    BY <1>5, <2>2 DEF Fresh, FreshReads
  <2>5. ASSUME NEW i \in DOMAIN Gauges, gauge'[i].of = active, ~gauge'[i].fresh
        PROVE  \E g \in 1 .. Slots : Will(slot'[g], i)
    <3>1. CASE Gauges[i] = c
      <4>1. gauge'[i] = shown
        BY <1>7, <3>1
      <4>2. shown.of = active /\ active # None
        BY <1>1, <2>5, <4>1, GuiAssumption DEF GuiType, GuiAssumption
      <4>3. good /\ shown.fresh = s.fresh
        BY <4>2 DEF Nothing
      <4>4. c \in GaugeReads
        BY <3>1, GaugeFacts
      <4>5. s.fresh
        BY <1>2, <2>2, <4>4 DEF Fresh, FreshReads, FreshRead
      <4> QED
        BY <2>5, <4>1, <4>3, <4>5
    <3>2. CASE Gauges[i] # c
      <4>1. PICK g \in 1 .. Slots : Will(slot[g], i)
        BY <1>7, <2>2, <2>5, <3>2 DEF Fresh, FreshShown
      <4>2. CASE g # f
        BY <1>5, <4>1, <4>2
      <4>3. CASE g = f
        <5>1. ToRead(s.prog, i) /\ c # "paycode" /\ (c = "checkpay" => good)
          BY <2>1, <4>1, <4>3 DEF Will
        <5> QED
          BY <1>5, <1>11, <3>2, <5>1
      <4> QED
        BY <4>2, <4>3
    <3> QED
      BY <3>1, <3>2
  <2>6. FreshShown'
    BY <1>4, <2>5 DEF FreshShown
  <2> QED
    BY <2>3, <2>4, <2>6 DEF Fresh, FreshReads
<1> QED
  BY <1>8, <1>9, <1>12, <1>13 DEF GInv


LEMMA TimeoutIs ==
  ASSUME GuiType, NEW f \in 1 .. Slots, Timeout(f)
  PROVE  /\ slot[f].prog # <<>> /\ slot[f].prog \in Seq(Cmds) /\ Form(slot[f].prog)
         /\ slot[f].child \in {"runs", "did"} /\ slot[f].prof \in Profile
         /\ Head(slot[f].prog) = slot[f].prog[1] /\ 1 \in DOMAIN slot[f].prog /\ slot[f].prog[1] \in Cmds
<1> DEFINE s == slot[f]
<1>1. SlotOk(s) /\ s \in SlotType /\ s.reply /\ s.exit = "no"
  BY DEF GuiType, Timeout
<1> HIDE DEF s
<1>2. s.prog # <<>>
  BY <1>1 DEF SlotOk, Free
<1>3. Form(s.prog) /\ s.prof \in Profile /\ s.child # "none" /\ s.child # "gone"
  BY <1>1, <1>2 DEF SlotOk
<1>4. s.prog \in Seq(Cmds) /\ s.child \in {"runs", "did"}
  BY <1>1, <1>3 DEF SlotType
<1>5. s.prog[1] \in Cmds
  BY <1>2, <1>4
<1> QED
  BY <1>2, <1>3, <1>4, <1>5, TailIs DEF s

LEMMA TimeoutKeeps ==
  ASSUME GInv, NEW f \in 1 .. Slots, Timeout(f)
  PROVE  GInv'
<1> DEFINE s == slot[f]
           c == s.prog[1]
           prog == AfterTimeout(s.prog)
           l == [n |-> timeouts, prof |-> s.prof, cmd |-> c, child |-> s.child]
<1>1. GuiType
  BY DEF GInv
<1>2. /\ s.prog # <<>> /\ s.prog \in Seq(Cmds) /\ Form(s.prog) /\ s.child \in {"runs", "did"} /\ s.prof \in Profile
      /\ Head(s.prog) = c /\ 1 \in DOMAIN s.prog /\ c \in Cmds
  BY <1>1, TimeoutIs
<1>3. c \in GaugeReads => prog = Tail(s.prog) /\ prog = After(s.prog, TRUE) /\ c # "paycode" /\ c # "checkpay"
  <2>1. c \in GaugeReads => c # "paycode" /\ c # "checkpay"
    BY GaugeFacts DEF Changes, Writes
  <2> QED
    BY <1>2, <2>1 DEF AfterTimeout, After
<1>4. c \notin GaugeReads => prog = <<>>
  BY <1>2 DEF AfterTimeout
<1> HIDE DEF prog
<1>5. prog \in Seq(Cmds) /\ Form(prog) /\ Part(prog, s.prog)
  <2>1. CASE c \in GaugeReads
    <3>1. LET after == After(s.prog, TRUE) IN after \in Seq(Cmds) /\ Form(after) /\ Part(after, s.prog)
      BY <1>2, AfterParts DEF Part
    <3> QED
      BY <1>3, <2>1, <3>1
  <2>2. CASE c \notin GaugeReads
    <3>1. <<>> \in Seq(Cmds) /\ Form(<<>>) /\ Part(<<>>, s.prog)
      BY EmptyForm DEF Part
    <3> QED
      BY <1>4, <2>2, <3>1
  <2> QED
    BY <2>1, <2>2
<1>6. /\ Proceed(f, prog)
      /\ late' = late \cup {l} /\ timeouts' = timeouts + 1
      /\ gauge' = [i \in DOMAIN gauge |-> IF Gauges[i] = c THEN Nothing ELSE gauge[i]]
      /\ odd' = IF c \in GaugeReads THEN odd ELSE Worse("unread")
      /\ UNCHANGED <<active, tab, fix, started, clicks>>
  BY <1>2 DEF Timeout, prog
<1>7. /\ slot' \in [1 .. Slots -> SlotType] /\ (\A g \in 1 .. Slots : SlotOk(slot'[g])) /\ busy' \in BOOLEAN
      /\ slot'[f] = Spawned(s, prog) /\ slot'[f].prog = prog /\ FreshRead(slot'[f])
      /\ prog # <<>> => slot'[f].prof = s.prof
      /\ \A i \in DOMAIN Gauges : ToRead(prog, i) => Will(slot'[f], i)
      /\ \A g \in 1 .. Slots : g # f => slot'[g] = slot[g]
  BY <1>1, <1>2, <1>5, <1>6, ProceedIs
<1>8. DOMAIN gauge = DOMAIN Gauges /\ gauge \in [DOMAIN Gauges -> GaugeType]
  BY <1>1 DEF GuiType
<1>9. /\ gauge' \in [DOMAIN Gauges -> GaugeType]
      /\ \A i \in DOMAIN Gauges : gauge'[i] = IF Gauges[i] = c THEN Nothing ELSE gauge[i]
  <2>1. Nothing \in GaugeType
    BY DEF GaugeType, Nothing
  <2> QED
    BY <1>6, <1>8, <2>1
<1>10. GuiType'
  <2>1. odd' \in {"no", "unread", "mixed"}
    BY <1>1, <1>6 DEF Worse, GuiType
  <2>2. l \in LateType /\ timeouts' \in Nat
    BY <1>1, <1>2, <1>6 DEF LateType, GuiType
  <2>3. late' \subseteq LateType
    BY <1>1, <1>6, <2>2 DEF GuiType
  <2> QED
    BY <1>1, <1>6, <1>7, <1>9, <2>1, <2>2, <2>3 DEF GuiType
<1> HIDE DEF l
<1>11. PayInv'
  <2>1. SlotOk(s) /\ PayOk(s)
    BY <1>1 DEF GInv, GuiType, PayInv
  <2>2. c = "checkpay" => \A j \in DOMAIN prog : prog[j] \notin Pays
    BY <1>3, <1>4
  <2>3. PayOk(slot'[f])
    BY <1>2, <1>5, <1>7, <2>1, <2>2, ProceedPays
  <2>4. \A g \in 1 .. Slots : PayOk(slot'[g])
    BY <1>7, <2>3 DEF GInv, PayInv
  <2> QED
    BY <2>4 DEF PayInv
<1>12. \A g \in 1 .. Slots : slot'[g].prog = slot[g].prog \/ Part(slot'[g].prog, slot[g].prog)
  BY <1>5, <1>7
<1>13. l.cmd = c
  BY DEF l
<1>14. \A i \in DOMAIN Gauges : ToRead(s.prog, i) /\ Gauges[i] # c /\ c \in GaugeReads => ToRead(prog, i)
  BY <1>2, <1>3, AfterReads
<1>15. ASSUME odd' # "mixed" PROVE OneActs' /\ Own'
  <2>1. OneActs /\ Own
    BY <1>6, <1>15 DEF GInv, Worse
  <2>2. ActsOnce' /\ \A g \in 1 .. Slots : WritesIn(slot'[g].prog) => WritesIn(slot[g].prog)
    BY <1>12, <2>1, ProceedActs DEF OneActs
  <2>3. LateOnce' /\ LateAlone'
    <3>1. CASE c \notin Writes
      BY <1>6, <1>13, <2>1, <2>2, <3>1 DEF OneActs, LateOnce, LateAlone
    <3>2. CASE c \in Writes
      <4>1. WritesIn(s.prog) /\ Acts(s.prog)
        BY <1>2, <3>2 DEF WritesIn, Acts, Writes
      <4>2. \A m \in late : m.cmd \notin Writes
        BY <2>1, <4>1 DEF OneActs, LateAlone
      <4>3. \A g \in 1 .. Slots : g # f => ~WritesIn(slot[g].prog)
        BY <2>1, <4>1 DEF OneActs, ActsOnce, Acts, WritesIn, Writes
      <4>4. ~WritesIn(prog)
        BY <1>4, <3>2, GaugeFacts DEF WritesIn, Changes
      <4>5. \A g \in 1 .. Slots : ~WritesIn(slot'[g].prog)
        BY <1>7, <4>3, <4>4
      <4> QED
        BY <1>6, <4>2, <4>5 DEF LateOnce, LateAlone
    <3> QED
      BY <3>1, <3>2
  <2>4. OwnReads'
    BY <1>5, <1>6, <1>7, <2>1, ProceedOwn DEF Own
  <2>5. ASSUME NEW i \in DOMAIN Gauges, gauge'[i].of \notin {active, None}
        PROVE  \E g \in 1 .. Slots : Refresh(slot'[g].prog, i)
    <3>1. Gauges[i] # c
      BY <1>9, <2>5 DEF Nothing
    <3>2. PICK g \in 1 .. Slots : Refresh(slot[g].prog, i)
      BY <1>9, <2>1, <2>5, <3>1 DEF Own, OwnShown
    <3>3. CASE g # f
      BY <1>7, <3>2, <3>3
    <3>4. CASE g = f
      <4>1. c \in GaugeReads /\ ToRead(s.prog, i)
        BY <1>2, <3>2, <3>4 DEF Refresh
      <4>2. ToRead(prog, i)
        BY <1>14, <3>1, <4>1
      <4>3. \A j \in DOMAIN prog : prog[j] \in GaugeReads
        BY <1>5, <3>2, <3>4 DEF Refresh, Part
      <4> QED
        BY <1>7, <4>2, <4>3 DEF Refresh
    <3> QED
      BY <3>3, <3>4
  <2>6. OwnShown'
    BY <1>6, <2>5 DEF OwnShown
  <2> QED
    BY <2>2, <2>3, <2>4, <2>6 DEF OneActs, Own
<1>16. ASSUME odd' = "no" PROVE Fresh'
  <2>1. odd = "no" /\ c \in GaugeReads
    BY <1>6, <1>16 DEF Worse
  <2>2. Fresh
    BY <2>1 DEF GInv
  <2>3. LateReads'
    BY <1>6, <1>13, <2>1, <2>2, GaugeFacts DEF Fresh, LateReads
  <2>4. \A g \in 1 .. Slots : FreshRead(slot'[g])
    BY <1>7, <2>2 DEF Fresh, FreshReads
  <2>5. ASSUME NEW i \in DOMAIN Gauges, gauge'[i].of = active, ~gauge'[i].fresh
        PROVE  \E g \in 1 .. Slots : Will(slot'[g], i)
    <3>1. Gauges[i] # c
      BY <1>1, <1>9, <2>5, GuiAssumption DEF Nothing, GuiType, GuiAssumption
    <3>2. PICK g \in 1 .. Slots : Will(slot[g], i)
      BY <1>9, <2>2, <2>5, <3>1 DEF Fresh, FreshShown
    <3>3. CASE g # f
      BY <1>7, <3>2, <3>3
    <3>4. CASE g = f
      <4>1. ToRead(s.prog, i)
        BY <3>2, <3>4 DEF Will
      <4> QED
        BY <1>7, <1>14, <2>1, <3>1, <4>1
    <3> QED
      BY <3>3, <3>4
  <2>6. FreshShown'
    BY <1>6, <2>5 DEF FreshShown
  <2> QED
    BY <2>3, <2>4, <2>6 DEF Fresh, FreshReads
<1> QED
  BY <1>10, <1>11, <1>15, <1>16 DEF GInv

LEMMA LateWorksKeeps ==
  ASSUME GInv, NEW l, LateWorks(l)
  PROVE  GInv'
<1> DEFINE m == [l EXCEPT !.child = "did"]
           effect == ~UNCHANGED <<slot, gauge>>
<1>1. GuiType /\ l \in late /\ l \in LateType
  BY DEF GInv, GuiType, LateWorks
<1>2. m \in LateType /\ m.cmd = l.cmd /\ l.prof \in Profile
  BY <1>1 DEF LateType
<1>3. /\ late' = (late \ {l}) \cup {m}
      /\ effect => l.cmd \in Changes /\ slot' = StaleReads(slot, l.prof) /\ gauge' = Outdated(gauge, l.prof)
      /\ UNCHANGED <<active, tab, busy, fix, started, odd, clicks, timeouts>>
  BY DEF LateWorks
<1> HIDE DEF m
<1>4. /\ slot' \in [1 .. Slots -> SlotType] /\ gauge' \in [DOMAIN Gauges -> GaugeType]
      /\ \A g \in 1 .. Slots : SlotOk(slot'[g]) /\ Lax(slot[g], slot'[g])
      /\ \A i \in DOMAIN Gauges : gauge'[i].of = gauge[i].of
  <2>1. /\ slot \in [1 .. Slots -> SlotType] /\ gauge \in [DOMAIN Gauges -> GaugeType]
        /\ \A g \in 1 .. Slots : SlotOk(slot[g])
    BY <1>1 DEF GuiType
  <2>2. CASE effect
    <3>1. slot' = StaleReads(slot, l.prof) /\ gauge' = Outdated(gauge, l.prof)
      BY <1>3, <2>2
    <3> QED
      BY <1>2, <2>1, <3>1, StaleReadsIs, OutdatedIs
  <2>3. CASE ~effect
    BY <2>1, <2>3 DEF Lax
  <2> QED
    BY <2>2, <2>3
<1>5. GuiType'
  <2>1. late' \subseteq LateType
    BY <1>1, <1>2, <1>3 DEF GuiType
  <2> QED
    BY <1>1, <1>3, <1>4, <2>1 DEF GuiType
<1>6. PayInv'
  <2>1. \A g \in 1 .. Slots : PayOk(slot'[g])
    BY <1>4, LaxMeans DEF GInv, PayInv
  <2> QED
    BY <2>1 DEF PayInv
<1>7. \A g \in 1 .. Slots : slot'[g].prog = slot[g].prog /\ slot'[g].prof = slot[g].prof
  BY <1>4, LaxMeans
<1>8. ASSUME odd' # "mixed" PROVE OneActs' /\ Own'
  <2>1. OneActs /\ Own
    BY <1>3, <1>8 DEF GInv
  <2>2. ActsOnce'
    BY <1>7, <2>1 DEF OneActs, ActsOnce
  <2>3. LateOnce'
    BY <1>1, <1>2, <1>3, <2>1 DEF OneActs, LateOnce
  <2>4. LateAlone'
    <3>1. \A k \in late' : k.cmd \in Writes => \E j \in late : j.cmd \in Writes
      BY <1>1, <1>2, <1>3
    <3> QED
      BY <1>7, <2>1, <3>1 DEF OneActs, LateAlone, WritesIn
  <2>5. OwnReads' /\ OwnShown'
    BY <1>3, <1>4, <1>7, <2>1 DEF Own, OwnReads, OwnShown
  <2> QED
    BY <2>2, <2>3, <2>4, <2>5 DEF OneActs, Own
<1>9. ASSUME odd' = "no" PROVE Fresh'
  <2>1. Fresh
    BY <1>3, <1>9 DEF GInv
  <2>2. ~effect
    BY <1>1, <1>3, <2>1 DEF Fresh, LateReads
  <2>3. LateReads'
    BY <1>1, <1>2, <1>3, <2>1 DEF Fresh, LateReads
  <2>4. FreshReads' /\ FreshShown'
    BY <1>3, <2>1, <2>2 DEF Fresh, FreshReads, FreshShown
  <2> QED
    BY <2>3, <2>4 DEF Fresh
<1> QED
  BY <1>5, <1>6, <1>8, <1>9 DEF GInv


-----------------------------------------------------------------------------
(* A click adds a flow *)

LEMMA FreeIs ==
  /\ PayOk(Free) /\ FreshRead(Free) /\ ~Acts(Free.prog) /\ ~WritesIn(Free.prog)
  /\ \A i \in DOMAIN Gauges : ~ToRead(Free.prog, i) /\ ~Will(Free, i)
<1>1. Free.prog = <<>> /\ Free.paid = 0
  BY DEF Free
<1> QED
  BY <1>1 DEF PayOk, FreshRead, Acts, WritesIn, ToRead, Will

LEMMA FlowIs ==
  ASSUME NEW p \in Profile, NEW prog \in Seq(Cmds), Form(prog), NEW own \in BOOLEAN
  PROVE  /\ Flow(p, prog, own).prog = prog /\ (prog # <<>> => Flow(p, prog, own).prof = p)
         /\ PayOk(Flow(p, prog, own)) /\ FreshRead(Flow(p, prog, own))
<1> DEFINE s == Flow(p, prog, own)
<1>1. /\ s.prog = prog /\ s.paid = 0
      /\ prog # <<>> => s.prof = p /\ s.child = IF Head(prog) \in Changes \cup Judged THEN "runs" ELSE "did"
  BY FlowOk
<1> HIDE DEF s
<1>2. prog # <<>> => Head(prog) = prog[1]
  BY TailIs
<1>3. PayOk(s)
  BY <1>1 DEF PayOk
<1>4. FreshRead(s)
  BY <1>1, <1>2 DEF FreshRead, Judged
<1> QED
  BY <1>1, <1>3, <1>4 DEF s

(* What a list adds, or leaving a tab changes, matters to no other flow. *)
LEMMA ListsIs ==
  ASSUME GInv, NEW f \in 1 .. Slots, Stays(f) \/ Lists1(f)
  PROVE  /\ PayOk(slot'[f])
         /\ Acts(slot'[f].prog) => Acts(slot[f].prog)
         /\ WritesIn(slot'[f].prog) => WritesIn(slot[f].prog)
         /\ FreshRead(slot[f]) => FreshRead(slot'[f])
         /\ \A i \in DOMAIN Gauges :
              /\ ToRead(slot'[f].prog, i) => ToRead(slot[f].prog, i) /\ slot'[f].prof = slot[f].prof
              /\ Refresh(slot[f].prog, i) => Refresh(slot'[f].prog, i)
              /\ Will(slot[f], i) => Will(slot'[f], i)
<1>1. PayOk(slot[f]) /\ slot[f] \in SlotType
  BY DEF GInv, PayInv, GuiType, SlotOk
<1>2. CASE Stays(f)
  <2>1. Same(slot[f], slot'[f])
    <3> DEFINE s == slot[f]
               t == [s EXCEPT !.own = FALSE]
    <3>1. s \in SlotType /\ slot'[f] \in {s, t}
      BY <1>1, <1>2 DEF Stays
    <3> HIDE DEF s
    <3>2. Same(s, t) /\ Same(s, s)
      BY <3>1 DEF SlotType, Same
    <3> HIDE DEF t
    <3> QED
      BY <3>1, <3>2 DEF s
  <2> QED
    BY <1>1, <2>1, SameMeans
<1>3. CASE Lists1(f)
  <2> DEFINE u == <<"list">>
  <2>1. u \in Seq(Cmds) /\ Form(u) /\ Silent(u) /\ \A j \in DOMAIN u : u[j] = "list"
    BY ListForm
  <2> HIDE DEF u
  <2>2. slot[f] = Free /\ slot'[f].prog = u /\ PayOk(slot'[f]) /\ FreshRead(slot'[f])
    BY <1>3, <2>1, FlowIs DEF Lists1, u
  <2>3. ~Acts(u) /\ ~WritesIn(u) /\ \A i \in DOMAIN Gauges : ~ToRead(u, i)
    BY <2>1, GaugeFacts DEF Acts, WritesIn, ToRead, Writes
  <2> QED
    BY <2>2, <2>3, FreeIs DEF Refresh
<1> QED
  BY <1>2, <1>3

LEMMA ListsKeep ==
  ASSUME GInv, GuiType', OnlyLists, UNCHANGED <<active, gauge, late>>,
         odd' = odd \/ (odd' = "no" /\ Quiet /\ Right)
  PROVE  GInv'
<1>1. \A f \in 1 .. Slots :
        /\ PayOk(slot'[f])
        /\ Acts(slot'[f].prog) => Acts(slot[f].prog)
        /\ WritesIn(slot'[f].prog) => WritesIn(slot[f].prog)
        /\ FreshRead(slot[f]) => FreshRead(slot'[f])
        /\ \A i \in DOMAIN Gauges :
             /\ ToRead(slot'[f].prog, i) => ToRead(slot[f].prog, i) /\ slot'[f].prof = slot[f].prof
             /\ Refresh(slot[f].prog, i) => Refresh(slot'[f].prog, i)
             /\ Will(slot[f], i) => Will(slot'[f], i)
  BY ListsIs DEF OnlyLists
<1>2. (odd' # "mixed" => OneActs /\ Own) /\ (odd' = "no" => Fresh)
  <2>1. CASE odd' = odd
    BY <2>1 DEF GInv
  <2>2. CASE odd' = "no" /\ Quiet /\ Right
    <3>1. late = {} /\ \A f \in 1 .. Slots : slot[f] = Free
      BY <2>2 DEF Quiet, NoneLive, Live
    <3>2. \A i \in DOMAIN Gauges : gauge[i].of \in {active, None} /\ (gauge[i].of = active => gauge[i].fresh)
      BY <2>2 DEF Right, GInv, GuiType
    <3>3. OneActs
      BY <3>1, FreeIs DEF OneActs, ActsOnce, LateOnce, LateAlone
    <3>4. Own
      BY <3>1, <3>2, FreeIs DEF Own, OwnReads, OwnShown
    <3>5. Fresh
      BY <3>1, <3>2, FreeIs DEF Fresh, LateReads, FreshReads, FreshShown
    <3> QED
      BY <3>3, <3>4, <3>5
  <2> QED
    BY <2>1, <2>2
<1>3. PayInv'
  BY <1>1 DEF PayInv
<1>4. ASSUME odd' # "mixed" PROVE OneActs' /\ Own'
  <2>1. ActsOnce'
    BY <1>1, <1>2, <1>4 DEF OneActs, ActsOnce
  <2>2. LateOnce' /\ LateAlone'
    BY <1>1, <1>2, <1>4 DEF OneActs, LateOnce, LateAlone
  <2>3. OwnReads'
    BY <1>1, <1>2, <1>4 DEF Own, OwnReads
  <2>4. OwnShown'
    BY <1>1, <1>2, <1>4 DEF Own, OwnShown
  <2> QED
    BY <2>1, <2>2, <2>3, <2>4 DEF OneActs, Own
<1>5. ASSUME odd' = "no" PROVE Fresh'
  <2>1. LateReads' /\ FreshReads'
    BY <1>1, <1>2, <1>5 DEF Fresh, LateReads, FreshReads
  <2>2. FreshShown'
    BY <1>1, <1>2, <1>5 DEF Fresh, FreshShown
  <2> QED
    BY <2>1, <2>2 DEF Fresh
<1> QED
  BY <1>3, <1>4, <1>5 DEF GInv

LEMMA BeginsKeeps ==
  ASSUME GInv, GuiType', NEW p \in Profile, NEW prog \in Seq(Cmds), Form(prog), Begins(p, prog),
         active' = p, UNCHANGED <<gauge, late>>,
         odd' # "mixed" => NoneLive /\ (late = {} \/ (odd # "mixed" /\ Silent(prog))),
         odd' # "mixed" /\ prog # Gauges => \A i \in DOMAIN Gauges : gauge[i].of \in {p, None},
         odd' = "no" /\ prog # Gauges => \A i \in DOMAIN Gauges : gauge[i].of = p => gauge[i].fresh,
         odd' = "no" => late = {} \/ odd = "no"
  PROVE  GInv'
<1>1. PICK g \in 1 .. Slots : Adds(g, p, prog) /\ \A f \in 1 .. Slots : f # g => Stays(f) \/ Lists1(f)
  BY DEF Begins
<1>2. slot'[g].prog = prog /\ (prog # <<>> => slot'[g].prof = p) /\ PayOk(slot'[g]) /\ FreshRead(slot'[g])
  BY <1>1, FlowIs DEF Adds
<1>3. \A f \in 1 .. Slots : f # g =>
        /\ PayOk(slot'[f])
        /\ Acts(slot'[f].prog) => Acts(slot[f].prog)
        /\ WritesIn(slot'[f].prog) => WritesIn(slot[f].prog)
        /\ FreshRead(slot[f]) => FreshRead(slot'[f])
        /\ \A i \in DOMAIN Gauges : ToRead(slot'[f].prog, i) => ToRead(slot[f].prog, i)
  BY <1>1, ListsIs
<1>4. PayInv'
  BY <1>2, <1>3 DEF PayInv
<1>5. ASSUME odd' # "mixed"
      PROVE  \A f \in 1 .. Slots : f # g =>
               /\ ~Acts(slot'[f].prog) /\ ~WritesIn(slot'[f].prog) /\ FreshRead(slot'[f])
               /\ \A i \in DOMAIN Gauges : ~ToRead(slot'[f].prog, i)
  <2>1. \A f \in 1 .. Slots : slot[f] = Free
    BY <1>5 DEF NoneLive, Live
  <2> QED
    BY <1>3, <2>1, FreeIs
<1>6. prog = Gauges => \A i \in DOMAIN Gauges : Refresh(prog, i) /\ Will(slot'[g], i)
  <2>1. ASSUME prog = Gauges, NEW i \in DOMAIN Gauges PROVE Refresh(prog, i) /\ Will(slot'[g], i)
    <3>1. Refresh(Gauges, i)
      BY GaugeFacts DEF Refresh, ToRead
    <3>2. 1 \in DOMAIN Gauges
      BY GaugeFacts
    <3>3. Gauges[1] # "paycode" /\ Gauges[1] # "checkpay"
      BY <3>2, GaugeFacts DEF Changes, Writes
    <3> QED
      BY <1>2, <2>1, <3>1, <3>3 DEF Refresh, Will
  <2> QED
    BY <2>1
<1>7. ASSUME odd' # "mixed" PROVE OneActs' /\ Own'
  <2>1. ActsOnce'
    BY <1>5, <1>7 DEF ActsOnce
  <2>2. LateOnce' /\ LateAlone'
    <3>1. CASE late = {}
      BY <3>1 DEF LateOnce, LateAlone
    <3>2. CASE odd # "mixed" /\ Silent(prog)
      <4>1. OneActs
        BY <3>2 DEF GInv
      <4>2. ~WritesIn(prog)
        BY <3>2 DEF Silent, WritesIn, Changes
      <4> QED
        BY <1>2, <1>5, <1>7, <4>1, <4>2 DEF OneActs, LateOnce, LateAlone
    <3> QED
      BY <1>7, <3>1, <3>2
  <2>3. OwnReads'
    <3>1. \A i \in DOMAIN Gauges : ToRead(prog, i) => prog # <<>>
      BY DEF ToRead
    <3> QED
      BY <1>2, <1>5, <1>7, <3>1 DEF OwnReads
  <2>4. OwnShown'
    BY <1>2, <1>6, <1>7 DEF OwnShown
  <2> QED
    BY <2>1, <2>2, <2>3, <2>4 DEF OneActs, Own
<1>8. ASSUME odd' = "no" PROVE Fresh'
  <2>1. LateReads'
    BY <1>8 DEF GInv, Fresh, LateReads
  <2>2. \A f \in 1 .. Slots : FreshRead(slot'[f])
    BY <1>2, <1>5, <1>8
  <2>3. FreshShown'
    BY <1>6, <1>8 DEF FreshShown
  <2> QED
    BY <2>1, <2>2, <2>3 DEF Fresh, FreshReads
<1> QED
  BY <1>4, <1>7, <1>8 DEF GInv


-----------------------------------------------------------------------------
(* The clicks *)

LEMMA ExcusesMeans ==
  ASSUME GInv, odd' = Excuses
  PROVE  /\ odd' \in {"no", "unread", "mixed"}
         /\ odd' # "mixed" => NoneLive /\ \A i \in DOMAIN Gauges : gauge[i].of \in {active, None}
         /\ odd' = "no" => \A i \in DOMAIN Gauges : gauge[i].of = active => gauge[i].fresh
<1>1. odd' \in {"no", "unread", "mixed"} /\ (odd' # "mixed" => NoneLive)
  BY DEF Excuses, GInv, GuiType, Quiet
<1>2. ASSUME odd' # "mixed"
      PROVE  /\ \A i \in DOMAIN Gauges : gauge[i].of \in {active, None}
             /\ odd' = "no" => \A i \in DOMAIN Gauges : gauge[i].of = active => gauge[i].fresh
  <2>1. NoneLive /\ \A f \in 1 .. Slots : slot[f] = Free
    BY <1>1, <1>2 DEF NoneLive, Live
  <2>2. CASE Quiet /\ Right
    BY <2>2 DEF Right, GInv, GuiType
  <2>3. CASE ~(Quiet /\ Right)
    <3>1. odd' = odd /\ Own /\ (odd' = "no" => Fresh)
      BY <1>2, <2>1, <2>3 DEF Excuses, GInv
    <3>2. \A i \in DOMAIN Gauges : gauge[i].of \in {active, None}
      BY <2>1, <3>1, FreeIs DEF Own, OwnShown, Refresh
    <3>3. odd' = "no" => \A i \in DOMAIN Gauges : gauge[i].of = active => gauge[i].fresh
      BY <2>1, <3>1, FreeIs DEF Fresh, FreshShown
    <3> QED
      BY <3>2, <3>3
  <2> QED
    BY <2>2, <2>3
<1> QED
  BY <1>1, <1>2

LEMMA ClicksIs == GuiType /\ Clicks => clicks' \in Nat /\ timeouts' \in Nat /\ UNCHANGED <<late, gauge>>
BY DEF GuiType, Clicks

LEMMA ClickTypes ==
  ASSUME GuiType, slot' \in [1 .. Slots -> SlotType], \A f \in 1 .. Slots : SlotOk(slot'[f]),
         active' \in Profile, tab' \in Tabs, busy' \in BOOLEAN, fix' \in BOOLEAN, started' \in BOOLEAN,
         odd' \in {"no", "unread", "mixed"}, clicks' \in Nat, timeouts' \in Nat, UNCHANGED <<late, gauge>>
  PROVE  GuiType'
BY DEF GuiType

(* A click that starts a program of a tab, or sets up a wallet *)
LEMMA StartKeeps ==
  ASSUME GInv, ~IsRunning, FreeSlots # {}, Clicks, NEW prog \in Seq(Cmds), Form(prog), NEW own \in BOOLEAN,
         slot' = Start(slot, Flow(active, prog, own)), odd' = Excuses,
         busy' \in BOOLEAN, UNCHANGED <<active, tab, fix, started>>
  PROVE  GInv'
<1>1. GuiType /\ active \in Profile /\ late = {}
  BY DEF GInv, GuiType, IsRunning
<1>2. Begins(active, prog) /\ slot' \in [1 .. Slots -> SlotType]
  BY <1>1, StartBegins
<1>3. \A f \in 1 .. Slots : SlotOk(slot'[f])
  BY <1>1, <1>2, BegunOk
<1>4. clicks' \in Nat /\ timeouts' \in Nat /\ UNCHANGED <<late, gauge>>
  BY <1>1, ClicksIs
<1>5. /\ odd' \in {"no", "unread", "mixed"}
      /\ odd' # "mixed" => NoneLive /\ \A i \in DOMAIN Gauges : gauge[i].of \in {active, None}
      /\ odd' = "no" => \A i \in DOMAIN Gauges : gauge[i].of = active => gauge[i].fresh
  BY ExcusesMeans
<1>6. GuiType'
  BY <1>1, <1>2, <1>3, <1>4, <1>5, ClickTypes DEF GuiType
<1> QED
  BY <1>1, <1>2, <1>4, <1>5, <1>6, BeginsKeeps

LEMMA ClickTabKeeps == GInv /\ ClickTab => GInv'
<1> SUFFICES ASSUME GInv, ClickTab PROVE GInv'
  OBVIOUS
<1>1. PICK prog \in Programs : slot' = Start(slot, Flow(active, prog, TRUE))
  BY DEF ClickTab
<1>2. prog \in Seq(Cmds) /\ Form(prog)
  BY ProgramsForm DEF GInv, GuiType
<1> QED
  BY <1>1, <1>2, StartKeeps DEF ClickTab

LEMMA ClickInitWalletKeeps == GInv /\ ClickInitWallet => GInv'
<1> SUFFICES ASSUME GInv, ClickInitWallet PROVE GInv'
  OBVIOUS
<1> QED
  BY WalletForm, StartKeeps DEF ClickInitWallet, GInv, GuiType

LEMMA ClickRefreshKeeps == GInv /\ ClickRefresh => GInv'
<1> SUFFICES ASSUME GInv, ClickRefresh PROVE GInv'
  OBVIOUS
<1>1. GuiType /\ active \in Profile /\ late = {}
  BY DEF GInv, GuiType, IsRunning, ClickRefresh
<1>2. Gauges \in Seq(Cmds) /\ Form(Gauges)
  BY GaugesForm
<1>3. Begins(active, Gauges) /\ slot' \in [1 .. Slots -> SlotType]
  BY <1>1, <1>2, StartBegins DEF ClickRefresh
<1>4. \A f \in 1 .. Slots : SlotOk(slot'[f])
  BY <1>1, <1>2, <1>3, BegunOk
<1>5. clicks' \in Nat /\ timeouts' \in Nat /\ UNCHANGED <<late, gauge>>
  BY <1>1, ClicksIs DEF ClickRefresh
<1>6. odd' \in {"no", "unread", "mixed"} /\ (odd' # "mixed" => NoneLive)
  BY <1>1 DEF ClickRefresh, Excuses, Quiet, GuiType
<1>7. GuiType'
  BY <1>1, <1>3, <1>4, <1>5, <1>6, ClickTypes DEF GuiType, ClickRefresh
<1> QED
  BY <1>1, <1>2, <1>3, <1>5, <1>6, <1>7, BeginsKeeps DEF ClickRefresh

LEMMA ClickListKeeps == GInv /\ ClickList => GInv'
<1> SUFFICES ASSUME GInv, ClickList PROVE GInv'
  OBVIOUS
<1>1. GuiType /\ active \in Profile /\ slot \in [1 .. Slots -> SlotType]
  BY DEF GInv, GuiType
<1>2. OnlyLists /\ slot' \in [1 .. Slots -> SlotType]
  <2>1. FreeSlots # {} /\ slot' = Start(slot, Flow(active, <<"list">>, FALSE))
    BY DEF ClickList
  <2> QED
    BY <1>1, <2>1, StartLists
<1>3. \A f \in 1 .. Slots : SlotOk(slot'[f])
  BY <1>1, <1>2, ListForm, BegunOk
<1>4. clicks' \in Nat /\ timeouts' \in Nat /\ UNCHANGED <<late, gauge>>
  BY <1>1, ClicksIs DEF ClickList
<1>5. odd' = odd \/ (odd' = "no" /\ Quiet /\ Right)
  BY DEF ClickList, Excuses, Quiet
<1>6. GuiType'
  BY <1>1, <1>2, <1>3, <1>4, <1>5, ClickTypes DEF GuiType, ClickList
<1> QED
  BY <1>2, <1>4, <1>5, <1>6, ListsKeep DEF ClickList

LEMMA SelectTabKeeps ==
  ASSUME GInv, NEW t \in Tabs, SelectTab(t)
  PROVE  GInv'
<1> DEFINE s == [f \in DOMAIN slot |-> [slot[f] EXCEPT !.own = FALSE]]
<1>1. GuiType /\ active \in Profile /\ slot \in [1 .. Slots -> SlotType]
  BY DEF GInv, GuiType
<1>2. s \in [1 .. Slots -> SlotType] /\ \A f \in 1 .. Slots : s[f] = [slot[f] EXCEPT !.own = FALSE]
  <2>1. DOMAIN slot = 1 .. Slots
    BY <1>1
  <2>2. \A f \in 1 .. Slots : s[f] = [slot[f] EXCEPT !.own = FALSE]
    BY <2>1
  <2>3. \A f \in 1 .. Slots : [slot[f] EXCEPT !.own = FALSE] \in SlotType
    BY <1>1, LeftOk DEF GuiType, SlotOk
  <2> QED
    BY <2>1, <2>2, <2>3
<1>3. slot' = IF Lists(t) THEN Start(s, Flow(active, <<"list">>, FALSE)) ELSE s
  BY DEF SelectTab
<1> HIDE DEF s
<1>4. OnlyLists /\ slot' \in [1 .. Slots -> SlotType]
  <2>1. Lists(t) => FreeSlots # {}
    BY FreeFinite DEF SelectTab
  <2>2. slot' = s \/ (FreeSlots # {} /\ slot' = Start(s, Flow(active, <<"list">>, FALSE)))
    BY <1>3, <2>1
  <2> QED
    BY <1>1, <1>2, <2>2, StartLists
<1>5. \A f \in 1 .. Slots : SlotOk(slot'[f])
  BY <1>1, <1>4, ListForm, BegunOk
<1>6. clicks' \in Nat /\ timeouts' \in Nat /\ UNCHANGED <<late, gauge>>
  BY <1>1, ClicksIs DEF SelectTab
<1>7. odd' = odd \/ (odd' = "no" /\ Quiet /\ Right)
  BY DEF SelectTab, Excuses, Quiet
<1>8. GuiType'
  BY <1>1, <1>4, <1>5, <1>6, <1>7, ClickTypes DEF GuiType, SelectTab
<1> QED
  BY <1>4, <1>6, <1>7, <1>8, ListsKeep DEF SelectTab

LEMMA SelectProfileKeeps ==
  ASSUME GInv, NEW q \in Profile, SelectProfile(q)
  PROVE  GInv'
<1>1. GuiType /\ late = {}
  BY DEF GInv, IsRunning, SelectProfile
<1>2. Gauges \in Seq(Cmds) /\ Form(Gauges)
  BY GaugesForm
<1>3. /\ Begins(q, Gauges) /\ slot' \in [1 .. Slots -> SlotType]
      /\ active' = q /\ busy' \in BOOLEAN /\ fix' = FALSE
  BY <1>1, ShowsBegins DEF SelectProfile
<1>4. \A f \in 1 .. Slots : SlotOk(slot'[f])
  BY <1>1, <1>2, <1>3, BegunOk
<1>5. clicks' \in Nat /\ timeouts' \in Nat /\ UNCHANGED <<late, gauge>>
  BY <1>1, ClicksIs DEF SelectProfile
<1>6. odd' \in {"no", "unread", "mixed"} /\ (odd' # "mixed" => NoneLive)
  BY ExcusesMeans DEF SelectProfile
<1>7. GuiType'
  BY <1>1, <1>3, <1>4, <1>5, <1>6, ClickTypes DEF GuiType, SelectProfile
<1> QED
  BY <1>1, <1>2, <1>3, <1>5, <1>6, <1>7, BeginsKeeps

LEMMA LearnsProfileKeeps == GInv /\ LearnsProfile => GInv'
<1> SUFFICES ASSUME GInv, LearnsProfile PROVE GInv'
  OBVIOUS
<1>1. GuiType /\ started' = TRUE /\ UNCHANGED <<tab, late, gauge, clicks, timeouts>>
  BY DEF GInv, LearnsProfile
<1>2. CASE Current = active
  <2>1. UNCHANGED <<active, slot, busy, fix, odd>>
    BY <1>2 DEF LearnsProfile
  <2>2. GuiType'
    BY <1>1, <2>1 DEF GuiType
  <2>3. \A g \in 1 .. Slots : Same(slot[g], slot'[g])
    BY <2>1 DEF Same
  <2> QED
    BY <1>1, <2>1, <2>2, <2>3, SameKeeps
<1>3. CASE Current # active
  <2>1. /\ Room(IF Lists(tab) THEN 2 ELSE 1) /\ Shows(Current)
        /\ odd' = IF NoneLive THEN odd ELSE "mixed"
    BY <1>3 DEF LearnsProfile
  <2>2. Current \in Profile /\ Gauges \in Seq(Cmds) /\ Form(Gauges) /\ Silent(Gauges)
    BY GaugesForm, GuiAssumption DEF GuiAssumption
  <2>3. /\ Begins(Current, Gauges) /\ slot' \in [1 .. Slots -> SlotType]
        /\ active' = Current /\ busy' \in BOOLEAN /\ fix' = FALSE
    BY <1>1, <2>1, <2>2, ShowsBegins
  <2>4. \A f \in 1 .. Slots : SlotOk(slot'[f])
    BY <1>1, <2>2, <2>3, BegunOk
  <2>5. GuiType'
    BY <1>1, <2>1, <2>2, <2>3, <2>4, ClickTypes DEF GuiType
  <2>6. /\ odd' # "mixed" => NoneLive /\ odd # "mixed"
        /\ odd' = "no" => odd = "no"
    BY <2>1
  <2> QED
    BY <1>1, <2>2, <2>3, <2>5, <2>6, BeginsKeeps
<1> QED
  BY <1>2, <1>3


-----------------------------------------------------------------------------
(* The invariant holds *)

LEMMA InitOk == Init => GInv
<1> SUFFICES ASSUME Init PROVE GInv
  OBVIOUS
<1> DEFINE x == [f \in 1 .. Slots |-> Free]
           flow == Flow(Default, Gauges, FALSE)
<1>1. Gauges \in Seq(Cmds) /\ Form(Gauges) /\ Default \in Profile /\ None \notin Profile
  BY GaugesForm, GuiAssumption DEF GuiAssumption
<1>2. /\ flow.prog = Gauges /\ (Gauges # <<>> => flow.prof = Default) /\ PayOk(flow) /\ FreshRead(flow)
      /\ SlotOk(flow) /\ flow \in SlotType
  <2>1. /\ flow.prog = Gauges /\ (Gauges # <<>> => flow.prof = Default) /\ PayOk(flow) /\ FreshRead(flow)
    BY <1>1, FlowIs
  <2>2. SlotOk(flow)
    BY <1>1, FlowOk
  <2> QED
    BY <2>1, <2>2 DEF SlotOk
<1>3. /\ active = Default /\ tab = "send" /\ busy = FALSE /\ fix = FALSE /\ slot = Start(x, flow)
      /\ late = {} /\ gauge = [i \in DOMAIN Gauges |-> Nothing] /\ started = FALSE /\ odd = "no"
      /\ clicks = 0 /\ timeouts = 0
  BY DEF Init
<1> HIDE DEF flow
<1>4. PICK g \in 1 .. Slots : slot = [x EXCEPT ![g] = flow]
  <2>1. x \in [1 .. Slots -> SlotType] /\ \E f \in 1 .. Slots : x[f] = Free
    BY FreeOk, GuiAssumption DEF GuiAssumption
  <2> HIDE DEF x
  <2> QED
    BY <1>2, <1>3, <2>1, StartIs
<1>5. /\ slot \in [1 .. Slots -> SlotType] /\ slot[g] = flow
      /\ \A f \in 1 .. Slots : f # g => slot[f] = Free
  BY <1>2, <1>4, FreeOk
<1>6. GuiType
  <2>1. Nothing \in GaugeType
    BY DEF Nothing, GaugeType
  <2>2. \A f \in 1 .. Slots : SlotOk(slot[f])
    BY <1>2, <1>5, FreeOk
  <2>3. gauge \in [DOMAIN Gauges -> GaugeType]
    BY <1>3, <2>1
  <2> QED
    BY <1>1, <1>3, <1>5, <2>2, <2>3 DEF GuiType, Tabs
<1>7. PayInv
  BY <1>2, <1>5, FreeIs DEF PayInv
<1>8. OneActs
  BY <1>3, <1>5, FreeIs DEF OneActs, ActsOnce, LateOnce, LateAlone
<1>9. \A i \in DOMAIN Gauges : gauge[i].of = None
  BY <1>3 DEF Nothing
<1>10. Own
  <2>1. \A i \in DOMAIN Gauges : ToRead(Gauges, i) => Gauges # <<>>
    BY DEF ToRead
  <2> QED
    BY <1>2, <1>3, <1>5, <1>9, <2>1, FreeIs DEF Own, OwnReads, OwnShown
<1>11. Fresh
  BY <1>1, <1>2, <1>3, <1>5, <1>9, FreeIs DEF Fresh, LateReads, FreshReads, FreshShown
<1> QED
  BY <1>6, <1>7, <1>8, <1>10, <1>11 DEF GInv

LEMMA NextKeeps == GInv /\ [Next]_vars => GInv'
<1> SUFFICES ASSUME GInv, [Next]_vars PROVE GInv'
  OBVIOUS
<1>1. CASE UNCHANGED vars
  <2>1. GuiType'
    BY <1>1 DEF GInv, GuiType, vars
  <2>2. \A g \in 1 .. Slots : Same(slot[g], slot'[g])
    BY <1>1 DEF Same, vars
  <2> QED
    BY <1>1, <2>1, <2>2, SameKeeps DEF vars
<1>2. ASSUME NEW f \in 1 .. Slots, Internal(f) \/ Timeout(f) PROVE GInv'
  BY <1>2, ReplyKeeps, WorksKeeps, ExitKeeps, ResultKeeps, TimeoutKeeps DEF Internal
<1>3. CASE Late
  BY <1>3, LateWorksKeeps, LateExitKeeps DEF Late
<1>4. CASE LearnsProfile
  BY <1>4, LearnsProfileKeeps
<1>5. CASE User
  BY <1>5, ClickTabKeeps, ClickListKeeps, ClickRefreshKeeps, ClickInitWalletKeeps, SelectProfileKeeps,
     SelectTabKeeps DEF User
<1> QED
  BY <1>1, <1>2, <1>3, <1>4, <1>5 DEF Next, System

(* The invariant, for every step of the program, the user and the time.     *)
THEOREM FlowsKept == Spec => []GInv
<1>1. Init => GInv
  BY InitOk
<1>2. GInv /\ [Next]_vars => GInv'
  BY NextKeeps
<1> QED
  BY <1>1, <1>2, PTL DEF Spec

(* One click pays at most once, whatever commands fail, are given up or run *)
(* beside others, unless withdraw-check failed after it had broadcast       *)
(* (PoolWithdraw.tsx, check and withdraw).                                  *)
THEOREM ClickPaysOnce == Spec => []PaysOnce
<1>1. GInv => PaysOnce
  <2> SUFFICES ASSUME GInv, NEW f \in 1 .. Slots PROVE slot[f].paid <= 1 \/ slot[f].unsure
    BY DEF PaysOnce
  <2> QED
    BY DEF GInv, PayInv, PayOk
<1> QED
  BY <1>1, FlowsKept, PTL

(* Two commands never write the state file of one profile at once, for any  *)
(* number of flows, of clicks and of commands given up at their time limit, *)
(* unless a click came when a flow in progress had no command registered    *)
(* (isRunning and disableAll).                                              *)
THEOREM OneWriterAtATime == Spec => []OneWriter
<1>1. GInv => OneWriter
  <2> SUFFICES ASSUME GInv, odd # "mixed", NEW p \in Profile
               PROVE  Cardinality(Writers(p)) + Cardinality(LateWriters(p)) <= 1
    BY DEF OneWriter
  <2>1. OneActs
    BY DEF GInv
  <2>2. ASSUME NEW f \in Writers(p) PROVE f \in 1 .. Slots /\ WritesIn(slot[f].prog) /\ Acts(slot[f].prog)
    <3>1. f \in 1 .. Slots /\ slot[f].child \in {"runs", "did"} /\ Head(slot[f].prog) \in Writes
      BY <2>2 DEF Writers
    <3>2. SlotOk(slot[f]) /\ slot[f].prog \in Seq(Cmds)
      BY <3>1 DEF GInv, GuiType, SlotOk, SlotType
    <3>3. slot[f].prog # <<>>
      BY <3>1, <3>2, LiveProg
    <3>4. 1 \in DOMAIN slot[f].prog /\ Head(slot[f].prog) = slot[f].prog[1]
      BY <3>2, <3>3, TailIs
    <3> QED
      BY <3>1, <3>4 DEF WritesIn, Acts, Writes
  <2>3. \A l \in LateWriters(p) : l \in late /\ l.cmd \in Writes
    BY DEF LateWriters
  <2>4. \A f, g \in Writers(p) : f = g
    BY <2>1, <2>2 DEF OneActs, ActsOnce
  <2>5. \A l, m \in LateWriters(p) : l = m
    BY <2>1, <2>3 DEF OneActs, LateOnce
  <2>6. Writers(p) = {} \/ LateWriters(p) = {}
    BY <2>1, <2>2, <2>3 DEF OneActs, LateAlone
  <2>7. ASSUME NEW S, \A a, b \in S : a = b PROVE Cardinality(S) \in {0, 1}
    <3>1. CASE S = {}
      BY <3>1, FS_EmptySet
    <3>2. CASE S # {}
      <4>1. PICK a : S = {a}
        BY <2>7, <3>2
      <4> QED
        BY <4>1, FS_Singleton
    <3> QED
      BY <3>1, <3>2
  <2>8. Cardinality(Writers(p)) \in {0, 1} /\ Cardinality(LateWriters(p)) \in {0, 1}
    BY <2>4, <2>5, <2>7
  <2>9. Cardinality(Writers(p)) = 0 \/ Cardinality(LateWriters(p)) = 0
    BY <2>6, FS_EmptySet
  <2> QED
    BY <2>8, <2>9
<1> QED
  BY <1>1, FlowsKept, PTL

LEMMA RestIs ==
  ASSUME GInv, Quiet
  PROVE  \A f \in 1 .. Slots : slot[f] = Free
BY DEF Quiet, NoneLive, Live

(* When nothing runs the gauges show the active profile or nothing, however *)
(* profiles and tabs were changed, unless refreshes of two profiles         *)
(* overlapped (App.tsx, refresh).                                           *)
THEOREM GaugesShowActive == Spec => []GaugesOwn
<1>1. GInv => GaugesOwn
  <2> SUFFICES ASSUME GInv, Quiet, odd # "mixed"
               PROVE  \A i \in DOMAIN gauge : gauge[i].of \in {active, None}
    BY DEF GaugesOwn
  <2>1. Own /\ DOMAIN gauge = DOMAIN Gauges
    BY DEF GInv, GuiType
  <2> QED
    BY <2>1, RestIs, FreeIs DEF Own, OwnShown, Refresh
<1> QED
  BY <1>1, FlowsKept, PTL

(* What they show is then no older than the last change of that profile,    *)
(* whichever flows and commands came before: every flow that changes the    *)
(* profile reads every gauge after its last change.                         *)
THEOREM GaugesUpToDate == Spec => []GaugesFresh
<1>1. GInv => GaugesFresh
  <2> SUFFICES ASSUME GInv, Quiet, odd = "no"
               PROVE  \A i \in DOMAIN gauge : gauge[i].of = active => gauge[i].fresh
    BY DEF GaugesFresh
  <2>1. Fresh /\ DOMAIN gauge = DOMAIN Gauges
    BY DEF GInv, GuiType
  <2> QED
    BY <2>1, RestIs, FreeIs DEF Fresh, FreshShown
<1> QED
  BY <1>1, FlowsKept, PTL
=============================================================================
