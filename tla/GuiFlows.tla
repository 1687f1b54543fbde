------------------------------ MODULE GuiFlows ------------------------------
(***************************************************************************)
(* The desktop app: the renderer's flows and the commands they run.  A     *)
(* click starts a flow, an async function that runs bchctl commands one    *)
(* after the other; each is a child of the main process, which answers the *)
(* call at once and announces the exit of the child by a message of its    *)
(* own.  Controls are disabled while a command is known to run, and a      *)
(* tab's own while its flow lasts; in between, clicks are possible.        *)
(*                                                                         *)
(* A flow is the sequence of the commands it has still to run.  What a     *)
(* command does is reduced to: does it write the profile's state, did it   *)
(* pay, did it exit with 0.                                                *)
(***************************************************************************)
EXTENDS Naturals, Sequences, FiniteSets

CONSTANTS
  Profile, None,
  Default,      \* the profile the renderer starts with
  Current,      \* the profile the main process names
  Gauges,       \* the reads of a refresh, in order: of "show", "base", "stealth", "pool"
  Slots,        \* bound: flows at a time
  MaxMany,      \* bound: deposits of one click
  MaxClicks,    \* bound: clicks from one rest to the next
  MaxTimeouts   \* bound: commands that outlive their time limit, likewise

ASSUME GuiAssumption ==
  /\ {Default, Current} \subseteq Profile /\ None \notin Profile
  /\ Gauges \in Seq({"show", "base", "stealth", "pool"})
  /\ Slots \in Nat \ {0} /\ {MaxMany, MaxClicks, MaxTimeouts} \subseteq Nat

VARIABLES
  active,     \* the profile shown
  tab, busy,  \* the tab shown; is its busy flag set?
  fix,        \* does it offer to repair a failed init?
  slot,       \* the flows in progress
  late,       \* commands given up at their time limit, still running
  gauge,      \* what each gauge shows: whose, and is it up to date?
  started,    \* has the renderer learned of the current profile?
  odd,        \* did something happen that may excuse what the properties exclude?
  clicks, timeouts

vars == <<active, tab, busy, fix, slot, late, gauge, started, odd, clicks, timeouts>>

-----------------------------------------------------------------------------
(* Commands *)

Writes == {"send", "scan", "init", "import", "stage", "withdraw", "checkpay"}  \* state.json
Pays == {"withdraw", "checkpay"}
Changes == Writes \cup {"wallet"}   \* what a gauge shows
GaugeReads == {Gauges[i] : i \in DOMAIN Gauges}
Judged == GaugeReads \cup {"paycode", "init", "checkpay"}

(* Flows: the clicks a tab offers.  Several deposits are staged or imported *)
(* one command each; "list" reads what a tab lists.                         *)
Many(c, n) == [i \in 1 .. n |-> c]
(* faulty variant: a scan without a refresh                                 *)
ScanProgramsSilent == {<<"scan", "list">>}
ScanPrograms == {<<"scan", "list">> \o Gauges}
InitPrograms ==
  {<<"init", "list">> \o Gauges} \cup
  (IF fix THEN {<<"paycode", "send", "scan">> \o retry \o <<"list">> \o Gauges : retry \in {<<>>, <<"init">>}} ELSE {})
ImportPrograms ==
  {<<"scan", "list", "list">> \o Many("stage", n) \o <<"list">> \o Gauges : n \in 0 .. MaxMany} \cup
  {Many("import", n) \o Gauges \o <<"list">> : n \in 1 .. MaxMany}
CheckPrograms == {<<"check">>, <<"checkpay">> \o Gauges}
WithdrawPrograms == {first \o <<"withdraw">> \o Gauges : first \in {<<>>, <<"check">>, <<"checkpay">>}}
Programs ==
  CASE tab = "send" -> {<<"send">> \o Gauges}
    [] tab = "scan" -> ScanPrograms
    [] tab = "init" -> InitPrograms
    [] tab = "import" -> ImportPrograms
    [] tab = "withdraw" -> CheckPrograms \cup WithdrawPrograms

Lists(t) == t \in {"scan", "init", "import"}

(* What is left of a flow after its first command exited.  A paycode that   *)
(* cannot be read ends it; a withdraw-check that broadcast stands for the   *)
(* withdrawal, and one that failed to is followed by it.                    *)
(* faulty variant: the withdrawal follows in any case                       *)
AfterAlways(prog, good) ==
  IF Head(prog) = "paycode" /\ ~good THEN <<>> ELSE Tail(prog)
After(prog, good) ==
  LET rest == Tail(prog) IN
  CASE Head(prog) = "paycode" /\ ~good -> <<>>
    [] Head(prog) = "checkpay" /\ rest # <<>> /\ Head(rest) = "withdraw" -> IF good THEN Tail(rest) ELSE rest
    [] Head(prog) = "checkpay" /\ ~good -> <<>>
    [] OTHER -> rest

(* A gauge's read may fail, any other command that is too late ends its     *)
(* flow.                                                                    *)
AfterTimeout(prog) == IF Head(prog) \in GaugeReads THEN Tail(prog) ELSE <<>>

-----------------------------------------------------------------------------
(* runBchctl spawns the child and replies; its exit is a second message,    *)
(* which the renderer may see before it has registered the command.         *)

Free == [prof |-> None, prog |-> <<>>, own |-> FALSE, child |-> "none", reply |-> FALSE,
         exit |-> "no", good |-> FALSE, fresh |-> FALSE, paid |-> 0, unsure |-> FALSE]
Nothing == [of |-> None, fresh |-> FALSE]   \* a gauge without data
Live(f) == slot[f] # Free
NoneLive == \A f \in 1 .. Slots : ~Live(f)
Quiet == NoneLive /\ late = {} /\ started

(* What only reads for a tab is done at once, for all that others notice. *)
Spawned(s, prog) ==
  IF prog = <<>> THEN Free
  ELSE [s EXCEPT !.prog = prog, !.child = IF Head(prog) \in Changes \cup Judged THEN "runs" ELSE "did",
                 !.reply = FALSE, !.exit = "no", !.good = FALSE, !.fresh = FALSE]
Flow(p, prog, own) == Spawned([Free EXCEPT !.prof = p, !.own = own], prog)

(* isRunning: a command is registered and its exit was not seen since *)
(* faulty variant: a command given up is forgotten                          *)
IsRunningKnown == \E f \in 1 .. Slots : slot[f].reply /\ slot[f].exit # "seen"
IsRunning == late # {} \/ \E f \in 1 .. Slots : slot[f].reply /\ slot[f].exit # "seen"

FreeSlots == {f \in 1 .. Slots : ~Live(f)}
Start(s, flow) == [s EXCEPT ![CHOOSE f \in 1 .. Slots : s[f] = Free] = flow]

Reply(f) ==
  /\ Live(f) /\ ~slot[f].reply
  /\ slot' = [slot EXCEPT ![f].reply = TRUE]
  /\ UNCHANGED <<active, tab, busy, fix, late, gauge, started, odd, clicks, timeouts>>

(* An effect makes what was read of the profile before it out of date. *)
Outdated(g, p) == [i \in DOMAIN g |-> IF g[i].of = p THEN [g[i] EXCEPT !.fresh = FALSE] ELSE g[i]]
StaleReads(s, p) == [f \in DOMAIN s |-> IF s[f].prof = p THEN [s[f] EXCEPT !.fresh = FALSE] ELSE s[f]]

(* The command does its work, or part of it, or fails; checkpay exits with  *)
(* 0 only if it paid.  Only where a flow looks at the exit code, or a gauge *)
(* at what was read, is the outcome kept.                                   *)
Works(f) ==
  LET c == Head(slot[f].prog) IN
  /\ slot[f].child = "runs"
  /\ \E good \in IF c \in Judged THEN BOOLEAN ELSE {TRUE}, effect \in IF c \in Changes THEN BOOLEAN ELSE {FALSE} :
       /\ c = "checkpay" /\ good => effect
       /\ LET paid == c \in Pays /\ effect
              s == [slot EXCEPT ![f].child = "did", ![f].good = good,
                                ![f].paid = IF paid THEN @ + 1 ELSE @,
                                ![f].unsure = @ \/ (c = "checkpay" /\ paid /\ ~good)]
              t == IF effect THEN StaleReads(s, s[f].prof) ELSE s
          IN  /\ slot' = [t EXCEPT ![f].fresh = c \in GaugeReads]
              /\ gauge' = IF effect THEN Outdated(gauge, s[f].prof) ELSE gauge
  /\ UNCHANGED <<active, tab, busy, fix, late, started, odd, clicks, timeouts>>

(* The child ends, and the renderer learns of it. *)
(* faulty variant: an exit before the reply is not kept                     *)
ExitLost(f) ==
  /\ slot[f].child = "did"
  /\ slot' = [slot EXCEPT ![f].child = "gone", ![f].exit = IF slot[f].reply THEN "seen" ELSE "no"]
  /\ UNCHANGED <<active, tab, busy, fix, late, gauge, started, odd, clicks, timeouts>>
Exit(f) ==
  /\ slot[f].child = "did"
  /\ slot' = [slot EXCEPT ![f].child = "gone", ![f].exit = IF slot[f].reply THEN "seen" ELSE "early"]
  /\ UNCHANGED <<active, tab, busy, fix, late, gauge, started, odd, clicks, timeouts>>

(* What may excuse a wrong gauge: a change that no refresh followed         *)
(* ("unread"), or flows that ran at the same time ("mixed").                *)
Worse(e) == IF odd = "mixed" THEN odd ELSE e

(* When its flow ends, a tab still mounted clears its busy flag, even if a  *)
(* later flow of that tab has set it.                                       *)
Proceed(f, prog) ==
  /\ slot' = [slot EXCEPT ![f] = Spawned(slot[f], prog)]
  /\ busy' = (busy /\ ~(prog = <<>> /\ slot[f].own))

Result(f) ==
  LET c == Head(slot[f].prog)
      shown == IF slot[f].good THEN [of |-> slot[f].prof, fresh |-> slot[f].fresh] ELSE Nothing
  IN
  /\ slot[f].reply /\ slot[f].exit # "no"
  /\ Proceed(f, After(slot[f].prog, slot[f].good))
  /\ gauge' = [i \in DOMAIN gauge |-> IF Gauges[i] = c THEN shown ELSE gauge[i]]
  /\ IF c = "init" /\ slot[f].own THEN \E b \in {FALSE, ~slot[f].good} : fix' = b ELSE UNCHANGED fix
  /\ odd' = IF c = "checkpay" /\ slot[f].unsure THEN Worse("unread") ELSE odd
  /\ UNCHANGED <<active, tab, late, started, clicks, timeouts>>

(* The time limit runs from the reply.  The command is given up, not ended. *)
Timeout(f) ==
  LET c == Head(slot[f].prog) IN
  /\ timeouts < MaxTimeouts
  /\ slot[f].reply /\ slot[f].exit = "no"
  /\ timeouts' = timeouts + 1
  /\ late' = late \cup {[n |-> timeouts, prof |-> slot[f].prof, cmd |-> c, child |-> slot[f].child]}
  /\ Proceed(f, AfterTimeout(slot[f].prog))
  /\ gauge' = [i \in DOMAIN gauge |-> IF Gauges[i] = c THEN Nothing ELSE gauge[i]]
  /\ odd' = IF c \in GaugeReads THEN odd ELSE Worse("unread")
  /\ UNCHANGED <<active, tab, fix, started, clicks>>

LateWorks(l) ==
  /\ l \in late /\ l.child = "runs"
  /\ late' = (late \ {l}) \cup {[l EXCEPT !.child = "did"]}
  /\ \/ UNCHANGED <<slot, gauge>>
     \/ l.cmd \in Changes /\ slot' = StaleReads(slot, l.prof) /\ gauge' = Outdated(gauge, l.prof)
  /\ UNCHANGED <<active, tab, busy, fix, started, odd, clicks, timeouts>>

LateExit(l) ==
  /\ l \in late /\ l.child # "runs"
  /\ late' = late \ {l}
  /\ UNCHANGED <<active, tab, busy, fix, slot, gauge, started, odd, clicks, timeouts>>

-----------------------------------------------------------------------------
(* The user *)

Clicks ==
  /\ IF Quiet THEN clicks' = 1 /\ timeouts' = 0
     ELSE clicks < MaxClicks /\ clicks' = clicks + 1 /\ UNCHANGED timeouts
  /\ UNCHANGED <<late, gauge>>
(* An excuse is dropped when the app rests with nothing to excuse. *)
Right == \A i \in DOMAIN gauge : gauge[i].of \in {active, None} /\ (gauge[i].of = active => gauge[i].fresh)
Excuses == IF Quiet /\ Right THEN "no" ELSE IF NoneLive THEN odd ELSE "mixed"

(* disableAll and, for the controls of a tab, its busy flag *)
ClickTab ==
  /\ ~IsRunning /\ ~busy /\ FreeSlots # {}
  /\ Clicks
  /\ \E prog \in Programs : slot' = Start(slot, Flow(active, prog, TRUE))
  /\ busy' = TRUE
  /\ odd' = Excuses
  /\ UNCHANGED <<active, tab, fix, started>>

ClickList ==
  /\ ~IsRunning /\ ~busy /\ FreeSlots # {} /\ Lists(tab)
  /\ Clicks
  /\ slot' = Start(slot, Flow(active, <<"list">>, FALSE))
  /\ odd' = IF Quiet THEN Excuses ELSE odd
  /\ UNCHANGED <<active, tab, busy, fix, started>>

ClickRefresh ==
  /\ ~IsRunning /\ FreeSlots # {}
  /\ Clicks
  /\ slot' = Start(slot, Flow(active, Gauges, FALSE))
  /\ odd' = IF Quiet THEN "no" ELSE Excuses
  /\ UNCHANGED <<active, tab, busy, fix, started>>

ClickInitWallet ==
  /\ ~IsRunning /\ FreeSlots # {}
  /\ Clicks
  /\ slot' = Start(slot, Flow(active, <<"wallet">> \o Gauges, FALSE))
  /\ odd' = Excuses
  /\ UNCHANGED <<active, tab, busy, fix, started>>

(* The gauges are read again, and by effects of its own the tab's list; two *)
(* of the tabs clear their busy flag.                                       *)
(* faulty variant: the gauges are not read again                            *)
ShowsOld(q) ==
  /\ active' = q
  /\ slot' = IF Lists(tab) THEN Start(slot, Flow(q, <<"list">>, FALSE)) ELSE slot
  /\ busy' = (busy /\ tab \notin {"init", "import"})
  /\ fix' = FALSE
Shows(q) ==
  LET s == Start(slot, Flow(q, Gauges, FALSE)) IN
  /\ active' = q
  /\ slot' = IF Lists(tab) THEN Start(s, Flow(q, <<"list">>, FALSE)) ELSE s
  /\ busy' = (busy /\ tab \notin {"init", "import"})
  /\ fix' = FALSE

Room(n) == Cardinality(FreeSlots) >= n

SelectProfile(q) ==
  /\ ~IsRunning /\ q # active /\ Room(IF Lists(tab) THEN 2 ELSE 1)
  /\ Clicks
  /\ Shows(q)
  /\ odd' = Excuses
  /\ UNCHANGED <<tab, started>>

(* Always possible.  The tab left is unmounted: its busy flag is lost, its  *)
(* flow goes on.                                                            *)
SelectTab(t) ==
  LET s == [f \in DOMAIN slot |-> [slot[f] EXCEPT !.own = FALSE]] IN
  /\ t # tab /\ Room(IF Lists(t) THEN 1 ELSE 0)
  /\ Clicks
  /\ tab' = t /\ busy' = FALSE /\ fix' = FALSE
  /\ slot' = IF Lists(t) THEN Start(s, Flow(active, <<"list">>, FALSE)) ELSE s
  /\ odd' = IF Quiet THEN Excuses ELSE odd
  /\ UNCHANGED <<active, started>>

(* At the start the gauges are read for the default profile, and read for   *)
(* the current one as soon as the main process has named it.                *)
LearnsProfile ==
  /\ ~started /\ started' = TRUE
  /\ IF Current = active THEN UNCHANGED <<active, slot, busy, fix, odd>>
     ELSE /\ Room(IF Lists(tab) THEN 2 ELSE 1)
          /\ Shows(Current)
          /\ odd' = IF NoneLive THEN odd ELSE "mixed"
  /\ UNCHANGED <<tab, late, gauge, clicks, timeouts>>

-----------------------------------------------------------------------------
Tabs == {"send", "scan", "init", "import", "withdraw"}

Init ==
  /\ active = Default
  /\ tab = "send" /\ busy = FALSE /\ fix = FALSE
  /\ slot = Start([f \in 1 .. Slots |-> Free], Flow(Default, Gauges, FALSE))
  /\ late = {}
  /\ gauge = [i \in DOMAIN Gauges |-> Nothing]
  /\ started = FALSE
  /\ odd = "no"
  /\ clicks = 0 /\ timeouts = 0

Internal(f) == Reply(f) \/ Works(f) \/ Exit(f) \/ Result(f)
Late == \E l \in late : LateWorks(l) \/ LateExit(l)
User ==
  \/ ClickTab \/ ClickList \/ ClickRefresh \/ ClickInitWallet
  \/ \E q \in Profile : SelectProfile(q)
  \/ \E t \in Tabs : SelectTab(t)

System == (\E f \in 1 .. Slots : Internal(f)) \/ Late \/ LearnsProfile
Next == System \/ User \/ \E f \in 1 .. Slots : Timeout(f)

(* The main process replies and forwards exits, the renderer handles what   *)
(* arrives, and a command ends: its waits for the node are bounded and it   *)
(* has no input to wait for.  Users and time limits are free.               *)
Fairness == WF_vars(System)
Spec == Init /\ [][Next]_vars /\ Fairness

-----------------------------------------------------------------------------
(* Properties *)

Writers(p) ==
  {f \in 1 .. Slots : slot[f].prof = p /\ slot[f].child \in {"runs", "did"} /\ Head(slot[f].prog) \in Writes}
LateWriters(p) == {l \in late : l.prof = p /\ l.child # "gone" /\ l.cmd \in Writes}

(* Two commands that write the state file of one profile never run at once, *)
(* even after one was given up at its time limit or its tab was left,       *)
(* unless the second was clicked in the moment when a flow in progress had  *)
(* no command registered.                                                   *)
OneWriter == odd = "mixed" \/ \A p \in Profile : Cardinality(Writers(p)) + Cardinality(LateWriters(p)) <= 1

(* When nothing runs the gauges show the active profile or nothing, unless  *)
(* refreshes of two profiles overlapped, at the start or because of such a  *)
(* click; a Refresh then repairs them.                                      *)
GaugesOwn ==
  Quiet /\ odd # "mixed" => \A i \in DOMAIN gauge : gauge[i].of \in {active, None}

(* What they show is no older than the last change any command of the app   *)
(* made to that profile, unless a command other than a refresh was given up *)
(* at its time limit or withdraw-check failed after it had broadcast.       *)
GaugesFresh == Quiet /\ odd = "no" => \A i \in DOMAIN gauge : gauge[i].of = active => gauge[i].fresh

(* One click pays at most once, unless withdraw-check failed after it had   *)
(* broadcast.                                                               *)
PaysOnce == \A f \in 1 .. Slots : slot[f].paid <= 1 \/ slot[f].unsure

(* Again and again every flow ends and all controls come back. *)
ControlsComeBack == []<>(Quiet /\ ~IsRunning /\ ~busy)

=============================================================================
