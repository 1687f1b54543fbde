---------------------------- MODULE ConfigStore -----------------------------
(***************************************************************************)
(* config.json: the profiles of a user, their wallets and the profile in   *)
(* use.  Commands of bchctl (Proc) and the handlers of the desktop app's   *)
(* main process read it, change their copy and write the whole of it back; *)
(* nothing locks it.  A command overwrites the file in place (truncate,    *)
(* then write), the app replaces it by a rename.  `wallet init` waits for  *)
(* the Electrum node between its read and its write.                       *)
(*                                                                         *)
(* A wallet is its key: a number in the order of creation.  Of its form    *)
(* only what `wallet init` distinguishes is kept.                          *)
(***************************************************************************)
EXTENDS Naturals

CONSTANTS
  Proc,        \* commands that run at the same time
  Profile,     \* profile names
  Default,     \* the name "default"
  Given,       \* keys the user has the mnemonic of beforehand
  Stated,      \* heights the user may give as --birthday-height
  MaxKey,      \* bound: keys 1 .. MaxKey exist, the given ones included
  Margin,      \* blocks a birthday is rewound by
  MaxTip,      \* bound: height of the chain
  MaxFaults,   \* bound: commands that die
  MaxStarts,   \* bound: commands and handlers started
  NoProfile

Key == 1 .. MaxKey

ASSUME ConfigAssumption ==
  /\ Default \in Profile /\ NoProfile \notin Profile
  /\ MaxKey \in Nat \ {0} /\ Given \subseteq Key /\ Stated \subseteq 0 .. MaxTip
  /\ Margin \in Nat /\ MaxTip \in Nat /\ MaxTip > Margin /\ MaxFaults \in Nat /\ MaxStarts \in Nat

VARIABLES
  disk,      \* the file under its name
  dirs,      \* the profile directories
  pc, cmd,   \* per command: where it is, and what it does
  mem,       \* per command: the configuration it read, then the one it writes
  fd,        \* per command: does its open file still bear the name?
  gui,       \* the main process: the handler in progress
  tip,       \* height of the chain
  used,      \* per key: the height of its first payment, 0 if none
  born,      \* per key: "no" wallet yet; "old", of an earlier format; made by init,
             \* "offline" or "online"; or its mnemonic or birthday "given" by the user
  told,      \* <<mnemonic, paycode>> pairs printed to the user
  dropped,   \* keys overwritten because the user said --force
  clash,     \* did a reader come between another's read and the end of its write?
  cut,       \* did a command die with the file truncated?
  faults, starts

vars == <<disk, dirs, pc, cmd, mem, fd, gui, tip, used, born, told, dropped, clash, cut, faults, starts>>

-----------------------------------------------------------------------------
(* Configurations.  An entry without a wallet has key 0; birth 0 is both    *)
(* "no birthday" and the birthday 0, which every reader treats alike.       *)

Placeholder == [key |-> 0, form |-> "none", birth |-> 0]
Wallet == [key : Key, form : {"old", "full", "odd"}, birth : 0 .. MaxTip]
Entry == {Placeholder} \cup Wallet
Config == [cur : Profile, prof : UNION {[S -> Entry] : S \in SUBSET Profile}]

Whole(c) == [text |-> "whole", config |-> c]
NoConfig == [cur |-> Default, prof |-> [q \in {} |-> Placeholder]]
Absent == [text |-> "absent", config |-> NoConfig]
Torn == [text |-> "torn", config |-> NoConfig]

EntryOf(c, q) == IF q \in DOMAIN c.prof THEN c.prof[q] ELSE Placeholder
Upsert(c, q, e) ==
  [c EXCEPT !.prof = [r \in DOMAIN c.prof \cup {q} |-> IF r = q THEN e ELSE c.prof[r]]]
KeysOf(c) == {c.prof[q].key : q \in DOMAIN c.prof} \ {0}

-----------------------------------------------------------------------------
(* Overlap: between a read and the end of the write that depends on it      *)
Busy(p) == pc[p] \in {"node", "write", "open"}
Working == {p \in Proc : Busy(p)}
GuiBusy == gui.pc # "idle"

Begin == starts < MaxStarts /\ starts' = starts + 1

NoCmd == [op |-> "none", q |-> Default, entry |-> Placeholder]
Ends(p) ==
  /\ pc' = [pc EXCEPT ![p] = "idle"]
  /\ cmd' = [cmd EXCEPT ![p] = NoCmd]
  /\ mem' = [mem EXCEPT ![p] = NoConfig]

(* A command reads the file: absent is an empty configuration, a torn file  *)
(* makes it throw.                                                          *)
Reads(p) ==
  /\ pc[p] = "idle" /\ disk.text # "torn"
  /\ Begin
  /\ clash' = (clash \/ Working # {} \/ GuiBusy)

(* profile set and profile set-network: both keep or create the entry       *)
ProfileSet(p, q) ==
  /\ Reads(p)
  /\ \E cur \in {q, disk.config.cur} :
       mem' = [mem EXCEPT ![p] = [Upsert(disk.config, q, EntryOf(disk.config, q)) EXCEPT !.cur = cur]]
  /\ pc' = [pc EXCEPT ![p] = "write"]
  /\ cmd' = [cmd EXCEPT ![p] = [op |-> "profile", q |-> q, entry |-> Placeholder]]
  /\ UNCHANGED <<disk, dirs, fd, gui, tip, used, born, told, dropped, cut, faults>>

-----------------------------------------------------------------------------
(* wallet init, up to the question to the node *)

Waits(p, q, op, e) ==
  /\ Reads(p)
  /\ mem' = [mem EXCEPT ![p] = disk.config]
  /\ cmd' = [cmd EXCEPT ![p] = [op |-> op, q |-> q, entry |-> e]]
  /\ pc' = [pc EXCEPT ![p] = "node"]
  /\ UNCHANGED <<disk, dirs, fd, gui, tip, used, told, cut, faults>>

InitRefresh(p, q) ==
  LET e == EntryOf(disk.config, q) IN
  /\ e.form = "full"
  /\ Waits(p, q, "refresh", e)
  /\ UNCHANGED <<born, dropped>>

InitHydrate(p, q) ==
  LET e == EntryOf(disk.config, q) IN
  /\ e.form = "old"
  /\ Waits(p, q, "hydrate", [e EXCEPT !.form = "full"])
  /\ UNCHANGED <<born, dropped>>

(* The mnemonics --mnemonic can be given: those known beforehand, and those *)
(* an earlier init made, once they are printed or in the file               *)
Mnemonics ==
  Given \cup {k \in Key : /\ born[k] \notin {"no", "old"}
                         /\ (k \in KeysOf(disk.config) \/ \E t \in told : t[1] = k)}
Generates(k) == born[k] = "no" /\ \A j \in Key \ Given : j < k => born[j] # "no"

(* A wallet of unknown form is refused without --force, and so is every     *)
(* wallet overwritten.                                                      *)
InitCreate(p, q, force, k) ==
  LET e == EntryOf(disk.config, q) IN
  /\ e.key = 0 \/ force
  /\ k \in Mnemonics \/ Generates(k)
  /\ Waits(p, q, "create", [key |-> k, form |-> "full", birth |-> 0])
  /\ born' = [born EXCEPT ![k] = IF k \in Mnemonics THEN "given" ELSE "offline"]
  /\ dropped' = dropped \cup ({e.key} \ {0, k})

(* chooseBirthdayHeight: the height stated; else the birthday there is;     *)
(* else the tip, rewound; else the first payment the node knows of; else 0. *)
(* The node may fail to answer either question.                             *)
Rewound(h) == IF h > Margin THEN h - Margin ELSE 0
Flag == {{}} \cup {{h} : h \in Stated}
(* faulty variant: picked again by every init                               *)
BirthdaysAgain(e, asksHistory, flag) == IF flag # {} THEN flag ELSE {Rewound(tip)}
Birthdays(e, asksHistory, flag) ==
  CASE flag # {} -> flag
    [] flag = {} /\ e.birth > 0 -> {e.birth}
    [] OTHER ->
       LET history == IF asksHistory /\ used[e.key] > 0 THEN {0, Rewound(used[e.key])} ELSE {0}
       IN  history \cup ({Rewound(tip)} \ {0})

(* what is then known of the wallet's birthday                              *)
BornNow(op, k, b, flag) ==
  CASE flag # {} /\ born[k] # "old" -> "given"
    [] flag = {} /\ op = "create" /\ b > 0 /\ born[k] = "offline" -> "online"
    [] OTHER -> born[k]

NodeAnswers(p) ==
  /\ pc[p] = "node"
  /\ \E flag \in Flag : \E b \in Birthdays(cmd[p].entry, cmd[p].op # "create", flag) :
       LET e == [cmd[p].entry EXCEPT !.birth = b]
           unchanged == cmd[p].op = "refresh" /\ b = cmd[p].entry.birth
       IN  /\ cmd' = [cmd EXCEPT ![p].entry = e]
           /\ mem' = [mem EXCEPT ![p] = [Upsert(@, cmd[p].q, e) EXCEPT !.cur = cmd[p].q]]
           /\ pc' = [pc EXCEPT ![p] = IF unchanged THEN "report" ELSE "write"]
           /\ born' = [born EXCEPT ![e.key] = BornNow(cmd[p].op, e.key, b, flag)]
  /\ UNCHANGED <<disk, dirs, fd, gui, tip, used, told, dropped, clash, cut, faults, starts>>

-----------------------------------------------------------------------------
(* writeConfig: writeFileSync truncates the file under the name, then       *)
(* writes into what it opened                                               *)
Open(p) ==
  /\ pc[p] = "write"
  /\ disk' = Torn
  /\ fd' = [fd EXCEPT ![p] = "named"]
  /\ pc' = [pc EXCEPT ![p] = "open"]
  /\ UNCHANGED <<dirs, cmd, mem, gui, tip, used, born, told, dropped, clash, cut, faults, starts>>

(* Text that another command has written since leaves its tail behind when  *)
(* it is the longer one.                                                    *)
Write(p) ==
  /\ pc[p] = "open"
  /\ \/ fd[p] = "gone" /\ UNCHANGED disk
     \/ fd[p] = "named" /\ disk' = Whole(mem[p])
     \/ fd[p] = "named" /\ disk.text = "whole" /\ disk' = Torn
  /\ fd' = [fd EXCEPT ![p] = "none"]
  /\ IF cmd[p].op = "profile" THEN Ends(p)
     ELSE pc' = [pc EXCEPT ![p] = "report"] /\ UNCHANGED <<cmd, mem>>
  /\ UNCHANGED <<dirs, gui, tip, used, born, told, dropped, clash, cut, faults, starts>>

(* The summary shows the wallet that a second read finds, and the mnemonic  *)
(* that was generated.  It throws if there is none.                         *)
(* faulty variant: the wallet of the profile in use                         *)
ReportCurrent(p) ==
  LET stored == EntryOf(disk.config, disk.config.cur).key
      own == IF cmd[p].op = "create" THEN cmd[p].entry.key ELSE stored
  IN
  /\ pc[p] = "report"
  /\ told' = IF disk.text = "whole" /\ stored # 0 THEN told \cup {<<own, stored>>} ELSE told
  /\ Ends(p)
  /\ UNCHANGED <<disk, dirs, fd, gui, tip, used, born, dropped, clash, cut, faults, starts>>
Report(p) ==
  LET stored == EntryOf(disk.config, cmd[p].q).key
      own == IF cmd[p].op = "create" THEN cmd[p].entry.key ELSE stored
  IN
  /\ pc[p] = "report"
  /\ told' = IF disk.text = "whole" /\ stored # 0 THEN told \cup {<<own, stored>>} ELSE told
  /\ Ends(p)
  /\ UNCHANGED <<disk, dirs, fd, gui, tip, used, born, dropped, clash, cut, faults, starts>>

Dies(p) ==
  /\ pc[p] # "idle" /\ faults < MaxFaults
  /\ faults' = faults + 1
  /\ Ends(p)
  /\ fd' = [fd EXCEPT ![p] = "none"]
  /\ cut' = (cut \/ fd[p] = "named")
  /\ UNCHANGED <<disk, dirs, gui, tip, used, born, told, dropped, clash, starts>>

-----------------------------------------------------------------------------
(* The main process of the desktop app.  `gui` is the handler in progress,  *)
(* `set` the profile it makes the current one (none for the handlers that   *)
(* only list), and the configuration it has loaded.                         *)

GuiIdle == [pc |-> "idle", set |-> NoProfile, config |-> NoConfig]

(* loadOrInitConfig: anything but a whole configuration is replaced by one  *)
(* made of the profile directories, without wallets.                        *)
Least(S) == CHOOSE q \in S : TRUE
Fresh == [cur |-> IF dirs = {} THEN Default ELSE Least(dirs), prof |-> [q \in dirs |-> Placeholder]]

Handler(set) ==
  /\ gui.pc = "idle"
  /\ Begin
  /\ clash' = (clash \/ Working # {})
  /\ gui' = IF disk.text = "whole" THEN [pc |-> "reconcile", set |-> set, config |-> disk.config]
            ELSE [pc |-> "seed", set |-> set, config |-> Fresh]
  /\ UNCHANGED <<disk, dirs, pc, cmd, mem, fd, tip, used, born, told, dropped, cut, faults>>

(* writeTextAtomic: the name moves to a new file; what a command still      *)
(* holds open is no longer config.json                                      *)
Renamed(c) ==
  /\ disk' = Whole(c)
  /\ fd' = [p \in Proc |-> IF fd[p] = "named" THEN "gone" ELSE fd[p]]

GuiSeed ==
  /\ gui.pc = "seed"
  /\ Renamed(gui.config)
  /\ gui' = [gui EXCEPT !.pc = "reconcile"]
  /\ UNCHANGED <<dirs, pc, cmd, mem, tip, used, born, told, dropped, clash, cut, faults, starts>>

(* reconcileProfiles: a directory for each entry, an entry for each         *)
(* directory, and a current profile that exists                             *)
(* faulty variant: an entry without a directory goes                        *)
ReconciledToDirs(c) ==
  LET cur == IF c.cur \in dirs THEN c.cur ELSE IF dirs = {} THEN Default ELSE Least(dirs)
  IN  [cur |-> cur, prof |-> [q \in dirs \cup {cur} |-> EntryOf(c, q)]]
Reconciled(c) ==
  LET all == DOMAIN c.prof \cup dirs
      cur == IF c.cur \in all THEN c.cur ELSE IF all = {} THEN Default ELSE Least(all)
  IN  [cur |-> cur, prof |-> [q \in all \cup {cur} |-> EntryOf(c, q)]]

GuiFinish ==
  LET r == Reconciled(gui.config)
      c == IF gui.set = NoProfile THEN r
           ELSE [Upsert(r, gui.set, EntryOf(r, gui.set)) EXCEPT !.cur = gui.set]
  IN
  /\ gui.pc = "reconcile"
  /\ dirs' = dirs \cup DOMAIN gui.config.prof \cup ({gui.set} \ {NoProfile})
  /\ IF gui.set # NoProfile \/ c # gui.config THEN Renamed(c) ELSE UNCHANGED <<disk, fd>>
  /\ gui' = GuiIdle
  /\ UNCHANGED <<pc, cmd, mem, tip, used, born, told, dropped, clash, cut, faults, starts>>

-----------------------------------------------------------------------------
(* Outside: blocks, enough of them to tell birthdays apart; a payment to a  *)
(* paycode or address the user was shown, here or elsewhere                 *)
Mined ==
  /\ tip + Margin + 1 <= MaxTip
  /\ tip' = tip + Margin + 1
  /\ UNCHANGED <<disk, dirs, pc, cmd, mem, fd, gui, used, born, told, dropped, clash, cut, faults, starts>>

Shown(k) == born[k] = "old" \/ k \in Given \/ \E t \in told : t[2] = k

Paid(k) ==
  /\ used[k] = 0 /\ tip > 0 /\ Shown(k)
  /\ used' = [used EXCEPT ![k] = tip]
  /\ UNCHANGED <<disk, dirs, pc, cmd, mem, fd, gui, tip, born, told, dropped, clash, cut, faults, starts>>

-----------------------------------------------------------------------------
(* At first there is nothing, or a profile with a wallet of an earlier      *)
(* format or of an unknown one, whose key is 1.                             *)
Old(form) == Whole([cur |-> Default, prof |-> [q \in {Default} |-> [key |-> 1, form |-> form, birth |-> 0]]])

Init ==
  /\ \/ disk = Absent /\ dirs = {}
     \/ disk \in {Old("old"), Old("odd")} /\ dirs = {Default}
  /\ born = [k \in Key |-> IF k \in Given THEN "given" ELSE IF disk # Absent /\ k = 1 THEN "old" ELSE "no"]
  /\ pc = [p \in Proc |-> "idle"]
  /\ cmd = [p \in Proc |-> NoCmd]
  /\ mem = [p \in Proc |-> NoConfig]
  /\ fd = [p \in Proc |-> "none"]
  /\ gui = GuiIdle
  /\ tip = Margin + 1
  /\ used = [k \in Key |-> 0]
  /\ told = {} /\ dropped = {}
  /\ clash = FALSE /\ cut = FALSE /\ faults = 0 /\ starts = 0

Command(p) ==
  \/ \E q \in Profile : ProfileSet(p, q) \/ InitRefresh(p, q) \/ InitHydrate(p, q)
  \/ \E q \in Profile, force \in BOOLEAN, k \in Key : InitCreate(p, q, force, k)
  \/ NodeAnswers(p) \/ Open(p) \/ Write(p) \/ Report(p) \/ Dies(p)

Gui == (\E set \in Profile \cup {NoProfile} : Handler(set)) \/ GuiSeed \/ GuiFinish

Next == (\E p \in Proc : Command(p)) \/ Gui \/ Mined \/ (\E k \in Key : Paid(k))

Spec == Init /\ [][Next]_vars

-----------------------------------------------------------------------------
(* Properties *)

(* The state is of the expected shape. *)
TypeOK ==
  /\ disk \in [text : {"whole", "torn", "absent"}, config : Config]
  /\ dirs \subseteq Profile
  /\ pc \in [Proc -> {"idle", "node", "write", "open", "report"}]
  /\ cmd \in [Proc -> [op : {"none", "profile", "refresh", "hydrate", "create"}, q : Profile, entry : Entry]]
  /\ mem \in [Proc -> Config]
  /\ fd \in [Proc -> {"none", "named", "gone"}]
  /\ gui \in [pc : {"idle", "seed", "reconcile"}, set : Profile \cup {NoProfile}, config : Config]
  /\ tip \in 0 .. MaxTip /\ used \in [Key -> 0 .. MaxTip]
  /\ born \in [Key -> {"no", "given", "old", "offline", "online"}]
  /\ told \subseteq Key \X Key /\ dropped \subseteq Key
  /\ clash \in BOOLEAN /\ cut \in BOOLEAN
  /\ faults \in 0 .. MaxFaults /\ starts \in 0 .. MaxStarts

(* What the file holds, or will once the commands that have it open have    *)
(* written                                                                  *)
Safe(k) == k \in KeysOf(disk.config) \/ \E p \in Proc : pc[p] = "open" /\ fd[p] = "named" /\ k \in KeysOf(mem[p])

(* A wallet the user was shown is in the file until the user overwrites it  *)
(* with --force, through hydration, birthday updates, profile switches and  *)
(* the app's repairs, unless two accesses overlapped or a command died with *)
(* the file truncated.                                                      *)
Owed == ({t[2] : t \in told} \cup {k \in Key : born[k] = "old"}) \ dropped
KeysKept == clash \/ cut \/ \A k \in Owed : Safe(k)

(* The mnemonic a user is told to save is the one of the address and        *)
(* paycode shown with it, although the summary is made from a second read   *)
(* of the file: unless two accesses overlapped, a command died with the     *)
(* file truncated (the app may then have repaired it, and the second read   *)
(* finds a wallet made after that), or the user meanwhile asked to          *)
(* overwrite that very wallet.                                              *)
SummaryTrue == clash \/ cut \/ \A t \in told : t[1] = t[2] \/ t[1] \in dropped

(* A wallet that init made with the node's answer is never scanned from a   *)
(* height after its first payment, whatever overlaps, dies or is repaired:  *)
(* its birthday is not picked again, unless the user gives init its         *)
(* mnemonic, for which init takes the tip anew, or states a height.         *)
BirthdayCovers ==
  disk.text = "whole" => \A q \in DOMAIN disk.config.prof :
    LET e == disk.config.prof[q] IN
    e.key # 0 /\ born[e.key] = "online" /\ used[e.key] > 0 => e.birth <= used[e.key]
=============================================================================
