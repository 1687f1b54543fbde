---------------------------- MODULE ConfigProofs ----------------------------
(***************************************************************************)
(* Proofs about config.json (ConfigStore), for any number of commands,     *)
(* profiles, keys, deaths and starts:                                      *)
(*   - KeysKept: a wallet the user was shown stays in the file;            *)
(*   - SummaryTrue: the mnemonic and the address printed together belong   *)
(*     together;                                                           *)
(*   - BirthdayCovers: a wallet's scans begin before its first payment.    *)
(*                                                                         *)
(* The first two follow from Steady: as long as no two accesses overlapped *)
(* and nothing was cut, a command's copy keeps, profile by profile, every  *)
(* key of the file that was not given up by --force, and what the file     *)
(* holds, or will once it is written, has the keys owed to the user.  The  *)
(* third holds without that excuse, of every copy of an entry anywhere     *)
(* (Covering): a key the node has not answered for is in no file yet.      *)
(***************************************************************************)
EXTENDS ConfigStore, TLAPS

-----------------------------------------------------------------------------
(* Configurations and their operators *)

KeyAt(c, q) == EntryOf(c, q).key

LEMMA ConfigParts ==
  ASSUME NEW c \in Config
  PROVE  /\ c.cur \in Profile
         /\ DOMAIN c.prof \subseteq Profile
         /\ c.prof \in [DOMAIN c.prof -> Entry]
         /\ c = [cur |-> c.cur, prof |-> c.prof]
<1>1. PICK S \in SUBSET Profile : c.prof \in [S -> Entry]
  BY DEF Config
<1>2. DOMAIN c.prof = S
  BY <1>1
<1> QED
  BY <1>1, <1>2 DEF Config

LEMMA ConfigBuilt ==
  ASSUME NEW cur \in Profile, NEW S \in SUBSET Profile, NEW f \in [S -> Entry]
  PROVE  [cur |-> cur, prof |-> f] \in Config
<1>1. f \in UNION {[T -> Entry] : T \in SUBSET Profile}
  OBVIOUS
<1> QED
  BY <1>1 DEF Config

LEMMA PlaceholderType == Placeholder \in Entry /\ Placeholder.key = 0
BY DEF Placeholder, Entry

LEMMA EntryParts ==
  ASSUME NEW e \in Entry
  PROVE  /\ e.key \in Key \cup {0} /\ e.birth \in 0 .. MaxTip
         /\ e.key # 0 => e \in Wallet
         /\ e \in Wallet => e.key \in Key /\ e.key # 0
         /\ e.form # "none" => e \in Wallet
BY ConfigAssumption DEF ConfigAssumption, Placeholder, Entry, Wallet, Key

LEMMA EntryType ==
  ASSUME NEW c \in Config, NEW q
  PROVE  /\ EntryOf(c, q) \in Entry
         /\ KeyAt(c, q) \in Key \cup {0}
<1>1. EntryOf(c, q) \in Entry
  BY ConfigParts, PlaceholderType DEF EntryOf
<1> QED
  BY <1>1, EntryParts DEF KeyAt

LEMMA NoConfigEmpty ==
  /\ NoConfig \in Config
  /\ \A q : EntryOf(NoConfig, q) = Placeholder
  /\ \A q : KeyAt(NoConfig, q) = 0
<1>1. Default \in Profile
  BY ConfigAssumption DEF ConfigAssumption
<1>2. [q \in {} |-> Placeholder] \in [{} -> Entry]
  OBVIOUS
<1>3. NoConfig \in Config
  BY <1>1, <1>2, ConfigBuilt DEF NoConfig
<1>4. \A q : EntryOf(NoConfig, q) = Placeholder
  BY DEF NoConfig, EntryOf
<1> QED
  BY <1>3, <1>4, PlaceholderType DEF KeyAt

LEMMA Upserted ==
  ASSUME NEW c \in Config, NEW q \in Profile, NEW e \in Entry
  PROVE  /\ Upsert(c, q, e) \in Config
         /\ \A r : EntryOf(Upsert(c, q, e), r) = IF r = q THEN e ELSE EntryOf(c, r)
<1> DEFINE f == [r \in DOMAIN c.prof \cup {q} |-> IF r = q THEN e ELSE c.prof[r]]
<1>1. Upsert(c, q, e) = [cur |-> c.cur, prof |-> f]
  BY ConfigParts DEF Upsert
<1>2. DOMAIN c.prof \cup {q} \in SUBSET Profile
  BY ConfigParts
<1>3. f \in [DOMAIN c.prof \cup {q} -> Entry]
  BY ConfigParts
<1>4. \A r : EntryOf([cur |-> c.cur, prof |-> f], r) = IF r = q THEN e ELSE EntryOf(c, r)
  BY DEF EntryOf
<1> HIDE DEF f
<1>5. [cur |-> c.cur, prof |-> f] \in Config
  BY <1>2, <1>3, ConfigParts, ConfigBuilt
<1> QED
  BY <1>1, <1>4, <1>5

LEMMA Selected ==
  ASSUME NEW c \in Config, NEW q \in Profile
  PROVE  /\ [c EXCEPT !.cur = q] \in Config
         /\ \A r : EntryOf([c EXCEPT !.cur = q], r) = EntryOf(c, r)
<1>1. [c EXCEPT !.cur = q] = [cur |-> q, prof |-> c.prof]
  BY ConfigParts
<1>2. [cur |-> q, prof |-> c.prof] \in Config
  BY ConfigParts, ConfigBuilt
<1>3. \A r : EntryOf([cur |-> q, prof |-> c.prof], r) = EntryOf(c, r)
  BY DEF EntryOf
<1> QED
  BY <1>1, <1>2, <1>3

LEMMA LeastIn == ASSUME NEW S, S # {} PROVE Least(S) \in S
BY DEF Least

LEMMA FreshEmpty ==
  ASSUME dirs \subseteq Profile
  PROVE  /\ Fresh \in Config
         /\ \A q : EntryOf(Fresh, q) = Placeholder
<1>1. (IF dirs = {} THEN Default ELSE Least(dirs)) \in Profile
  BY LeastIn, ConfigAssumption DEF ConfigAssumption
<1>2. [q \in dirs |-> Placeholder] \in [dirs -> Entry]
  BY PlaceholderType
<1>3. Fresh \in Config
  BY <1>1, <1>2, ConfigBuilt DEF Fresh
<1>4. \A q : EntryOf(Fresh, q) = Placeholder
  BY DEF Fresh, EntryOf
<1> QED
  BY <1>3, <1>4

(* The app's repair changes no entry. *)
LEMMA Repaired ==
  ASSUME NEW c \in Config, dirs \subseteq Profile
  PROVE  /\ Reconciled(c) \in Config
         /\ \A q : EntryOf(Reconciled(c), q) = EntryOf(c, q)
<1> DEFINE all == DOMAIN c.prof \cup dirs
           cur == IF c.cur \in all THEN c.cur ELSE IF all = {} THEN Default ELSE Least(all)
           f == [q \in all \cup {cur} |-> EntryOf(c, q)]
<1>1. Reconciled(c) = [cur |-> cur, prof |-> f]
  BY DEF Reconciled
<1>2. all \subseteq Profile
  BY ConfigParts
<1> HIDE DEF all
<1>3. cur \in Profile
  BY <1>2, ConfigParts, LeastIn, ConfigAssumption DEF ConfigAssumption
<1> HIDE DEF cur
<1>4. f \in [all \cup {cur} -> Entry]
  BY EntryType
<1>5. DOMAIN c.prof \subseteq all
  BY DEF all
<1>6. \A q : EntryOf([cur |-> cur, prof |-> f], q) = EntryOf(c, q)
  BY <1>5 DEF EntryOf
<1> HIDE DEF f
<1>7. [cur |-> cur, prof |-> f] \in Config
  BY <1>2, <1>3, <1>4, ConfigBuilt
<1> QED
  BY <1>1, <1>6, <1>7

-----------------------------------------------------------------------------
(* Types *)

LEMMA OldType ==
  ASSUME NEW form \in {"old", "odd"}
  PROVE  /\ Old(form).config \in Config
         /\ Old(form) \in [text : {"whole", "torn", "absent"}, config : Config]
<1>1. [key |-> 1, form |-> form, birth |-> 0] \in Entry
  BY ConfigAssumption DEF ConfigAssumption, Entry, Wallet, Key
<1>2. {Default} \in SUBSET Profile /\ Default \in Profile
  BY ConfigAssumption DEF ConfigAssumption
<1>3. [q \in {Default} |-> [key |-> 1, form |-> form, birth |-> 0]] \in [{Default} -> Entry]
  BY <1>1
<1>4. [cur |-> Default, prof |-> [q \in {Default} |-> [key |-> 1, form |-> form, birth |-> 0]]] \in Config
  BY <1>2, <1>3, ConfigBuilt
<1> QED
  BY <1>4 DEF Old, Whole

LEMMA WholeType ==
  ASSUME NEW c \in Config
  PROVE  Whole(c) \in [text : {"whole", "torn", "absent"}, config : Config]
BY DEF Whole

LEMMA TornType ==
  /\ Torn \in [text : {"whole", "torn", "absent"}, config : Config]
  /\ Absent \in [text : {"whole", "torn", "absent"}, config : Config]
BY NoConfigEmpty DEF Torn, Absent

(* `wallet init` has a wallet in hand, and only it waits for the node. *)
Inits == {"refresh", "hydrate", "create"}
InHand(at, c) == (at = "node" => c.op \in Inits) /\ (c.op \in Inits => c.entry \in Wallet)
TypeInv == TypeOK /\ \A p \in Proc : InHand(pc[p], cmd[p])

LEMMA InitType == Init => TypeInv
<1> SUFFICES ASSUME Init PROVE TypeInv
  OBVIOUS
<1> USE DEF Init
<1>1. disk \in [text : {"whole", "torn", "absent"}, config : Config] /\ dirs \subseteq Profile
  <2>1. CASE disk = Absent /\ dirs = {}
    BY <2>1, TornType, ConfigAssumption DEF ConfigAssumption
  <2>2. CASE disk \in {Old("old"), Old("odd")} /\ dirs = {Default}
    BY <2>2, OldType, ConfigAssumption DEF ConfigAssumption
  <2> QED
    BY <2>1, <2>2
<1>2. NoCmd \in [op : {"none", "profile", "refresh", "hydrate", "create"}, q : Profile, entry : Entry]
  BY PlaceholderType, ConfigAssumption DEF NoCmd, ConfigAssumption
<1>3. GuiIdle \in [pc : {"idle", "seed", "reconcile"}, set : Profile \cup {NoProfile}, config : Config]
  BY NoConfigEmpty DEF GuiIdle
<1>4. tip \in 0 .. MaxTip /\ used \in [Key -> 0 .. MaxTip] /\ faults \in 0 .. MaxFaults /\ starts \in 0 .. MaxStarts
  BY ConfigAssumption DEF ConfigAssumption
<1>5. born \in [Key -> {"no", "given", "old", "offline", "online"}]
  OBVIOUS
<1>6. mem \in [Proc -> Config]
  BY NoConfigEmpty
<1>7. \A p \in Proc : InHand(pc[p], cmd[p])
  BY DEF InHand, Inits, NoCmd
<1> QED
  BY <1>1, <1>2, <1>3, <1>4, <1>5, <1>6, <1>7 DEF TypeInv, TypeOK

CmdType == [op : {"none", "profile", "refresh", "hydrate", "create"}, q : Profile, entry : Entry]

LEMMA BegunType ==
  ASSUME starts \in 0 .. MaxStarts, Begin
  PROVE  starts' \in 0 .. MaxStarts
BY ConfigAssumption DEF ConfigAssumption, Begin

LEMMA ReadsType ==
  ASSUME TypeInv, NEW p \in Proc, Reads(p)
  PROVE  /\ starts' \in 0 .. MaxStarts
         /\ clash' \in BOOLEAN
         /\ disk.config \in Config
         /\ \A q : EntryOf(disk.config, q) \in Entry
<1>1. clash' \in BOOLEAN
  BY DEF Reads, TypeInv, InHand, Inits, TypeOK
<1>2. starts' \in 0 .. MaxStarts
  BY BegunType DEF Reads, TypeInv, InHand, Inits, TypeOK
<1>3. disk.config \in Config
  BY DEF TypeInv, InHand, Inits, TypeOK
<1> QED
  BY <1>1, <1>2, <1>3, EntryType

LEMMA EndsType ==
  ASSUME TypeInv, NEW p \in Proc, Ends(p)
  PROVE  /\ pc' \in [Proc -> {"idle", "node", "write", "open", "report"}]
         /\ cmd' \in [Proc -> CmdType]
         /\ mem' \in [Proc -> Config]
<1>1. NoCmd \in CmdType
  BY PlaceholderType, ConfigAssumption DEF NoCmd, ConfigAssumption, CmdType
<1>2. NoConfig \in Config
  BY NoConfigEmpty
<1> QED
  BY <1>1, <1>2 DEF Ends, TypeInv, InHand, Inits, TypeOK, CmdType

LEMMA ProfileSetType ==
  ASSUME TypeInv, NEW p \in Proc, NEW q \in Profile, ProfileSet(p, q)
  PROVE  TypeInv'
<1>1. Reads(p)
  BY DEF ProfileSet
<1>2. PICK cur \in {q, disk.config.cur} :
        mem' = [mem EXCEPT ![p] = [Upsert(disk.config, q, EntryOf(disk.config, q)) EXCEPT !.cur = cur]]
  BY DEF ProfileSet
<1> DEFINE u == Upsert(disk.config, q, EntryOf(disk.config, q))
<1>3. u \in Config
  BY <1>1, ReadsType, Upserted
<1>4. cur \in Profile
  BY <1>1, ReadsType, ConfigParts
<1> HIDE DEF u
<1>5. [u EXCEPT !.cur = cur] \in Config
  BY <1>3, <1>4, Selected
<1>6. mem' \in [Proc -> Config]
  BY <1>2, <1>5 DEF u, TypeInv, InHand, Inits, TypeOK
<1>7. cmd' \in [Proc -> CmdType]
  BY PlaceholderType DEF ProfileSet, TypeInv, InHand, Inits, TypeOK, CmdType
<1>8. pc' \in [Proc -> {"idle", "node", "write", "open", "report"}]
  BY DEF ProfileSet, TypeInv, InHand, Inits, TypeOK
<1> QED
  BY <1>1, <1>6, <1>7, <1>8, ReadsType DEF ProfileSet, TypeInv, InHand, Inits, TypeOK, CmdType

LEMMA WaitsType ==
  ASSUME TypeInv, NEW p \in Proc, NEW q \in Profile, NEW op \in {"refresh", "hydrate", "create"},
         NEW e \in Wallet, Waits(p, q, op, e)
  PROVE  /\ disk' \in [text : {"whole", "torn", "absent"}, config : Config]
         /\ dirs' \subseteq Profile
         /\ pc' \in [Proc -> {"idle", "node", "write", "open", "report"}]
         /\ cmd' \in [Proc -> CmdType]
         /\ \A r \in Proc : InHand(pc'[r], cmd'[r])
         /\ mem' \in [Proc -> Config]
         /\ fd' \in [Proc -> {"none", "named", "gone"}]
         /\ gui' \in [pc : {"idle", "seed", "reconcile"}, set : Profile \cup {NoProfile}, config : Config]
         /\ tip' \in 0 .. MaxTip /\ used' \in [Key -> 0 .. MaxTip]
         /\ told' \subseteq Key \X Key
         /\ clash' \in BOOLEAN /\ cut' \in BOOLEAN
         /\ faults' \in 0 .. MaxFaults /\ starts' \in 0 .. MaxStarts
<1>1. Reads(p)
  BY DEF Waits
<1>2. mem' \in [Proc -> Config]
  BY <1>1, ReadsType DEF Waits, TypeInv, InHand, Inits, TypeOK
<1>3. cmd' \in [Proc -> CmdType] /\ \A r \in Proc : InHand(pc'[r], cmd'[r])
  BY DEF Waits, TypeInv, InHand, Inits, TypeOK, CmdType, Entry
<1>4. pc' \in [Proc -> {"idle", "node", "write", "open", "report"}]
  BY DEF Waits, TypeInv, InHand, Inits, TypeOK
<1> QED
  BY <1>1, <1>2, <1>3, <1>4, ReadsType DEF Waits, TypeInv, InHand, Inits, TypeOK

LEMMA InitRefreshType ==
  ASSUME TypeInv, NEW p \in Proc, NEW q \in Profile, InitRefresh(p, q)
  PROVE  TypeInv'
<1> DEFINE e == EntryOf(disk.config, q)
<1>1. Waits(p, q, "refresh", e) /\ UNCHANGED <<born, dropped>>
  BY DEF InitRefresh
<1>2. e \in Wallet
  BY EntryType, EntryParts DEF TypeInv, InHand, Inits, TypeOK, InitRefresh
<1> HIDE DEF e
<1> QED
  BY <1>1, <1>2, WaitsType DEF TypeInv, InHand, Inits, TypeOK, CmdType

LEMMA Hydrated ==
  ASSUME NEW e \in Wallet
  PROVE  /\ [e EXCEPT !.form = "full"] \in Wallet
         /\ [e EXCEPT !.form = "full"].key = e.key
         /\ [e EXCEPT !.form = "full"].birth = e.birth
BY DEF Wallet

LEMMA Dated ==
  ASSUME NEW e \in Wallet, NEW b \in 0 .. MaxTip
  PROVE  /\ [e EXCEPT !.birth = b] \in Wallet
         /\ [e EXCEPT !.birth = b].key = e.key
         /\ [e EXCEPT !.birth = b].birth = b
BY DEF Wallet

LEMMA InitHydrateType ==
  ASSUME TypeInv, NEW p \in Proc, NEW q \in Profile, InitHydrate(p, q)
  PROVE  TypeInv'
<1> DEFINE e == [EntryOf(disk.config, q) EXCEPT !.form = "full"]
<1>1. Waits(p, q, "hydrate", e) /\ UNCHANGED <<born, dropped>>
  BY DEF InitHydrate
<1>2. e \in Wallet
  BY EntryType, EntryParts, Hydrated DEF TypeInv, InHand, Inits, TypeOK, InitHydrate
<1> HIDE DEF e
<1> QED
  BY <1>1, <1>2, WaitsType DEF TypeInv, InHand, Inits, TypeOK, CmdType

NewWallet(k) == [key |-> k, form |-> "full", birth |-> 0]

LEMMA NewWalletType ==
  ASSUME NEW k \in Key
  PROVE  NewWallet(k) \in Wallet /\ NewWallet(k).key = k /\ k # 0
BY ConfigAssumption DEF ConfigAssumption, NewWallet, Wallet, Key

LEMMA InitCreateType ==
  ASSUME TypeInv, NEW p \in Proc, NEW q \in Profile, NEW force \in BOOLEAN, NEW k \in Key,
         InitCreate(p, q, force, k)
  PROVE  TypeInv'
<1>1. Waits(p, q, "create", NewWallet(k))
  BY DEF InitCreate, NewWallet
<1>2. born' \in [Key -> {"no", "given", "old", "offline", "online"}]
  BY DEF InitCreate, TypeInv, InHand, Inits, TypeOK
<1>3. dropped' \subseteq Key
  <2>1. EntryOf(disk.config, q).key \in Key \cup {0}
    BY EntryType DEF TypeInv, InHand, Inits, TypeOK, KeyAt
  <2>2. dropped' = dropped \cup ({EntryOf(disk.config, q).key} \ {0, k})
    BY DEF InitCreate
  <2> QED
    BY <2>1, <2>2 DEF TypeInv, InHand, Inits, TypeOK
<1> QED
  BY <1>1, <1>2, <1>3, NewWalletType, WaitsType DEF TypeInv, InHand, Inits, TypeOK, CmdType

LEMMA RewoundType ==
  ASSUME NEW h \in 0 .. MaxTip
  PROVE  Rewound(h) \in 0 .. MaxTip /\ Rewound(h) <= h
BY ConfigAssumption DEF ConfigAssumption, Rewound

(* Of a birthday that is not stated only two things are known: one set      *)
(* before is kept, and otherwise it is a height rewound, or 0.              *)
LEMMA BirthdaysType ==
  ASSUME TypeInv, NEW e \in Wallet, NEW asks \in BOOLEAN, NEW flag \in Flag,
         NEW b \in Birthdays(e, asks, flag)
  PROVE  /\ b \in 0 .. MaxTip
         /\ flag = {} /\ e.birth > 0 => b = e.birth
         /\ flag = {} /\ ~asks => b = e.birth \/ b <= tip
<1>1. e.birth \in 0 .. MaxTip /\ e.key \in Key
  BY DEF Wallet
<1>2. tip \in 0 .. MaxTip /\ Rewound(tip) \in 0 .. MaxTip /\ Rewound(tip) <= tip
  BY RewoundType DEF TypeInv, InHand, Inits, TypeOK
<1>3. CASE flag = {} /\ e.birth > 0
  BY <1>1, <1>3 DEF Birthdays
<1>4. CASE flag # {}
  <2>1. b \in flag
    BY <1>4 DEF Birthdays
  <2>2. flag \subseteq Stated
    BY <1>4 DEF Flag
  <2> QED
    BY <1>4, <2>1, <2>2, ConfigAssumption DEF ConfigAssumption
<1>5. CASE flag = {} /\ ~(e.birth > 0)
  <2>1. 0 \in 0 .. MaxTip /\ 0 <= tip
    BY <1>2, ConfigAssumption DEF ConfigAssumption
  <2>2. CASE asks /\ used[e.key] > 0
    <3>1. b \in {0, Rewound(used[e.key])} \cup {Rewound(tip)}
      BY <1>5, <2>2 DEF Birthdays
    <3> QED
      BY <1>1, <1>2, <1>5, <2>1, <2>2, <3>1, RewoundType DEF TypeInv, InHand, Inits, TypeOK
  <2>3. CASE ~(asks /\ used[e.key] > 0)
    <3>1. b \in {0} \cup {Rewound(tip)}
      BY <1>5, <2>3 DEF Birthdays
    <3> QED
      BY <1>2, <1>5, <2>1, <3>1
  <2> QED
    BY <2>2, <2>3
<1> QED
  BY <1>3, <1>5, <1>4

LEMMA NodeAnswersType ==
  ASSUME TypeInv, NEW p \in Proc, NodeAnswers(p)
  PROVE  TypeInv'
<1>1. cmd[p].entry \in Wallet /\ cmd[p].q \in Profile /\ mem[p] \in Config
  BY DEF NodeAnswers, TypeInv, InHand, Inits, TypeOK
<1>2. PICK flag \in Flag : \E b \in Birthdays(cmd[p].entry, cmd[p].op # "create", flag) :
        LET e == [cmd[p].entry EXCEPT !.birth = b]
            unchanged == cmd[p].op = "refresh" /\ b = cmd[p].entry.birth
        IN  /\ cmd' = [cmd EXCEPT ![p].entry = e]
            /\ mem' = [mem EXCEPT ![p] = [Upsert(@, cmd[p].q, e) EXCEPT !.cur = cmd[p].q]]
            /\ pc' = [pc EXCEPT ![p] = IF unchanged THEN "report" ELSE "write"]
            /\ born' = [born EXCEPT ![e.key] = BornNow(cmd[p].op, e.key, b, flag)]
  BY DEF NodeAnswers
<1>2b. PICK b \in Birthdays(cmd[p].entry, cmd[p].op # "create", flag) :
        LET e == [cmd[p].entry EXCEPT !.birth = b]
            unchanged == cmd[p].op = "refresh" /\ b = cmd[p].entry.birth
        IN  /\ cmd' = [cmd EXCEPT ![p].entry = e]
            /\ mem' = [mem EXCEPT ![p] = [Upsert(@, cmd[p].q, e) EXCEPT !.cur = cmd[p].q]]
            /\ pc' = [pc EXCEPT ![p] = IF unchanged THEN "report" ELSE "write"]
            /\ born' = [born EXCEPT ![e.key] = BornNow(cmd[p].op, e.key, b, flag)]
  BY <1>2
<1> DEFINE e == [cmd[p].entry EXCEPT !.birth = b]
           m == [Upsert(mem[p], cmd[p].q, e) EXCEPT !.cur = cmd[p].q]
<1>3. e \in Wallet
  <2>1. (cmd[p].op # "create") \in BOOLEAN
    OBVIOUS
  <2>2. b \in 0 .. MaxTip
    BY <1>1, <2>1, BirthdaysType
  <2> QED
    BY <1>1, <2>2, Dated
<1>4. /\ cmd' = [cmd EXCEPT ![p].entry = e]
      /\ mem' = [mem EXCEPT ![p] = m]
      /\ pc' = [pc EXCEPT ![p] = IF cmd[p].op = "refresh" /\ b = cmd[p].entry.birth THEN "report" ELSE "write"]
      /\ born' = [born EXCEPT ![e.key] = BornNow(cmd[p].op, e.key, b, flag)]
  BY <1>2b
<1> HIDE DEF e
<1>5. e \in Entry
  BY <1>3 DEF Entry
<1>6. m \in Config
  BY <1>1, <1>5, Upserted, Selected
<1> HIDE DEF m
<1>7. cmd' \in [Proc -> CmdType]
  BY <1>4, <1>5 DEF TypeInv, InHand, Inits, TypeOK, CmdType
<1>8. mem' \in [Proc -> Config]
  BY <1>4, <1>6 DEF TypeInv, InHand, Inits, TypeOK
<1>9. /\ pc' \in [Proc -> {"idle", "node", "write", "open", "report"}]
      /\ \A r \in Proc : pc'[r] = "node" => pc[r] = "node"
  BY <1>4 DEF TypeInv, InHand, Inits, TypeOK
<1>10. \A r \in Proc : InHand(pc'[r], cmd'[r])
  BY <1>3, <1>4 DEF TypeInv, InHand, Inits, TypeOK
<1>11. born' \in [Key -> {"no", "given", "old", "offline", "online"}]
  BY <1>4 DEF TypeInv, InHand, Inits, TypeOK, BornNow
<1> QED
  BY <1>7, <1>8, <1>9, <1>10, <1>11 DEF NodeAnswers, TypeInv, InHand, Inits, TypeOK, CmdType

LEMMA OpenType ==
  ASSUME TypeInv, NEW p \in Proc, Open(p)
  PROVE  TypeInv'
<1>1. /\ pc' \in [Proc -> {"idle", "node", "write", "open", "report"}]
      /\ \A r \in Proc : pc'[r] = "node" => pc[r] = "node"
  BY DEF Open, TypeInv, InHand, Inits, TypeOK
<1>2. fd' \in [Proc -> {"none", "named", "gone"}]
  BY DEF Open, TypeInv, InHand, Inits, TypeOK
<1> QED
  BY <1>1, <1>2, TornType DEF Open, TypeInv, InHand, Inits, TypeOK

LEMMA WriteType ==
  ASSUME TypeInv, NEW p \in Proc, Write(p)
  PROVE  TypeInv'
<1>1. /\ disk' \in [text : {"whole", "torn", "absent"}, config : Config]
      /\ fd' \in [Proc -> {"none", "named", "gone"}]
  <2>1. mem[p] \in Config
    BY DEF TypeInv, InHand, Inits, TypeOK
  <2> QED
    BY <2>1, WholeType, TornType DEF Write, TypeInv, InHand, Inits, TypeOK
<1>2. /\ pc' \in [Proc -> {"idle", "node", "write", "open", "report"}]
      /\ cmd' \in [Proc -> CmdType]
      /\ mem' \in [Proc -> Config]
      /\ \A r \in Proc : InHand(pc'[r], cmd'[r])
  <2>1. CASE cmd[p].op = "profile"
    <3>1. Ends(p)
      BY <2>1 DEF Write
    <3>2. \A r \in Proc : InHand(pc'[r], cmd'[r])
      BY <3>1 DEF Ends, NoCmd, TypeInv, InHand, Inits, TypeOK
    <3> QED
      BY <3>1, <3>2, EndsType
  <2>2. CASE cmd[p].op # "profile"
    <3>1. pc' = [pc EXCEPT ![p] = "report"] /\ UNCHANGED <<cmd, mem>>
      BY <2>2 DEF Write
    <3> QED
      BY <3>1 DEF TypeInv, InHand, Inits, TypeOK, CmdType
  <2> QED
    BY <2>1, <2>2
<1> QED
  BY <1>1, <1>2 DEF Write, TypeInv, InHand, Inits, TypeOK, CmdType

(* A command that ends, whatever it did to other variables *)
LEMMA EndsOnly ==
  ASSUME TypeInv, NEW p \in Proc, Ends(p)
  PROVE  \A r \in Proc : InHand(pc'[r], cmd'[r])
BY DEF Ends, NoCmd, TypeInv, InHand, Inits, TypeOK

LEMMA ReportType ==
  ASSUME TypeInv, NEW p \in Proc, Report(p)
  PROVE  TypeInv'
<1>1. Ends(p)
  BY DEF Report
<1>2. told' \subseteq Key \X Key
  <2> DEFINE stored == EntryOf(disk.config, cmd[p].q).key
             own == IF cmd[p].op = "create" THEN cmd[p].entry.key ELSE stored
  <2>1. stored \in Key \cup {0}
    BY EntryType DEF TypeInv, InHand, Inits, TypeOK, KeyAt
  <2>2. told' = IF disk.text = "whole" /\ stored # 0 THEN told \cup {<<own, stored>>} ELSE told
    BY DEF Report
  <2>3. cmd[p].op = "create" => cmd[p].entry.key \in Key
    BY EntryParts DEF Entry, TypeInv, InHand, Inits, TypeOK
  <2> QED
    BY <2>1, <2>2, <2>3 DEF TypeInv, TypeOK
<1> QED
  BY <1>1, <1>2, EndsType, EndsOnly DEF Report, TypeInv, InHand, Inits, TypeOK, CmdType

LEMMA DiesType ==
  ASSUME TypeInv, NEW p \in Proc, Dies(p)
  PROVE  TypeInv'
<1>1. Ends(p)
  BY DEF Dies
<1>2. faults' \in 0 .. MaxFaults
  BY ConfigAssumption DEF ConfigAssumption, Dies, TypeInv, TypeOK
<1>3. fd' \in [Proc -> {"none", "named", "gone"}] /\ cut' \in BOOLEAN
  BY DEF Dies, TypeInv, TypeOK
<1> QED
  BY <1>1, <1>2, <1>3, EndsType, EndsOnly DEF Dies, TypeInv, TypeOK, CmdType

LEMMA HandlerType ==
  ASSUME TypeInv, NEW set \in Profile \cup {NoProfile}, Handler(set)
  PROVE  TypeInv'
<1>1. starts' \in 0 .. MaxStarts
  BY BegunType DEF Handler, TypeInv, TypeOK
<1>2. disk.config \in Config /\ Fresh \in Config
  BY FreshEmpty DEF TypeInv, TypeOK
<1>3. gui' \in [pc : {"idle", "seed", "reconcile"}, set : Profile \cup {NoProfile}, config : Config]
  BY <1>2 DEF Handler
<1>4. clash' \in BOOLEAN
  BY DEF Handler, TypeInv, TypeOK
<1> QED
  BY <1>1, <1>3, <1>4 DEF Handler, TypeInv, TypeOK, CmdType

LEMMA RenamedType ==
  ASSUME TypeInv, NEW c \in Config, Renamed(c)
  PROVE  /\ disk' \in [text : {"whole", "torn", "absent"}, config : Config]
         /\ fd' \in [Proc -> {"none", "named", "gone"}]
<1>1. disk' \in [text : {"whole", "torn", "absent"}, config : Config]
  BY WholeType DEF Renamed
<1>2. \A p \in Proc : (IF fd[p] = "named" THEN "gone" ELSE fd[p]) \in {"none", "named", "gone"}
  BY DEF TypeInv, TypeOK
<1> QED
  BY <1>1, <1>2 DEF Renamed

LEMMA GuiSeedType ==
  ASSUME TypeInv, GuiSeed
  PROVE  TypeInv'
<1>1. gui.config \in Config /\ Renamed(gui.config)
  BY DEF GuiSeed, TypeInv, TypeOK
<1>2. gui' \in [pc : {"idle", "seed", "reconcile"}, set : Profile \cup {NoProfile}, config : Config]
  BY DEF GuiSeed, TypeInv, TypeOK
<1> QED
  BY <1>1, <1>2, RenamedType DEF GuiSeed, TypeInv, TypeOK

(* What the handler writes at its end *)
Repair ==
  LET r == Reconciled(gui.config) IN
  IF gui.set = NoProfile THEN r
  ELSE [Upsert(r, gui.set, EntryOf(r, gui.set)) EXCEPT !.cur = gui.set]

LEMMA RepairKeeps ==
  ASSUME TypeInv
  PROVE  /\ Repair \in Config
         /\ \A q : EntryOf(Repair, q) = EntryOf(gui.config, q)
<1> DEFINE r == Reconciled(gui.config)
<1>1. gui.config \in Config /\ dirs \subseteq Profile /\ gui.set \in Profile \cup {NoProfile}
  BY DEF TypeInv, TypeOK
<1>2. r \in Config /\ \A q : EntryOf(r, q) = EntryOf(gui.config, q)
  BY <1>1, Repaired
<1>3. Repair = IF gui.set = NoProfile THEN r
               ELSE [Upsert(r, gui.set, EntryOf(r, gui.set)) EXCEPT !.cur = gui.set]
  BY DEF Repair
<1> HIDE DEF r
<1>4. CASE gui.set = NoProfile
  BY <1>2, <1>3, <1>4
<1>5. CASE gui.set # NoProfile
  <2>1. gui.set \in Profile /\ EntryOf(r, gui.set) \in Entry
    BY <1>1, <1>2, <1>5, EntryType
  <2> DEFINE u == Upsert(r, gui.set, EntryOf(r, gui.set))
  <2>2. u \in Config /\ \A q : EntryOf(u, q) = EntryOf(r, q)
    BY <1>2, <2>1, Upserted
  <2> HIDE DEF u
  <2>3. [u EXCEPT !.cur = gui.set] \in Config /\ \A q : EntryOf([u EXCEPT !.cur = gui.set], q) = EntryOf(u, q)
    BY <2>1, <2>2, Selected
  <2>4. Repair = [u EXCEPT !.cur = gui.set]
    BY <1>3, <1>5 DEF u
  <2> QED
    BY <1>2, <2>2, <2>3, <2>4
<1> QED
  BY <1>4, <1>5

LEMMA Finished ==
  ASSUME GuiFinish
  PROVE  /\ gui.pc = "reconcile" /\ gui' = GuiIdle
         /\ dirs' = dirs \cup DOMAIN gui.config.prof \cup ({gui.set} \ {NoProfile})
         /\ Renamed(Repair) \/ (gui.set = NoProfile /\ Repair = gui.config /\ UNCHANGED <<disk, fd>>)
         /\ UNCHANGED <<pc, cmd, mem, tip, used, born, told, dropped, clash, cut, faults, starts>>
BY DEF GuiFinish, Repair

LEMMA GuiFinishType ==
  ASSUME TypeInv, GuiFinish
  PROVE  TypeInv'
<1>1. /\ disk' \in [text : {"whole", "torn", "absent"}, config : Config]
      /\ fd' \in [Proc -> {"none", "named", "gone"}]
  BY Finished, RepairKeeps, RenamedType DEF TypeInv, TypeOK
<1>2. dirs' \subseteq Profile
  BY Finished, ConfigParts DEF TypeInv, TypeOK
<1>3. gui' \in [pc : {"idle", "seed", "reconcile"}, set : Profile \cup {NoProfile}, config : Config]
  BY Finished, NoConfigEmpty DEF GuiIdle
<1> QED
  BY <1>1, <1>2, <1>3, Finished DEF TypeInv, TypeOK

LEMMA OutsideType ==
  ASSUME TypeInv, Mined \/ \E k \in Key : Paid(k)
  PROVE  TypeInv'
<1>1. CASE Mined
  <2>1. tip' \in 0 .. MaxTip
    BY <1>1, ConfigAssumption DEF ConfigAssumption, Mined, TypeInv, TypeOK
  <2> QED
    BY <1>1, <2>1 DEF Mined, TypeInv, TypeOK
<1>2. CASE \E k \in Key : Paid(k)
  BY <1>2 DEF Paid, TypeInv, TypeOK
<1> QED
  BY <1>1, <1>2

LEMMA StutterType == ASSUME TypeInv, UNCHANGED vars PROVE TypeInv'
BY DEF vars, TypeInv, TypeOK

(* The state is always of the expected shape. *)
THEOREM ConfigTyped == Spec => []TypeInv
<1>1. ASSUME TypeInv, [Next]_vars PROVE TypeInv'
  <2> USE <1>1
  <2>1. ASSUME NEW p \in Proc, Command(p) PROVE TypeInv'
    BY <2>1, ProfileSetType, InitRefreshType, InitHydrateType, InitCreateType, NodeAnswersType,
       OpenType, WriteType, ReportType, DiesType DEF Command
  <2>2. CASE Gui
    BY <2>2, HandlerType, GuiSeedType, GuiFinishType DEF Gui
  <2> QED
    BY <2>1, <2>2, OutsideType, StutterType DEF Next
<1> QED
  BY <1>1, InitType, PTL DEF Spec

-----------------------------------------------------------------------------
(* What holds while no two accesses overlapped and nothing was cut          *)

(* d keeps every key of c that was not given up *)
Keep(c, d, gone) ==
  \A q \in Profile : KeyAt(c, q) \in gone \cup {0} \/ KeyAt(d, q) = KeyAt(c, q)

(* The keys that commands about to report have stored, and where *)
Due ==
  {<<cmd[p].q, cmd[p].entry.key>> : p \in {r \in Proc : pc[r] = "report" /\ cmd[r].op = "create"}}
    \ {<<q, k>> : q \in Profile, k \in dropped}

Holds(c, owed, due) ==
  /\ \A k \in owed : \E q \in Profile : KeyAt(c, q) = k
  /\ \A r \in due : KeyAt(c, r[1]) = r[2]

OneAtATime ==
  /\ \A p, q \in Proc : Busy(p) /\ Busy(q) => p = q
  /\ GuiBusy => \A p \in Proc : ~Busy(p)

FileState ==
  /\ disk.text = "torn" => \E p \in Proc : pc[p] = "open"
  /\ \A p \in Proc : pc[p] = "open" => disk.text = "torn" /\ fd[p] = "named"
  /\ disk.text # "whole" => disk.config = NoConfig
  /\ gui.pc = "seed" => disk.text # "whole"
  /\ gui.pc = "reconcile" => disk = Whole(gui.config)

(* What a command is about to write keeps what the file has. *)
Plan(at, c, m) ==
  /\ at = "node" => /\ m = disk.config
                    /\ KeyAt(disk.config, c.q) \in dropped \cup {0, c.entry.key}
  /\ at = "write" => Keep(disk.config, m, dropped)
  /\ at \in {"write", "open"} /\ c.op = "create" => KeyAt(m, c.q) = c.entry.key

Kept ==
  /\ (\A p \in Proc : pc[p] # "open") => Holds(disk.config, Owed, Due)
  /\ \A p \in Proc : pc[p] = "open" => Holds(mem[p], Owed, Due)

Steady ==
  /\ OneAtATime /\ FileState /\ Kept
  /\ \A p \in Proc : Plan(pc[p], cmd[p], mem[p])

LEMMA HoldsLess ==
  ASSUME NEW c, NEW owed, NEW due, Holds(c, owed, due), NEW o \in SUBSET owed, NEW d \in SUBSET due
  PROVE  Holds(c, o, d)
BY DEF Holds

LEMMA DueKeys ==
  ASSUME TypeInv
  PROVE  /\ Owed \subseteq Key \ dropped
         /\ \A r \in Due : r[1] \in Profile /\ r[2] \in Key \ dropped
<1>1. Owed \subseteq Key \ dropped
  BY DEF Owed, TypeInv, TypeOK
<1>2. ASSUME NEW r \in Due PROVE r[1] \in Profile /\ r[2] \in Key \ dropped
  <2>1. PICK p \in Proc : pc[p] = "report" /\ cmd[p].op = "create" /\ r = <<cmd[p].q, cmd[p].entry.key>>
    BY <1>2 DEF Due
  <2>2. cmd[p].entry \in Wallet /\ cmd[p].q \in Profile
    BY <2>1 DEF TypeInv, TypeOK, InHand, Inits
  <2>3. cmd[p].entry.key \in Key
    BY <2>2 DEF Wallet
  <2>4. r[2] \notin dropped
    BY <1>2, <2>1, <2>2 DEF Due
  <2> QED
    BY <2>1, <2>2, <2>3, <2>4
<1> QED
  BY <1>1, <1>2

LEMMA KeyNotZero == 0 \notin Key
BY ConfigAssumption DEF ConfigAssumption, Key

LEMMA HoldsKept ==
  ASSUME TypeInv, NEW c, NEW d, Holds(c, Owed, Due), Keep(c, d, dropped)
  PROVE  Holds(d, Owed, Due)
<1>1. ASSUME NEW k \in Owed PROVE \E q \in Profile : KeyAt(d, q) = k
  <2>1. PICK q \in Profile : KeyAt(c, q) = k
    BY <1>1 DEF Holds
  <2>2. k \notin dropped \cup {0}
    BY <1>1, DueKeys, KeyNotZero
  <2> QED
    BY <2>1, <2>2 DEF Keep
<1>2. ASSUME NEW r \in Due PROVE KeyAt(d, r[1]) = r[2]
  <2>1. KeyAt(c, r[1]) = r[2] /\ r[1] \in Profile /\ r[2] \notin dropped \cup {0}
    BY <1>2, DueKeys, KeyNotZero DEF Holds
  <2> QED
    BY <2>1 DEF Keep
<1> QED
  BY <1>1, <1>2 DEF Holds

LEMMA Undisturbed ==
  ASSUME Working = {}
  PROVE  \A p \in Proc : ~Busy(p) /\ pc[p] \notin {"node", "write", "open"}
BY DEF Working, Busy

LEMMA InitSteady == Init => Steady
<1> SUFFICES ASSUME Init PROVE Steady
  OBVIOUS
<1>1. \A p \in Proc : pc[p] = "idle" /\ fd[p] = "none" /\ cmd[p] = NoCmd
  BY DEF Init
<1>2. OneAtATime
  BY <1>1 DEF OneAtATime, Busy, Init, GuiBusy, GuiIdle
<1>3. FileState
  BY <1>1 DEF FileState, Init, GuiIdle, Absent, Old, Whole
<1>4. Due = {}
  BY <1>1 DEF Due
<1>5. \A k \in Owed : \E q \in Profile : KeyAt(disk.config, q) = k
  <2>1. CASE disk = Absent
    <3>1. Owed = {}
      BY <2>1 DEF Init, Owed
    <3> QED
      BY <3>1
  <2>2. CASE disk \in {Old("old"), Old("odd")}
    <3>1. Owed \subseteq {1}
      BY DEF Init, Owed
    <3>2. KeyAt(disk.config, Default) = 1
      BY <2>2 DEF Old, Whole, KeyAt, EntryOf
    <3> QED
      BY <3>1, <3>2, ConfigAssumption DEF ConfigAssumption
  <2> QED
    BY <2>1, <2>2 DEF Init
<1>6. Kept
  BY <1>1, <1>4, <1>5 DEF Kept, Holds
<1>7. \A p \in Proc : Plan(pc[p], cmd[p], mem[p])
  BY <1>1 DEF Plan
<1> QED
  BY <1>2, <1>3, <1>6, <1>7 DEF Steady

(* A command begins: nothing else has, and its plan keeps the file. *)
LEMMA ReadsSteady ==
  ASSUME TypeInv, Steady, NEW p \in Proc, Reads(p), ~clash',
         NEW at \in {"node", "write"}, NEW c, NEW m,
         pc' = [pc EXCEPT ![p] = at], cmd' = [cmd EXCEPT ![p] = c], mem' = [mem EXCEPT ![p] = m],
         dropped \subseteq dropped', Owed' \subseteq Owed,
         UNCHANGED <<disk, gui, fd>>, Plan(at, c, m)'
  PROVE  Steady'
<1>1. Working = {} /\ ~GuiBusy /\ pc[p] = "idle"
  BY DEF Reads
<1>2. /\ pc'[p] = at /\ cmd'[p] = c /\ mem'[p] = m
      /\ \A r \in Proc : r # p => pc'[r] = pc[r] /\ cmd'[r] = cmd[r] /\ mem'[r] = mem[r]
  BY DEF TypeInv, TypeOK
<1>3. \A r \in Proc : r # p => pc[r] \notin {"node", "write", "open"}
  BY <1>1, Undisturbed
<1>4. OneAtATime'
  BY <1>1, <1>2, <1>3 DEF OneAtATime, Busy, GuiBusy
<1>5. \A r \in Proc : pc[r] # "open" /\ pc'[r] # "open"
  BY <1>1, <1>2, <1>3
<1>6. FileState'
  BY <1>5 DEF Steady, FileState
<1>7. Due' \subseteq Due
  <2> SUFFICES ASSUME NEW x \in Due' PROVE x \in Due
    OBVIOUS
  <2>1. PICK r \in Proc : pc'[r] = "report" /\ cmd'[r].op = "create" /\ x = <<cmd'[r].q, cmd'[r].entry.key>>
    BY DEF Due
  <2>2. r # p
    BY <1>2, <2>1
  <2>3. x \notin {<<q, k>> : q \in Profile, k \in dropped}
    BY DEF Due
  <2> QED
    BY <1>2, <2>1, <2>2, <2>3 DEF Due
<1>8. Kept'
  <2>1. Holds(disk.config, Owed, Due)
    BY <1>5 DEF Steady, Kept
  <2>2. Holds(disk.config, Owed', Due')
    BY <1>7, <2>1, HoldsLess
  <2> QED
    BY <1>5, <2>2 DEF Kept
<1>9. \A r \in Proc : Plan(pc[r], cmd[r], mem[r])'
  BY <1>2, <1>3 DEF Plan
<1> QED
  BY <1>4, <1>6, <1>8, <1>9 DEF Steady

LEMMA ProfileSetSteady ==
  ASSUME TypeInv, Steady, NEW p \in Proc, NEW q \in Profile, ProfileSet(p, q), ~clash'
  PROVE  Steady'
<1> DEFINE u == Upsert(disk.config, q, EntryOf(disk.config, q))
<1>1. Reads(p) /\ UNCHANGED <<disk, fd, gui, told, born, dropped>>
  BY DEF ProfileSet
<1>2. PICK cur \in {q, disk.config.cur} : mem' = [mem EXCEPT ![p] = [u EXCEPT !.cur = cur]]
  BY DEF ProfileSet
<1>3. disk.config \in Config /\ EntryOf(disk.config, q) \in Entry
  BY EntryType DEF TypeInv, TypeOK
<1>4. u \in Config /\ \A r : EntryOf(u, r) = EntryOf(disk.config, r)
  BY <1>3, Upserted
<1>5. cur \in Profile
  BY <1>3, ConfigParts
<1> HIDE DEF u
<1> DEFINE c == [op |-> "profile", q |-> q, entry |-> Placeholder]
<1> PICK m : m = [u EXCEPT !.cur = cur]
  OBVIOUS
<1>6. \A r : EntryOf(m, r) = EntryOf(disk.config, r)
  BY <1>4, <1>5, Selected
<1>7. Plan("write", c, m)'
  BY <1>1, <1>6 DEF Plan, Keep, KeyAt
<1>8. pc' = [pc EXCEPT ![p] = "write"] /\ cmd' = [cmd EXCEPT ![p] = c] /\ mem' = [mem EXCEPT ![p] = m]
  BY <1>2 DEF ProfileSet
<1>9. Owed' \subseteq Owed
  BY <1>1 DEF Owed
<1> HIDE DEF c
<1> QED
  BY <1>1, <1>7, <1>8, <1>9, ReadsSteady

LEMMA WaitsSteady ==
  ASSUME TypeInv, Steady, NEW p \in Proc, NEW q \in Profile, NEW op \in Inits, NEW e \in Wallet,
         Waits(p, q, op, e), ~clash',
         dropped \subseteq dropped', Owed' \subseteq Owed,
         KeyAt(disk.config, q) \in dropped' \cup {0, e.key}
  PROVE  Steady'
<1> DEFINE c == [op |-> op, q |-> q, entry |-> e]
<1>1. Reads(p) /\ UNCHANGED <<disk, fd, gui>>
  BY DEF Waits
<1>2. /\ pc' = [pc EXCEPT ![p] = "node"] /\ cmd' = [cmd EXCEPT ![p] = c]
      /\ mem' = [mem EXCEPT ![p] = disk.config]
  BY DEF Waits
<1>3. Plan("node", c, disk.config)'
  BY <1>1 DEF Plan
<1> HIDE DEF c
<1> QED
  BY <1>1, <1>2, <1>3, ReadsSteady

LEMMA BornOld ==
  ASSUME dropped \subseteq dropped', told' = told, \A k \in Key : born'[k] = "old" => born[k] = "old"
  PROVE  Owed' \subseteq Owed
BY DEF Owed

LEMMA InitsSteady ==
  ASSUME TypeInv, Steady, NEW p \in Proc, NEW q \in Profile, InitRefresh(p, q) \/ InitHydrate(p, q), ~clash'
  PROVE  Steady'
<1> DEFINE e == EntryOf(disk.config, q)
           h == [e EXCEPT !.form = "full"]
<1>1. e \in Entry /\ e.key = KeyAt(disk.config, q)
  BY EntryType DEF KeyAt, TypeInv, TypeOK
<1>2. UNCHANGED <<born, dropped, told>>
  BY DEF InitRefresh, InitHydrate, Waits
<1>3. Owed' \subseteq Owed
  BY <1>2, BornOld
<1>4. CASE InitRefresh(p, q)
  <2>1. e.form = "full" /\ Waits(p, q, "refresh", e)
    BY <1>4 DEF InitRefresh
  <2> HIDE DEF e
  <2>2. e \in Wallet
    BY <1>1, <2>1, EntryParts
  <2> QED
    BY <1>1, <1>2, <1>3, <2>1, <2>2, WaitsSteady DEF Inits
<1>5. CASE InitHydrate(p, q)
  <2>1. e.form = "old" /\ Waits(p, q, "hydrate", h)
    BY <1>5 DEF InitHydrate
  <2> HIDE DEF e
  <2>2. e \in Wallet
    BY <1>1, <2>1, EntryParts
  <2>3. h \in Wallet /\ h.key = e.key
    BY <2>2, Hydrated
  <2> HIDE DEF h
  <2> QED
    BY <1>1, <1>2, <1>3, <2>1, <2>3, WaitsSteady DEF Inits
<1> QED
  BY <1>4, <1>5

LEMMA InitCreateSteady ==
  ASSUME TypeInv, Steady, NEW p \in Proc, NEW q \in Profile, NEW force \in BOOLEAN, NEW k \in Key,
         InitCreate(p, q, force, k), ~clash'
  PROVE  Steady'
<1>1. Waits(p, q, "create", NewWallet(k))
  BY DEF InitCreate, NewWallet
<1>2. dropped' = dropped \cup ({KeyAt(disk.config, q)} \ {0, k})
  BY DEF InitCreate, KeyAt
<1>3. \A j \in Key : born'[j] = "old" => born[j] = "old"
  BY DEF InitCreate, TypeInv, TypeOK
<1>4. told' = told
  BY DEF InitCreate, Waits
<1>5. Owed' \subseteq Owed
  BY <1>2, <1>3, <1>4, BornOld
<1>6. NewWallet(k) \in Wallet /\ NewWallet(k).key = k
  BY NewWalletType
<1> QED
  BY <1>1, <1>2, <1>5, <1>6, WaitsSteady DEF Inits

(* One command goes on, and nothing begins. *)
LEMMA StepsSteady ==
  ASSUME TypeInv, Steady, NEW p \in Proc, UNCHANGED gui,
         \A r \in Proc : r # p => pc'[r] = pc[r],
         pc'[p] \in {"node", "write", "open"} => Busy(p)
  PROVE  OneAtATime'
BY DEF Steady, OneAtATime, Busy, GuiBusy

LEMMA NodeAnswersSteady ==
  ASSUME TypeInv, Steady, NEW p \in Proc, NodeAnswers(p)
  PROVE  Steady'
<1>1. cmd[p].entry \in Wallet /\ cmd[p].q \in Profile /\ mem[p] \in Config /\ cmd[p].op \in Inits
  BY DEF NodeAnswers, TypeInv, InHand, TypeOK
<1>2. PICK flag \in Flag : \E b \in Birthdays(cmd[p].entry, cmd[p].op # "create", flag) :
        LET e == [cmd[p].entry EXCEPT !.birth = b]
            unchanged == cmd[p].op = "refresh" /\ b = cmd[p].entry.birth
        IN  /\ cmd' = [cmd EXCEPT ![p].entry = e]
            /\ mem' = [mem EXCEPT ![p] = [Upsert(@, cmd[p].q, e) EXCEPT !.cur = cmd[p].q]]
            /\ pc' = [pc EXCEPT ![p] = IF unchanged THEN "report" ELSE "write"]
            /\ born' = [born EXCEPT ![e.key] = BornNow(cmd[p].op, e.key, b, flag)]
  BY DEF NodeAnswers
<1>2b. PICK b \in Birthdays(cmd[p].entry, cmd[p].op # "create", flag) :
        LET e == [cmd[p].entry EXCEPT !.birth = b]
            unchanged == cmd[p].op = "refresh" /\ b = cmd[p].entry.birth
        IN  /\ cmd' = [cmd EXCEPT ![p].entry = e]
            /\ mem' = [mem EXCEPT ![p] = [Upsert(@, cmd[p].q, e) EXCEPT !.cur = cmd[p].q]]
            /\ pc' = [pc EXCEPT ![p] = IF unchanged THEN "report" ELSE "write"]
            /\ born' = [born EXCEPT ![e.key] = BornNow(cmd[p].op, e.key, b, flag)]
  BY <1>2
<1> DEFINE e == [cmd[p].entry EXCEPT !.birth = b]
           m == [Upsert(mem[p], cmd[p].q, e) EXCEPT !.cur = cmd[p].q]
<1>3. e \in Wallet /\ e.key = cmd[p].entry.key
  <2>1. (cmd[p].op # "create") \in BOOLEAN
    OBVIOUS
  <2>2. b \in 0 .. MaxTip
    BY <1>1, <2>1, BirthdaysType
  <2> QED
    BY <1>1, <2>2, Dated
<1>4. /\ cmd' = [cmd EXCEPT ![p].entry = e]
      /\ mem' = [mem EXCEPT ![p] = m]
      /\ pc' = [pc EXCEPT ![p] = IF cmd[p].op = "refresh" /\ b = cmd[p].entry.birth THEN "report" ELSE "write"]
      /\ born' = [born EXCEPT ![e.key] = BornNow(cmd[p].op, e.key, b, flag)]
  BY <1>2b
<1> HIDE DEF e
<1>5. \A r : EntryOf(m, r) = IF r = cmd[p].q THEN e ELSE EntryOf(mem[p], r)
  <2>1. e \in Entry
    BY <1>3 DEF Entry
  <2>2. Upsert(mem[p], cmd[p].q, e) \in Config
    BY <1>1, <2>1, Upserted
  <2> QED
    BY <1>1, <2>1, <2>2, Upserted, Selected
<1> HIDE DEF m
<1>6. /\ \A r \in Proc : r # p => pc'[r] = pc[r] /\ cmd'[r] = cmd[r] /\ mem'[r] = mem[r]
      /\ cmd'[p].op = cmd[p].op /\ cmd'[p].q = cmd[p].q /\ cmd'[p].entry = e /\ mem'[p] = m
      /\ pc'[p] \in {"report", "write"} /\ (pc'[p] = "report" => cmd[p].op = "refresh")
  BY <1>4 DEF TypeInv, TypeOK
<1>7. /\ UNCHANGED <<disk, fd, gui, told, dropped>>
      /\ pc[p] = "node"
  BY DEF NodeAnswers
<1>8. OneAtATime'
  BY <1>6, <1>7, StepsSteady DEF Busy
<1>9. \A r \in Proc : pc[r] # "open" /\ pc'[r] # "open" /\ (r # p => pc[r] \notin {"node", "write"})
  BY <1>6, <1>7 DEF Steady, OneAtATime, Busy
<1>10. FileState'
  BY <1>7, <1>9 DEF Steady, FileState
<1>11. Owed' \subseteq Owed
  <2>1. \A k \in Key : born'[k] = "old" => born[k] = "old"
    BY <1>4 DEF TypeInv, TypeOK, BornNow
  <2> QED
    BY <1>7, <2>1, BornOld
<1>12. Due' \subseteq Due
  <2> SUFFICES ASSUME NEW x \in Due' PROVE x \in Due
    OBVIOUS
  <2>1. PICK r \in Proc : pc'[r] = "report" /\ cmd'[r].op = "create" /\ x = <<cmd'[r].q, cmd'[r].entry.key>>
    BY DEF Due
  <2>2. r # p
    BY <1>6, <2>1
  <2>3. x \notin {<<q, k>> : q \in Profile, k \in dropped}
    BY <1>7 DEF Due
  <2> QED
    BY <1>6, <2>1, <2>2, <2>3 DEF Due
<1>13. Kept'
  <2>1. Holds(disk.config, Owed', Due')
    BY <1>9, <1>11, <1>12, HoldsLess DEF Steady, Kept
  <2> QED
    BY <1>7, <1>9, <2>1 DEF Kept
<1>14. Plan(pc[p], cmd[p], mem[p])'
  <2>1. mem[p] = disk.config /\ KeyAt(disk.config, cmd[p].q) \in dropped \cup {0, cmd[p].entry.key}
    BY <1>7 DEF Steady, Plan
  <2>2. Keep(disk.config, m, dropped)
    BY <1>3, <1>5, <2>1 DEF Keep, KeyAt
  <2>3. KeyAt(m, cmd[p].q) = e.key
    BY <1>5 DEF KeyAt
  <2> QED
    BY <1>6, <1>7, <2>2, <2>3 DEF Plan
<1>15. \A r \in Proc : Plan(pc[r], cmd[r], mem[r])'
  <2> SUFFICES ASSUME NEW r \in Proc, r # p PROVE Plan(pc[r], cmd[r], mem[r])'
    BY <1>14
  <2> QED
    BY <1>6, <1>9 DEF Plan
<1> QED
  BY <1>8, <1>10, <1>13, <1>15 DEF Steady

LEMMA DueEnds ==
  ASSUME TypeInv, NEW p \in Proc, UNCHANGED dropped,
         \A r \in Proc : r # p => pc'[r] = pc[r] /\ cmd'[r] = cmd[r],
         pc'[p] = "report" => cmd'[p].op # "create"
  PROVE  Due' \subseteq Due
<1> SUFFICES ASSUME NEW x \in Due' PROVE x \in Due
  OBVIOUS
<1>1. PICK r \in Proc : pc'[r] = "report" /\ cmd'[r].op = "create" /\ x = <<cmd'[r].q, cmd'[r].entry.key>>
  BY DEF Due
<1>2. r # p
  BY <1>1
<1>3. x \notin {<<q, k>> : q \in Profile, k \in dropped}
  BY DEF Due
<1> QED
  BY <1>1, <1>2, <1>3 DEF Due

LEMMA OpenSteady ==
  ASSUME TypeInv, Steady, NEW p \in Proc, Open(p)
  PROVE  Steady'
<1>1. /\ UNCHANGED <<gui, mem, cmd, told, born, dropped>> /\ pc[p] = "write" /\ disk' = Torn
      /\ pc' = [pc EXCEPT ![p] = "open"] /\ fd' = [fd EXCEPT ![p] = "named"]
  BY DEF Open
<1>2. /\ pc'[p] = "open" /\ fd'[p] = "named"
      /\ \A r \in Proc : r # p => pc'[r] = pc[r] /\ cmd'[r] = cmd[r] /\ mem'[r] = mem[r] /\ fd'[r] = fd[r]
  BY <1>1 DEF TypeInv, TypeOK
<1>3. \A r \in Proc : pc[r] # "open" /\ (r # p => pc'[r] \notin {"node", "write", "open"})
  BY <1>1, <1>2 DEF Steady, OneAtATime, Busy
<1>4. OneAtATime'
  BY <1>1, <1>2, StepsSteady DEF Busy
<1>5. FileState'
  <2>1. ~GuiBusy
    BY <1>1 DEF Steady, OneAtATime, Busy
  <2>2. gui'.pc = "idle"
    BY <1>1, <2>1 DEF GuiBusy
  <2>3. disk'.text = "torn" /\ disk'.config = NoConfig
    BY <1>1 DEF Torn
  <2> QED
    BY <1>2, <1>3, <2>2, <2>3 DEF FileState
<1>6. Owed' \subseteq Owed /\ Due' \subseteq Due
  BY <1>1, <1>2, BornOld, DueEnds
<1>7. Kept'
  <2>1. Holds(disk.config, Owed, Due)
    BY <1>3 DEF Steady, Kept
  <2>2. Keep(disk.config, mem[p], dropped)
    BY <1>1 DEF Steady, Plan
  <2>3. Holds(mem[p], Owed, Due)
    BY <2>1, <2>2, HoldsKept
  <2>4. Holds(mem[p], Owed', Due')
    BY <1>6, <2>3, HoldsLess
  <2> QED
    BY <1>1, <1>2, <1>3, <2>4 DEF Kept
<1>8. \A r \in Proc : Plan(pc[r], cmd[r], mem[r])'
  BY <1>1, <1>2, <1>3 DEF Steady, Plan
<1> QED
  BY <1>4, <1>5, <1>7, <1>8 DEF Steady

LEMMA WriteSteady ==
  ASSUME TypeInv, Steady, NEW p \in Proc, Write(p)
  PROVE  Steady'
<1>1. /\ pc[p] = "open" /\ fd[p] = "named" /\ disk.text = "torn"
      /\ UNCHANGED <<gui, told, born, dropped>>
  BY DEF Write, Steady, FileState
<1>2. disk' = Whole(mem[p])
  BY <1>1 DEF Write
<1>3. /\ pc'[p] \in {"idle", "report"}
      /\ pc'[p] = "report" => cmd'[p] = cmd[p]
      /\ \A r \in Proc : r # p => pc'[r] = pc[r] /\ cmd'[r] = cmd[r] /\ mem'[r] = mem[r]
  BY DEF Write, Ends, TypeInv, TypeOK
<1>4. \A r \in Proc : pc'[r] \notin {"node", "write", "open"}
  BY <1>1, <1>3 DEF Steady, OneAtATime, Busy
<1>5. OneAtATime'
  BY <1>1, <1>3, StepsSteady DEF Busy
<1>6. FileState'
  <2>1. gui'.pc = "idle"
    BY <1>1 DEF Steady, OneAtATime, Busy, GuiBusy
  <2>2. disk'.text = "whole"
    BY <1>2 DEF Whole
  <2> QED
    BY <1>4, <2>1, <2>2 DEF FileState
<1>7. Owed' \subseteq Owed
  BY <1>1, BornOld
<1>8. Holds(mem[p], Owed, Due)
  BY <1>1 DEF Steady, Kept
<1>9. ASSUME NEW x \in Due' PROVE KeyAt(mem[p], x[1]) = x[2]
  <2>1. PICK r \in Proc : pc'[r] = "report" /\ cmd'[r].op = "create" /\ x = <<cmd'[r].q, cmd'[r].entry.key>>
    BY <1>9 DEF Due
  <2>2. CASE r = p
    <3>1. cmd'[p] = cmd[p] /\ cmd[p].op = "create"
      BY <1>3, <2>1, <2>2
    <3>2. KeyAt(mem[p], cmd[p].q) = cmd[p].entry.key
      BY <1>1, <3>1 DEF Steady, Plan
    <3> QED
      BY <2>1, <2>2, <3>1, <3>2
  <2>3. CASE r # p
    <3>1. x \notin {<<q, k>> : q \in Profile, k \in dropped}
      BY <1>1, <1>9 DEF Due
    <3>2. x \in Due
      BY <1>3, <2>1, <2>3, <3>1 DEF Due
    <3> QED
      BY <1>8, <3>2 DEF Holds
  <2> QED
    BY <2>2, <2>3
<1>10. Kept'
  <2>1. disk'.config = mem[p]
    BY <1>2 DEF Whole
  <2>2. Holds(mem[p], Owed', Due')
    BY <1>7, <1>8, <1>9 DEF Holds
  <2> QED
    BY <1>4, <2>1, <2>2 DEF Kept
<1>11. \A r \in Proc : Plan(pc[r], cmd[r], mem[r])'
  BY <1>4 DEF Plan
<1> QED
  BY <1>5, <1>6, <1>10, <1>11 DEF Steady

(* A command that has nothing open ends. *)
LEMMA GoneSteady ==
  ASSUME TypeInv, Steady, NEW p \in Proc, Ends(p), pc[p] # "open",
         \A r \in Proc : r # p => fd'[r] = fd[r],
         UNCHANGED <<disk, gui, dropped>>
  PROVE  /\ OneAtATime' /\ FileState' /\ \A r \in Proc : Plan(pc[r], cmd[r], mem[r])'
         /\ Due' \subseteq Due
         /\ \A r \in Proc : pc'[r] = "open" <=> pc[r] = "open"
         /\ \A r \in Proc : pc'[r] = "open" => mem'[r] = mem[r]
<1>1. /\ pc'[p] = "idle"
      /\ \A r \in Proc : r # p => pc'[r] = pc[r] /\ cmd'[r] = cmd[r] /\ mem'[r] = mem[r]
  BY DEF Ends, TypeInv, TypeOK
<1>2. OneAtATime'
  BY <1>1, StepsSteady
<1>3. \A r \in Proc : pc'[r] = "open" <=> pc[r] = "open"
  BY <1>1
<1>4. FileState'
  BY <1>1, <1>3 DEF Steady, FileState
<1>5. Due' \subseteq Due
  BY <1>1, DueEnds
<1>6. \A r \in Proc : Plan(pc[r], cmd[r], mem[r])'
  <2> SUFFICES ASSUME NEW r \in Proc PROVE Plan(pc[r], cmd[r], mem[r])'
    OBVIOUS
  <2>1. CASE r = p
    BY <1>1, <2>1 DEF Plan
  <2>2. CASE r # p
    BY <1>1, <2>2 DEF Steady, Plan
  <2> QED
    BY <2>1, <2>2
<1> QED
  BY <1>1, <1>2, <1>3, <1>4, <1>5, <1>6

LEMMA ReportSteady ==
  ASSUME TypeInv, Steady, NEW p \in Proc, Report(p)
  PROVE  Steady'
<1> DEFINE stored == KeyAt(disk.config, cmd[p].q)
<1>1. /\ Ends(p) /\ pc[p] = "report" /\ UNCHANGED <<disk, gui, dropped, fd, born>>
      /\ \/ told' = told
         \/ /\ disk.text = "whole"
            /\ \E own : told' = told \cup {<<own, stored>>}
  BY DEF Report, KeyAt
<1>2. /\ OneAtATime' /\ FileState' /\ \A r \in Proc : Plan(pc[r], cmd[r], mem[r])'
      /\ Due' \subseteq Due
      /\ \A r \in Proc : pc'[r] = "open" <=> pc[r] = "open"
      /\ \A r \in Proc : pc'[r] = "open" => mem'[r] = mem[r]
  BY <1>1, GoneSteady
<1>3. CASE told' = told
  <2>1. Owed' \subseteq Owed
    BY <1>1, <1>3, BornOld
  <2>2. \A c : Holds(c, Owed, Due) => Holds(c, Owed', Due')
    BY <1>2, <2>1, HoldsLess
  <2>3. Kept'
    BY <1>1, <1>2, <2>2 DEF Steady, Kept
  <2> QED
    BY <1>2, <2>3 DEF Steady
<1>4. CASE disk.text = "whole" /\ \E own : told' = told \cup {<<own, stored>>}
  <2>1. \A r \in Proc : pc[r] # "open" /\ pc'[r] # "open"
    BY <1>2, <1>4 DEF Steady, FileState
  <2>2. Owed' \subseteq Owed \cup {stored}
    BY <1>1, <1>4 DEF Owed
  <2>3. Holds(disk.config, Owed, Due)
    BY <2>1 DEF Steady, Kept
  <2>4. cmd[p].q \in Profile
    BY DEF TypeInv, TypeOK
  <2>5. Holds(disk.config, Owed', Due')
    BY <1>2, <2>2, <2>3, <2>4 DEF Holds
  <2>6. Kept'
    BY <1>1, <2>1, <2>5 DEF Kept
  <2> QED
    BY <1>2, <2>6 DEF Steady
<1> QED
  BY <1>1, <1>3, <1>4

LEMMA DiesSteady ==
  ASSUME TypeInv, Steady, NEW p \in Proc, Dies(p), ~cut'
  PROVE  Steady'
<1>1. Ends(p) /\ UNCHANGED <<disk, gui, dropped, told, born>> /\ fd[p] # "named"
  BY DEF Dies
<1>2. pc[p] # "open"
  BY <1>1 DEF Steady, FileState
<1>3. \A r \in Proc : r # p => fd'[r] = fd[r]
  BY DEF Dies, TypeInv, TypeOK
<1>4. /\ OneAtATime' /\ FileState' /\ \A r \in Proc : Plan(pc[r], cmd[r], mem[r])'
      /\ Due' \subseteq Due
      /\ \A r \in Proc : pc'[r] = "open" <=> pc[r] = "open"
      /\ \A r \in Proc : pc'[r] = "open" => mem'[r] = mem[r]
  BY <1>1, <1>2, <1>3, GoneSteady
<1>5. Owed' \subseteq Owed
  BY <1>1, BornOld
<1>6. \A c : Holds(c, Owed, Due) => Holds(c, Owed', Due')
  BY <1>4, <1>5, HoldsLess
<1>7. Kept'
  BY <1>1, <1>4, <1>6 DEF Steady, Kept
<1> QED
  BY <1>4, <1>7 DEF Steady

(* The app's handlers, which only touch the file and what they hold *)
LEMMA GuiSteady ==
  ASSUME TypeInv, Steady, \A p \in Proc : ~Busy(p),
         UNCHANGED <<pc, cmd, mem, told, born, dropped>>,
         FileState', Holds(disk'.config, Owed, Due)
  PROVE  Steady'
<1>1. \A p \in Proc : pc'[p] \notin {"node", "write", "open"}
  BY DEF Busy
<1>2. OneAtATime'
  BY <1>1 DEF OneAtATime, Busy, GuiBusy
<1>3. Owed' = Owed /\ Due' = Due
  BY DEF Owed, Due
<1>4. Kept'
  BY <1>1, <1>3 DEF Kept
<1>5. \A r \in Proc : Plan(pc[r], cmd[r], mem[r])'
  BY <1>1 DEF Plan
<1> QED
  BY <1>2, <1>4, <1>5 DEF Steady

LEMMA HandlerSteady ==
  ASSUME TypeInv, Steady, NEW set \in Profile \cup {NoProfile}, Handler(set), ~clash'
  PROVE  Steady'
<1>1. /\ Working = {} /\ UNCHANGED <<disk, fd, pc, cmd, mem, told, born, dropped>>
      /\ gui' = IF disk.text = "whole" THEN [pc |-> "reconcile", set |-> set, config |-> disk.config]
                ELSE [pc |-> "seed", set |-> set, config |-> Fresh]
  BY DEF Handler
<1>2. \A p \in Proc : ~Busy(p) /\ pc[p] # "open"
  BY <1>1, Undisturbed
<1>3. disk.text = "whole" => disk = Whole(disk.config)
  BY DEF Whole, TypeInv, TypeOK
<1>4. FileState'
  <2>1. CASE disk.text = "whole"
    <3>1. gui'.pc = "reconcile" /\ gui'.config = disk.config
      BY <1>1, <2>1
    <3> QED
      BY <1>1, <1>2, <1>3, <2>1, <3>1 DEF Steady, FileState
  <2>2. CASE disk.text # "whole"
    <3>1. gui'.pc = "seed"
      BY <1>1, <2>2
    <3> QED
      BY <1>1, <1>2, <2>2, <3>1 DEF Steady, FileState
  <2> QED
    BY <2>1, <2>2
<1>5. Holds(disk.config, Owed, Due)
  BY <1>2 DEF Steady, Kept
<1> QED
  BY <1>1, <1>2, <1>4, <1>5, GuiSteady

LEMMA GuiSeedSteady ==
  ASSUME TypeInv, Steady, GuiSeed
  PROVE  Steady'
<1>1. /\ disk' = Whole(gui.config) /\ gui' = [gui EXCEPT !.pc = "reconcile"] /\ gui.pc = "seed"
      /\ UNCHANGED <<pc, cmd, mem, told, born, dropped>>
  BY DEF GuiSeed, Renamed
<1>2. \A p \in Proc : ~Busy(p) /\ pc[p] # "open"
  BY <1>1 DEF Steady, OneAtATime, GuiBusy, Busy
<1>3. disk.config = NoConfig
  BY <1>1 DEF Steady, FileState
<1>4. Holds(NoConfig, Owed, Due)
  BY <1>2, <1>3 DEF Steady, Kept
<1>5. Owed = {} /\ Due = {}
  BY <1>4, DueKeys, KeyNotZero, NoConfigEmpty DEF Holds
<1>6. Holds(disk'.config, Owed, Due)
  BY <1>5 DEF Holds
<1>7. FileState'
  <2>1. gui'.pc = "reconcile" /\ gui'.config = gui.config
    BY <1>1 DEF TypeInv, TypeOK
  <2>2. disk'.text = "whole"
    BY <1>1 DEF Whole
  <2> QED
    BY <1>1, <1>2, <2>1, <2>2 DEF FileState
<1> QED
  BY <1>1, <1>2, <1>6, <1>7, GuiSteady

LEMMA GuiFinishSteady ==
  ASSUME TypeInv, Steady, GuiFinish
  PROVE  Steady'
<1>1. /\ gui.pc = "reconcile" /\ gui'.pc = "idle"
      /\ UNCHANGED <<pc, cmd, mem, told, born, dropped>>
  BY Finished DEF GuiIdle
<1>2. \A p \in Proc : ~Busy(p) /\ pc[p] # "open"
  BY <1>1 DEF Steady, OneAtATime, GuiBusy, Busy
<1>3. disk = Whole(gui.config) /\ disk.config = gui.config
  BY <1>1 DEF Steady, FileState, Whole
<1>4. disk'.text = "whole" /\ (disk'.config = Repair \/ disk'.config = gui.config)
  BY <1>3, Finished DEF Renamed, Whole
<1>5. \A q : KeyAt(disk'.config, q) = KeyAt(gui.config, q)
  BY <1>4, RepairKeeps DEF KeyAt
<1>6. Holds(gui.config, Owed, Due)
  BY <1>2, <1>3 DEF Steady, Kept
<1>7. Holds(disk'.config, Owed, Due)
  BY <1>5, <1>6 DEF Holds
<1>8. FileState'
  BY <1>1, <1>2, <1>4 DEF FileState
<1> QED
  BY <1>1, <1>2, <1>7, <1>8, GuiSteady

LEMMA OutsideSteady ==
  ASSUME TypeInv, Steady, UNCHANGED <<disk, pc, cmd, mem, fd, gui, born, told, dropped>>
  PROVE  Steady'
<1>1. OneAtATime'
  BY DEF Steady, OneAtATime, Busy, GuiBusy
<1>2. FileState'
  BY DEF Steady, FileState
<1>3. Owed' = Owed /\ Due' = Due
  BY DEF Owed, Due
<1>4. Kept'
  BY <1>3 DEF Steady, Kept
<1>5. \A p \in Proc : Plan(pc[p], cmd[p], mem[p])'
  BY DEF Steady, Plan
<1> QED
  BY <1>1, <1>2, <1>4, <1>5 DEF Steady

Told == \A t \in told : t[1] = t[2] \/ t[1] \in dropped

LEMMA ReportTold ==
  ASSUME TypeInv, Steady, Told, NEW p \in Proc, Report(p)
  PROVE  Told'
<1> DEFINE stored == KeyAt(disk.config, cmd[p].q)
           own == IF cmd[p].op = "create" THEN cmd[p].entry.key ELSE stored
<1>1. /\ pc[p] = "report" /\ dropped' = dropped
      /\ told' = IF disk.text = "whole" /\ stored # 0 THEN told \cup {<<own, stored>>} ELSE told
  BY DEF Report, KeyAt
<1>2. ASSUME disk.text = "whole" PROVE own = stored \/ own \in dropped
  <2>1. CASE cmd[p].op # "create"
    BY <2>1
  <2>2. CASE cmd[p].op = "create" /\ own \notin dropped
    <3>1. \A r \in Proc : pc[r] # "open"
      BY <1>2 DEF Steady, FileState
    <3>2. Holds(disk.config, Owed, Due)
      BY <3>1 DEF Steady, Kept
    <3>3. <<cmd[p].q, cmd[p].entry.key>> \in Due
      BY <1>1, <2>2 DEF Due
    <3>4. KeyAt(disk.config, cmd[p].q) = cmd[p].entry.key
      BY <3>2, <3>3 DEF Holds
    <3> QED
      BY <2>2, <3>4
  <2> QED
    BY <2>1, <2>2
<1> HIDE DEF stored, own
<1> QED
  BY <1>1, <1>2 DEF Told

LEMMA OthersTold ==
  ASSUME Told, told' = told, dropped \subseteq dropped'
  PROVE  Told'
BY DEF Told

CInv == TypeInv /\ (clash \/ cut \/ (Steady /\ Told))

LEMMA CommandKeeps ==
  ASSUME TypeInv, Steady, Told, NEW p \in Proc, Command(p), ~clash', ~cut'
  PROVE  Steady' /\ Told'
<1>1. CASE \E q \in Profile : ProfileSet(p, q)
  <2>1. told' = told /\ dropped' = dropped
    BY <1>1 DEF ProfileSet
  <2> QED
    BY <1>1, <2>1, ProfileSetSteady, OthersTold
<1>2. CASE \E q \in Profile : InitRefresh(p, q) \/ InitHydrate(p, q)
  <2>1. told' = told /\ dropped' = dropped
    BY <1>2 DEF InitRefresh, InitHydrate, Waits
  <2> QED
    BY <1>2, <2>1, InitsSteady, OthersTold
<1>3. CASE \E q \in Profile, force \in BOOLEAN, k \in Key : InitCreate(p, q, force, k)
  <2>1. told' = told /\ dropped \subseteq dropped'
    BY <1>3 DEF InitCreate, Waits
  <2> QED
    BY <1>3, <2>1, InitCreateSteady, OthersTold
<1>4. CASE NodeAnswers(p)
  BY <1>4, NodeAnswersSteady, OthersTold DEF NodeAnswers
<1>5. CASE Open(p)
  BY <1>5, OpenSteady, OthersTold DEF Open
<1>6. CASE Write(p)
  BY <1>6, WriteSteady, OthersTold DEF Write
<1>7. CASE Report(p)
  BY <1>7, ReportSteady, ReportTold
<1>8. CASE Dies(p)
  BY <1>8, DiesSteady, OthersTold DEF Dies
<1> QED
  BY <1>1, <1>2, <1>3, <1>4, <1>5, <1>6, <1>7, <1>8 DEF Command

LEMMA GuiKeeps ==
  ASSUME TypeInv, Steady, Told, Gui, ~clash'
  PROVE  Steady' /\ Told'
<1>1. told' = told /\ dropped' = dropped
  BY Finished DEF Gui, Handler, GuiSeed
<1>2. Steady'
  BY HandlerSteady, GuiSeedSteady, GuiFinishSteady DEF Gui
<1> QED
  BY <1>1, <1>2, OthersTold

(* Neither excuse is ever withdrawn. *)
LEMMA ExcusesStay ==
  ASSUME [Next]_vars, TypeInv
  PROVE  (clash => clash') /\ (cut => cut')
<1>1. ASSUME NEW p \in Proc, Command(p) PROVE (clash => clash') /\ (cut => cut')
  BY <1>1 DEF Command, ProfileSet, InitRefresh, InitHydrate, InitCreate, Waits, Reads, NodeAnswers,
     Open, Write, Report, Dies, TypeInv, TypeOK
<1>2. CASE Gui
  BY <1>2, Finished DEF Gui, Handler, GuiSeed, TypeInv, TypeOK
<1>3. CASE Mined \/ \E k \in Key : Paid(k)
  BY <1>3 DEF Mined, Paid
<1>4. CASE UNCHANGED vars
  BY <1>4 DEF vars
<1> QED
  BY <1>1, <1>2, <1>3, <1>4 DEF Next

LEMMA CInvKept == Spec => []CInv
<1>1. Init => CInv
  <2>1. Init => Told
    BY DEF Init, Told
  <2> QED
    BY <2>1, InitType, InitSteady DEF CInv
<1>2. ASSUME CInv, [Next]_vars, TypeInv' PROVE CInv'
  <2> USE <1>2
  <2>1. TypeInv
    BY DEF CInv
  <2> SUFFICES ASSUME ~clash', ~cut' PROVE Steady' /\ Told'
    BY DEF CInv
  <2>2. Steady /\ Told
    BY <2>1, ExcusesStay DEF CInv
  <2>3. ASSUME NEW p \in Proc, Command(p) PROVE Steady' /\ Told'
    BY <2>1, <2>2, <2>3, CommandKeeps
  <2>4. CASE Gui
    BY <2>1, <2>2, <2>4, GuiKeeps
  <2>5. CASE Mined \/ \E k \in Key : Paid(k)
    BY <2>1, <2>2, <2>5, OutsideSteady, OthersTold DEF Mined, Paid
  <2>6. CASE UNCHANGED vars
    BY <2>1, <2>2, <2>6, OutsideSteady, OthersTold DEF vars
  <2> QED
    BY <2>3, <2>4, <2>5, <2>6 DEF Next
<1> QED
  BY <1>1, <1>2, ConfigTyped, PTL DEF Spec

(* A wallet the user was shown is in config.json, or in the hands of the    *)
(* command that has just truncated it, until the user gives it up: through  *)
(* hydration, birthday updates, profile switches and the app's repairs,     *)
(* unless two accesses overlapped or a command died with the file           *)
(* truncated.                                                               *)
THEOREM WalletsAreKept == Spec => []KeysKept
<1>1. ASSUME CInv PROVE KeysKept
  <2> USE <1>1
  <2> SUFFICES ASSUME ~clash, ~cut, NEW k \in Owed PROVE Safe(k)
    BY DEF KeysKept
  <2>1. TypeInv /\ Steady
    BY DEF CInv
  <2>2. k # 0
    BY <2>1, DueKeys, KeyNotZero
  <2>3. ASSUME NEW c \in Config, Holds(c, Owed, Due) PROVE k \in KeysOf(c)
    <3>1. PICK q \in Profile : KeyAt(c, q) = k
      BY <2>3 DEF Holds
    <3>2. q \in DOMAIN c.prof
      BY <2>2, <3>1, PlaceholderType DEF KeyAt, EntryOf
    <3> QED
      BY <2>2, <3>1, <3>2 DEF KeyAt, EntryOf, KeysOf
  <2>4. CASE \A p \in Proc : pc[p] # "open"
    <3>1. disk.config \in Config
      BY <2>1 DEF TypeInv, TypeOK
    <3> QED
      BY <2>1, <2>3, <2>4, <3>1 DEF Steady, Kept, Safe
  <2>5. CASE \E p \in Proc : pc[p] = "open"
    <3>1. PICK p \in Proc : pc[p] = "open"
      BY <2>5
    <3>2. mem[p] \in Config
      BY <2>1 DEF TypeInv, TypeOK
    <3> QED
      BY <2>1, <2>3, <3>1, <3>2 DEF Steady, Kept, FileState, Safe
  <2> QED
    BY <2>4, <2>5
<1> QED
  BY <1>1, CInvKept, PTL

(* The mnemonic a user is told to save is the one of the address and        *)
(* paycode shown with it, although the summary is made from a second read   *)
(* of the file.                                                             *)
THEOREM SummariesAreTrue == Spec => []SummaryTrue
<1>1. CInv => SummaryTrue
  BY DEF CInv, Told, SummaryTrue
<1> QED
  BY <1>1, CInvKept, PTL

-----------------------------------------------------------------------------
(* Birthdays.  Of an entry its key and its birthday are followed, wherever  *)
(* there is a copy of it: in the file, in what the app's handler or a       *)
(* command has read or is about to write, and in a command's hand.          *)

Mark(e) == <<e.key, e.birth>>
MarksOf(c) == {Mark(EntryOf(c, q)) : q \in Profile}
Files ==
  {<<0, 0>>} \cup MarksOf(disk.config) \cup MarksOf(gui.config) \cup UNION {MarksOf(mem[p]) : p \in Proc}
Hand(p) == Mark(cmd[p].entry)

Unseen(k) ==
  /\ \A m \in Files : m[1] # k
  /\ \A t \in told : t[2] # k
  /\ used[k] = 0
UnseenBut(p, k) == Unseen(k) /\ \A r \in Proc : r # p => Hand(r)[1] # k

Creating(p) == pc[p] = "node" /\ cmd[p].op = "create"

(* A key that is not made yet is nowhere. *)
NewKeys == \A k \in Key : born[k] = "no" => Unseen(k) /\ \A p \in Proc : Hand(p)[1] # k
(* A key the node has not answered for is in one hand only. *)
Waiting ==
  \A p \in Proc : Creating(p) =>
    /\ Hand(p)[2] = 0
    /\ born[Hand(p)[1]] = "offline" => UnseenBut(p, Hand(p)[1])

CoveredMark(m) ==
  m[1] # 0 /\ born[m[1]] = "online" =>
    0 < m[2] /\ m[2] <= tip /\ (used[m[1]] > 0 => m[2] <= used[m[1]])
(* A key known beforehand never counts as one that init made. *)
GivenKeys == \A k \in Given : born[k] = "given"
Covering ==
  /\ NewKeys /\ Waiting /\ GivenKeys
  /\ \A m \in Files : CoveredMark(m)
  /\ \A p \in Proc : CoveredMark(Hand(p))

LEMMA MarksType ==
  ASSUME TypeInv
  PROVE  /\ \A m \in Files : m[1] \in Key \cup {0} /\ m[2] \in 0 .. MaxTip
         /\ \A p \in Proc : Hand(p)[1] \in Key \cup {0} /\ Hand(p)[2] \in 0 .. MaxTip
         /\ \A p \in Proc : Creating(p) => Hand(p)[1] \in Key
<1>1. ASSUME NEW c \in Config, NEW m \in MarksOf(c) PROVE m[1] \in Key \cup {0} /\ m[2] \in 0 .. MaxTip
  <2>1. PICK q \in Profile : m = Mark(EntryOf(c, q))
    BY <1>1 DEF MarksOf
  <2>2. EntryOf(c, q) \in Entry
    BY EntryType
  <2> QED
    BY <2>1, <2>2, EntryParts DEF Mark
<1>2. disk.config \in Config /\ gui.config \in Config /\ \A p \in Proc : mem[p] \in Config
  BY DEF TypeInv, TypeOK
<1>3. \A m \in Files : m[1] \in Key \cup {0} /\ m[2] \in 0 .. MaxTip
  <2>1. 0 \in 0 .. MaxTip
    BY ConfigAssumption DEF ConfigAssumption
  <2> QED
    BY <1>1, <1>2, <2>1 DEF Files
<1>4. \A p \in Proc : cmd[p].entry \in Entry /\ (Creating(p) => cmd[p].entry \in Wallet)
  BY DEF TypeInv, TypeOK, InHand, Inits, Creating
<1> QED
  BY <1>3, <1>4, EntryParts DEF Hand, Mark

(* A step that makes nothing new: what is in the files afterwards was in    *)
(* them, and what is in a hand was in it or in the files.                   *)
LEMMA NothingNew ==
  ASSUME TypeInv, Covering, Files' \subseteq Files,
         \A p \in Proc : Hand(p)' \in Files \cup {Hand(p)},
         \A p \in Proc : Creating(p)' => Creating(p) /\ Hand(p)' = Hand(p),
         born' = born, used' = used, tip' \in Nat, tip <= tip',
         \A t \in told' : t \in told \/ \E m \in Files : t[2] = m[1]
  PROVE  Covering'
<1>1. \A k \in Key : Unseen(k) => Unseen(k)'
  BY DEF Unseen
<1>2. \A k \in Key, p \in Proc : Unseen(k) /\ Hand(p)[1] # k => Hand(p)'[1] # k
  BY DEF Unseen
<1>3. NewKeys'
  BY <1>1, <1>2 DEF Covering, NewKeys
<1>4. Waiting'
  <2> SUFFICES ASSUME NEW p \in Proc, Creating(p)'
               PROVE  /\ Hand(p)'[2] = 0
                      /\ born[Hand(p)'[1]] = "offline" => UnseenBut(p, Hand(p)[1])'
    BY DEF Waiting
  <2>1. Creating(p) /\ Hand(p)' = Hand(p) /\ Hand(p)[1] \in Key
    BY MarksType
  <2>2. Hand(p)[2] = 0 /\ (born[Hand(p)[1]] = "offline" => UnseenBut(p, Hand(p)[1]))
    BY <2>1 DEF Covering, Waiting
  <2> DEFINE k == Hand(p)[1]
  <2>3. ASSUME UnseenBut(p, k) PROVE UnseenBut(p, k)'
    BY <1>1, <1>2, <2>1, <2>3 DEF UnseenBut
  <2> QED
    BY <2>1, <2>2, <2>3
<1>5. \A m : CoveredMark(m) /\ m[2] \in 0 .. MaxTip => CoveredMark(m)'
  BY ConfigAssumption DEF CoveredMark, TypeInv, TypeOK, ConfigAssumption
<1>6. \A m \in Files' : CoveredMark(m)'
  BY <1>5, MarksType DEF Covering
<1>7. \A p \in Proc : CoveredMark(Hand(p))'
  BY <1>5, MarksType DEF Covering
<1>8. GivenKeys'
  BY DEF Covering, GivenKeys
<1> QED
  BY <1>3, <1>4, <1>6, <1>7, <1>8 DEF Covering

LEMMA SameMarks ==
  ASSUME NEW c, NEW d, \A q : EntryOf(d, q) = EntryOf(c, q)
  PROVE  MarksOf(d) = MarksOf(c)
BY DEF MarksOf

LEMMA EmptyMarks ==
  ASSUME NEW c, \A q : EntryOf(c, q) = Placeholder
  PROVE  MarksOf(c) \subseteq {<<0, 0>>}
BY DEF MarksOf, Mark, Placeholder

LEMMA FilesFrom ==
  ASSUME NEW S, Files \subseteq S, TypeInv, NEW p \in Proc,
         MarksOf(disk'.config) \subseteq S, MarksOf(gui'.config) \subseteq S,
         \A r \in Proc : r # p => mem'[r] = mem[r], MarksOf(mem'[p]) \subseteq S
  PROVE  Files' \subseteq S
<1>1. \A r \in Proc : MarksOf(mem'[r]) \subseteq S
  BY DEF Files
<1>2. <<0, 0>> \in S
  BY DEF Files
<1>3. MarksOf(disk.config)' \subseteq S /\ MarksOf(gui.config)' \subseteq S
  BY DEF MarksOf
<1>4. \A r \in Proc : MarksOf(mem[r])' \subseteq S
  BY <1>1 DEF MarksOf
<1> QED
  BY <1>2, <1>3, <1>4 DEF Files

LEMMA FilesGui ==
  ASSUME UNCHANGED mem, MarksOf(disk'.config) \subseteq Files, MarksOf(gui'.config) \subseteq Files
  PROVE  Files' \subseteq Files
<1>1. MarksOf(disk.config)' \subseteq Files /\ MarksOf(gui.config)' \subseteq Files
  BY DEF MarksOf
<1>2. \A r \in Proc : MarksOf(mem[r])' \subseteq Files
  BY DEF MarksOf, Files
<1>3. <<0, 0>> \in Files
  BY DEF Files
<1> QED
  BY <1>1, <1>2, <1>3 DEF Files

LEMMA Parts ==
  /\ MarksOf(disk.config) \subseteq Files /\ MarksOf(gui.config) \subseteq Files
  /\ \A p \in Proc : MarksOf(mem[p]) \subseteq Files
  /\ <<0, 0>> \in Files
  /\ \A q \in Profile : Mark(EntryOf(disk.config, q)) \in Files
  /\ MarksOf(NoConfig) \subseteq Files
BY NoConfigEmpty, EmptyMarks DEF Files, MarksOf

LEMMA InitCovering == Init => Covering
<1> SUFFICES ASSUME Init PROVE Covering
  OBVIOUS
<1>1. \A p \in Proc : Hand(p) = <<0, 0>> /\ ~Creating(p)
  BY DEF Init, Hand, Mark, NoCmd, Placeholder, Creating
<1>2. MarksOf(NoConfig) \subseteq {<<0, 0>>}
  BY NoConfigEmpty, EmptyMarks
<1>5. GivenKeys
  BY ConfigAssumption DEF Init, GivenKeys, ConfigAssumption
<1>3. CASE disk = Absent
  <2>1. Files = {<<0, 0>>}
    BY <1>2, <1>3 DEF Init, Files, Absent, GuiIdle
  <2>2. NewKeys
    BY <1>1, <2>1, KeyNotZero DEF NewKeys, Unseen, Init
  <2> QED
    BY <1>1, <2>1, <2>2, <1>5 DEF Covering, Waiting, CoveredMark
<1>4. CASE disk \in {Old("old"), Old("odd")}
  <2>1. MarksOf(disk.config) \subseteq {<<0, 0>>, <<1, 0>>}
    BY <1>4 DEF Old, Whole, MarksOf, Mark, EntryOf, Placeholder
  <2>2. Files \subseteq {<<0, 0>>, <<1, 0>>}
    BY <1>2, <2>1 DEF Init, Files, GuiIdle
  <2>3. disk # Absent
    BY <1>4 DEF Old, Whole, Absent
  <2>4. 1 \in Key /\ born[1] \in {"given", "old"}
    BY <2>3, ConfigAssumption DEF Init, ConfigAssumption, Key
  <2>5. NewKeys
    BY <1>1, <2>2, <2>4, KeyNotZero DEF NewKeys, Unseen, Init
  <2>6. \A m \in Files : CoveredMark(m)
    BY <2>2, <2>4 DEF CoveredMark
  <2> QED
    BY <1>1, <2>5, <2>6, <1>5 DEF Covering, Waiting, CoveredMark
<1> QED
  BY <1>3, <1>4 DEF Init

LEMMA EndsCovering ==
  ASSUME TypeInv, Covering, NEW p \in Proc, Ends(p), UNCHANGED <<born, used, tip>>,
         Files' \subseteq Files, \A t \in told' : t \in told \/ \E m \in Files : t[2] = m[1]
  PROVE  Covering'
<1>1. /\ pc'[p] = "idle" /\ cmd'[p] = NoCmd
      /\ \A r \in Proc : r # p => pc'[r] = pc[r] /\ cmd'[r] = cmd[r]
  BY DEF Ends, TypeInv, TypeOK
<1>2. \A r \in Proc : Hand(r)' \in Files \cup {Hand(r)}
  BY <1>1, Parts DEF Hand, Mark, NoCmd, Placeholder
<1>3. \A r \in Proc : Creating(r)' => Creating(r) /\ Hand(r)' = Hand(r)
  BY <1>1 DEF Creating, Hand, Mark
<1>4. tip' \in Nat /\ tip <= tip'
  BY ConfigAssumption DEF ConfigAssumption, TypeInv, TypeOK
<1> QED
  BY <1>2, <1>3, <1>4, NothingNew

LEMMA EndsFiles ==
  ASSUME TypeInv, NEW p \in Proc, Ends(p), UNCHANGED gui, disk'.config = disk.config \/ disk'.config = mem[p]
         \/ disk'.config = NoConfig
  PROVE  Files' \subseteq Files
<1>1. /\ mem'[p] = NoConfig
      /\ \A r \in Proc : r # p => mem'[r] = mem[r]
  BY DEF Ends, TypeInv, TypeOK
<1> QED
  BY <1>1, Parts, FilesFrom

(* Steps of a command that leave every hand as it is *)
LEMMA PlainCovering ==
  ASSUME TypeInv, Covering, NEW p \in Proc, UNCHANGED <<cmd, born, used, tip, told>>,
         Files' \subseteq Files, \A r \in Proc : pc'[r] = "node" => pc[r] = "node"
  PROVE  Covering'
<1>1. \A r \in Proc : Hand(r)' = Hand(r)
  BY DEF Hand, Mark
<1>2. \A r \in Proc : Creating(r)' => Creating(r)
  BY DEF Creating
<1>3. tip' \in Nat /\ tip <= tip'
  BY ConfigAssumption DEF ConfigAssumption, TypeInv, TypeOK
<1> QED
  BY <1>1, <1>2, <1>3, NothingNew

LEMMA ProfileSetCovering ==
  ASSUME TypeInv, Covering, NEW p \in Proc, NEW q \in Profile, ProfileSet(p, q)
  PROVE  Covering'
<1> DEFINE u == Upsert(disk.config, q, EntryOf(disk.config, q))
<1>1. /\ UNCHANGED <<disk, gui, told, born, used, tip>>
      /\ pc' = [pc EXCEPT ![p] = "write"]
      /\ cmd' = [cmd EXCEPT ![p] = [op |-> "profile", q |-> q, entry |-> Placeholder]]
  BY DEF ProfileSet
<1>2. PICK cur \in {q, disk.config.cur} : mem' = [mem EXCEPT ![p] = [u EXCEPT !.cur = cur]]
  BY DEF ProfileSet
<1>3. disk.config \in Config /\ EntryOf(disk.config, q) \in Entry
  BY EntryType DEF TypeInv, TypeOK
<1>4. u \in Config /\ \A r : EntryOf(u, r) = EntryOf(disk.config, r)
  BY <1>3, Upserted
<1>5. cur \in Profile
  BY <1>3, ConfigParts
<1> HIDE DEF u
<1>6. PICK m : m = [u EXCEPT !.cur = cur]
  OBVIOUS
<1>7. MarksOf(m) \subseteq Files
  <2>1. \A r : EntryOf(m, r) = EntryOf(disk.config, r)
    BY <1>4, <1>5, <1>6, Selected
  <2> QED
    BY <2>1, SameMarks, Parts
<1>8. mem'[p] = m /\ \A r \in Proc : r # p => mem'[r] = mem[r]
  BY <1>2, <1>6 DEF TypeInv, TypeOK
<1>9. Files' \subseteq Files
  BY <1>1, <1>7, <1>8, Parts, FilesFrom
<1>10. /\ \A r \in Proc : Hand(r)' \in Files \cup {Hand(r)}
       /\ \A r \in Proc : Creating(r)' => Creating(r) /\ Hand(r)' = Hand(r)
  <2>1. /\ pc'[p] = "write" /\ cmd'[p].entry = Placeholder
        /\ \A r \in Proc : r # p => pc'[r] = pc[r] /\ cmd'[r] = cmd[r]
    BY <1>1 DEF TypeInv, TypeOK
  <2> QED
    BY <2>1, Parts DEF Hand, Mark, Placeholder, Creating
<1>11. tip' \in Nat /\ tip <= tip'
  BY <1>1, ConfigAssumption DEF ConfigAssumption, TypeInv, TypeOK
<1> QED
  BY <1>1, <1>9, <1>10, <1>11, NothingNew

LEMMA WaitsFiles ==
  ASSUME TypeInv, NEW p \in Proc, NEW q, NEW op, NEW e, Waits(p, q, op, e)
  PROVE  /\ Files' \subseteq Files
         /\ UNCHANGED <<told, used, tip>>
         /\ pc'[p] = "node" /\ cmd'[p] = [op |-> op, q |-> q, entry |-> e]
         /\ \A r \in Proc : r # p => pc'[r] = pc[r] /\ cmd'[r] = cmd[r]
         /\ tip' \in Nat /\ tip <= tip' /\ pc[p] = "idle"
<1>1. /\ mem'[p] = disk.config /\ \A r \in Proc : r # p => mem'[r] = mem[r]
      /\ UNCHANGED <<disk, gui>>
  BY DEF Waits, TypeInv, TypeOK
<1>2. Files' \subseteq Files
  BY <1>1, Parts, FilesFrom
<1>3. tip' \in Nat /\ tip <= tip'
  BY ConfigAssumption DEF ConfigAssumption, TypeInv, TypeOK, Waits
<1> QED
  BY <1>2, <1>3 DEF Waits, Reads, TypeInv, TypeOK

LEMMA InitsCovering ==
  ASSUME TypeInv, Covering, NEW p \in Proc, NEW q \in Profile, InitRefresh(p, q) \/ InitHydrate(p, q)
  PROVE  Covering'
<1> DEFINE d == EntryOf(disk.config, q)
<1>1. d \in Entry
  BY EntryType DEF TypeInv, TypeOK
<1>2. PICK op, e : Waits(p, q, op, e) /\ op # "create" /\ Mark(e) = Mark(d)
  <2>1. CASE InitRefresh(p, q)
    BY <2>1 DEF InitRefresh
  <2>2. CASE InitHydrate(p, q)
    <3>1. d.form = "old" /\ Waits(p, q, "hydrate", [d EXCEPT !.form = "full"])
      BY <2>2 DEF InitHydrate
    <3> HIDE DEF d
    <3>2. d \in Wallet
      BY <1>1, <3>1, EntryParts
    <3>3. Mark([d EXCEPT !.form = "full"]) = Mark(d)
      BY <3>2, Hydrated DEF Mark
    <3> QED
      BY <3>1, <3>3
  <2> QED
    BY <2>1, <2>2
<1>3. born' = born
  BY DEF InitRefresh, InitHydrate
<1>4. /\ Files' \subseteq Files
      /\ UNCHANGED <<told, used, tip>>
      /\ pc'[p] = "node" /\ cmd'[p] = [op |-> op, q |-> q, entry |-> e]
      /\ \A r \in Proc : r # p => pc'[r] = pc[r] /\ cmd'[r] = cmd[r]
      /\ tip' \in Nat /\ tip <= tip'
  BY <1>2, WaitsFiles
<1>5. Mark(d) \in Files
  BY Parts
<1> HIDE DEF d
<1>6. /\ \A r \in Proc : Hand(r)' \in Files \cup {Hand(r)}
      /\ \A r \in Proc : Creating(r)' => Creating(r) /\ Hand(r)' = Hand(r)
  <2>1. Hand(p)' = Mark(e) /\ ~Creating(p)'
    BY <1>2, <1>4 DEF Hand, Mark, Creating
  <2>2. \A r \in Proc : r # p => Hand(r)' = Hand(r) /\ (Creating(r)' => Creating(r))
    BY <1>4 DEF Hand, Mark, Creating
  <2> QED
    BY <1>2, <1>5, <2>1, <2>2
<1> QED
  BY <1>3, <1>4, <1>6, NothingNew

LEMMA InitCreateCovering ==
  ASSUME TypeInv, Covering, NEW p \in Proc, NEW q \in Profile, NEW force \in BOOLEAN, NEW k \in Key,
         InitCreate(p, q, force, k)
  PROVE  Covering'
<1>1. Waits(p, q, "create", NewWallet(k))
  BY DEF InitCreate, NewWallet
<1>2. /\ k \in Mnemonics \/ born[k] = "no"
      /\ born' = [born EXCEPT ![k] = IF k \in Mnemonics THEN "given" ELSE "offline"]
  BY DEF InitCreate, Generates
<1>3. /\ born'[k] = (IF k \in Mnemonics THEN "given" ELSE "offline")
      /\ \A j \in Key : j # k => born'[j] = born[j]
  BY <1>2 DEF TypeInv, TypeOK
<1>4. /\ Files' \subseteq Files
      /\ UNCHANGED <<told, used, tip>>
      /\ pc'[p] = "node" /\ cmd'[p] = [op |-> "create", q |-> q, entry |-> NewWallet(k)]
      /\ \A r \in Proc : r # p => pc'[r] = pc[r] /\ cmd'[r] = cmd[r]
  BY <1>1, WaitsFiles
<1>5. /\ Hand(p)' = <<k, 0>>
      /\ \A r \in Proc : r # p => Hand(r)' = Hand(r) /\ (Creating(r)' => Creating(r))
  BY <1>4 DEF Hand, Mark, Creating, NewWallet
<1>6. k # 0
  BY KeyNotZero
<1>7. \A j \in Key : Unseen(j) => Unseen(j)'
  BY <1>4 DEF Unseen
<1>8. NewKeys'
  <2> SUFFICES ASSUME NEW j \in Key, born'[j] = "no" PROVE Unseen(j)' /\ \A r \in Proc : Hand(r)'[1] # j
    BY DEF NewKeys
  <2>1. j # k /\ born[j] = "no"
    BY <1>3
  <2>2. Unseen(j) /\ \A r \in Proc : Hand(r)[1] # j
    BY <2>1 DEF Covering, NewKeys
  <2> QED
    BY <1>5, <1>7, <2>1, <2>2
<1>9. Waiting'
  <2> SUFFICES ASSUME NEW r \in Proc, Creating(r)'
               PROVE  /\ Hand(r)'[2] = 0
                      /\ born'[Hand(r)'[1]] = "offline" => UnseenBut(r, Hand(r)[1])'
    BY DEF Waiting
  <2>1. CASE r = p
    <3>1. Hand(r)' = <<k, 0>>
      BY <1>5, <2>1
    <3>2. ASSUME born'[k] = "offline" PROVE UnseenBut(r, k)'
      <4>1. k \notin Mnemonics /\ born[k] = "no"
        BY <1>2, <1>3, <3>2
      <4>2. Unseen(k) /\ \A s \in Proc : Hand(s)[1] # k
        BY <4>1 DEF Covering, NewKeys
      <4> QED
        BY <1>5, <1>7, <2>1, <4>2 DEF UnseenBut
    <3>3. Hand(r)'[1] = k /\ Hand(r)'[2] = 0
      BY <3>1
    <3> QED
      BY <3>2, <3>3
  <2>2. CASE r # p
    <3>1. Creating(r) /\ Hand(r)' = Hand(r)
      BY <1>5, <2>2
    <3>2. Hand(r)[1] \in Key
      BY <3>1, MarksType
    <3>3. Hand(r)[2] = 0 /\ (born[Hand(r)[1]] = "offline" => UnseenBut(r, Hand(r)[1]))
      BY <3>1 DEF Covering, Waiting
    <3> DEFINE j == Hand(r)[1]
    <3>4. ASSUME born'[j] = "offline" PROVE UnseenBut(r, j)'
      <4>1. j # k
        <5>1. CASE k \in Mnemonics
          BY <1>3, <3>4, <5>1
        <5>2. CASE born[k] = "no"
          BY <5>2 DEF Covering, NewKeys
        <5> QED
          BY <1>2, <5>1, <5>2
      <4>2. UnseenBut(r, j)
        BY <1>3, <3>2, <3>3, <3>4, <4>1
      <4> QED
        BY <1>5, <1>7, <3>1, <3>2, <4>1, <4>2 DEF UnseenBut
    <3> QED
      BY <3>1, <3>3, <3>4
  <2> QED
    BY <2>1, <2>2
<1>10. \A m : CoveredMark(m) /\ m[1] \in Key \cup {0} => CoveredMark(m)'
  BY <1>3, <1>4 DEF CoveredMark
<1>11. CoveredMark(<<k, 0>>)'
  BY <1>3 DEF CoveredMark
<1>12. \A m \in Files' : CoveredMark(m)'
  BY <1>4, <1>10, MarksType DEF Covering
<1>13. \A r \in Proc : CoveredMark(Hand(r))'
  <2> SUFFICES ASSUME NEW r \in Proc PROVE CoveredMark(Hand(r))'
    OBVIOUS
  <2>1. CASE r = p
    BY <1>5, <1>11, <2>1
  <2>2. CASE r # p
    BY <1>5, <1>10, <2>2, MarksType DEF Covering
  <2> QED
    BY <2>1, <2>2
<1>14. GivenKeys'
  <2> SUFFICES ASSUME NEW j \in Given PROVE born'[j] = "given"
    BY DEF GivenKeys
  <2>1. j \in Key /\ born[j] = "given" /\ j \in Mnemonics
    BY ConfigAssumption DEF Covering, GivenKeys, Mnemonics, ConfigAssumption
  <2> QED
    BY <1>3, <2>1
<1> QED
  BY <1>8, <1>9, <1>12, <1>13, <1>14 DEF Covering

LEMMA NodeAnswersCovering ==
  ASSUME TypeInv, Covering, NEW p \in Proc, NodeAnswers(p)
  PROVE  Covering'
<1>1. /\ cmd[p].entry \in Wallet /\ cmd[p].q \in Profile /\ mem[p] \in Config
      /\ pc[p] = "node" /\ UNCHANGED <<disk, gui, told, used, tip>>
  BY DEF NodeAnswers, TypeInv, InHand, TypeOK
<1>2. PICK flag \in Flag : \E b \in Birthdays(cmd[p].entry, cmd[p].op # "create", flag) :
        LET e == [cmd[p].entry EXCEPT !.birth = b]
            unchanged == cmd[p].op = "refresh" /\ b = cmd[p].entry.birth
        IN  /\ cmd' = [cmd EXCEPT ![p].entry = e]
            /\ mem' = [mem EXCEPT ![p] = [Upsert(@, cmd[p].q, e) EXCEPT !.cur = cmd[p].q]]
            /\ pc' = [pc EXCEPT ![p] = IF unchanged THEN "report" ELSE "write"]
            /\ born' = [born EXCEPT ![e.key] = BornNow(cmd[p].op, e.key, b, flag)]
  BY DEF NodeAnswers
<1>2b. PICK b \in Birthdays(cmd[p].entry, cmd[p].op # "create", flag) :
        LET e == [cmd[p].entry EXCEPT !.birth = b]
            unchanged == cmd[p].op = "refresh" /\ b = cmd[p].entry.birth
        IN  /\ cmd' = [cmd EXCEPT ![p].entry = e]
            /\ mem' = [mem EXCEPT ![p] = [Upsert(@, cmd[p].q, e) EXCEPT !.cur = cmd[p].q]]
            /\ pc' = [pc EXCEPT ![p] = IF unchanged THEN "report" ELSE "write"]
            /\ born' = [born EXCEPT ![e.key] = BornNow(cmd[p].op, e.key, b, flag)]
  BY <1>2
<1> DEFINE e == [cmd[p].entry EXCEPT !.birth = b]
<1>3. PICK k : k = cmd[p].entry.key
  OBVIOUS
<1>4. /\ b \in 0 .. MaxTip
      /\ flag = {} /\ cmd[p].entry.birth > 0 => b = cmd[p].entry.birth
      /\ flag = {} /\ cmd[p].op = "create" => b = cmd[p].entry.birth \/ b <= tip
  <2>1. (cmd[p].op # "create") \in BOOLEAN
    OBVIOUS
  <2> QED
    BY <1>1, <2>1, BirthdaysType
<1>5. e \in Wallet /\ Mark(e) = <<k, b>> /\ e.key = k
  BY <1>1, <1>3, <1>4, Dated DEF Mark
<1>6. PICK m : m = [Upsert(mem[p], cmd[p].q, e) EXCEPT !.cur = cmd[p].q]
  OBVIOUS
<1>7. /\ cmd' = [cmd EXCEPT ![p].entry = e]
      /\ mem' = [mem EXCEPT ![p] = m]
      /\ pc' = [pc EXCEPT ![p] = IF cmd[p].op = "refresh" /\ b = cmd[p].entry.birth THEN "report" ELSE "write"]
      /\ born' = [born EXCEPT ![k] = BornNow(cmd[p].op, k, b, flag)]
  BY <1>2b, <1>5, <1>6
<1> HIDE DEF e
<1>8. \A r : EntryOf(m, r) = IF r = cmd[p].q THEN e ELSE EntryOf(mem[p], r)
  <2>1. e \in Entry
    BY <1>5 DEF Entry
  <2>2. Upsert(mem[p], cmd[p].q, e) \in Config
    BY <1>1, <2>1, Upserted
  <2> QED
    BY <1>1, <1>6, <2>1, <2>2, Upserted, Selected
<1>9. MarksOf(m) \subseteq Files \cup {<<k, b>>}
  BY <1>5, <1>8, Parts DEF MarksOf
<1>10. mem'[p] = m /\ \A r \in Proc : r # p => mem'[r] = mem[r]
  BY <1>7 DEF TypeInv, TypeOK
<1>11. Files' \subseteq Files \cup {<<k, b>>}
  BY <1>1, <1>9, <1>10, Parts, FilesFrom
<1>12. /\ Hand(p) = <<k, cmd[p].entry.birth>>
       /\ Hand(p)' = <<k, b>> /\ ~Creating(p)'
       /\ \A r \in Proc : r # p => Hand(r)' = Hand(r) /\ (Creating(r)' => Creating(r))
  <2>1. /\ cmd'[p].entry = e /\ pc'[p] # "node"
        /\ \A r \in Proc : r # p => pc'[r] = pc[r] /\ cmd'[r] = cmd[r]
    BY <1>7 DEF TypeInv, TypeOK
  <2> QED
    BY <1>3, <1>5, <2>1 DEF Hand, Mark, Creating
<1>13. k \in Key /\ born[k] # "no" /\ k # 0
  <2>1. k \in Key
    BY <1>1, <1>3 DEF Wallet
  <2> QED
    BY <1>12, <2>1, KeyNotZero DEF Covering, NewKeys
(* what the answer may change of a key's origin *)
<1>14. /\ \A j \in Key : j # k => born'[j] = born[j]
       /\ \/ flag = {} /\ born'[k] = born[k]
          \/ flag # {} /\ born'[k] \in {"given", "old"}
          \/ flag = {} /\ born[k] = "offline" /\ born'[k] = "online" /\ b > 0 /\ Creating(p)
       /\ born[k] = "given" => born'[k] = "given"
  <2>1. born'[k] = BornNow(cmd[p].op, k, b, flag) /\ \A j \in Key : j # k => born'[j] = born[j]
    BY <1>7, <1>13 DEF TypeInv, TypeOK
  <2> QED
    BY <1>1, <2>1 DEF BornNow, Creating
<1>15. \A j \in Key : j # k /\ Unseen(j) => Unseen(j)'
  BY <1>1, <1>11 DEF Unseen
<1>16. NewKeys'
  <2> SUFFICES ASSUME NEW j \in Key, born'[j] = "no" PROVE Unseen(j)' /\ \A r \in Proc : Hand(r)'[1] # j
    BY DEF NewKeys
  <2>1. j # k /\ born[j] = "no"
    BY <1>13, <1>14
  <2>2. Unseen(j) /\ \A r \in Proc : Hand(r)[1] # j
    BY <2>1 DEF Covering, NewKeys
  <2> QED
    BY <1>12, <1>15, <2>1, <2>2
<1>17. Waiting'
  <2> SUFFICES ASSUME NEW r \in Proc, Creating(r)'
               PROVE  /\ Hand(r)'[2] = 0
                      /\ born'[Hand(r)'[1]] = "offline" => UnseenBut(r, Hand(r)[1])'
    BY DEF Waiting
  <2>1. r # p /\ Creating(r) /\ Hand(r)' = Hand(r)
    BY <1>12
  <2>2. Hand(r)[1] \in Key
    BY <2>1, MarksType
  <2>3. Hand(r)[2] = 0 /\ (born[Hand(r)[1]] = "offline" => UnseenBut(r, Hand(r)[1]))
    BY <2>1 DEF Covering, Waiting
  <2> DEFINE j == Hand(r)[1]
  <2>4. ASSUME born'[j] = "offline" PROVE UnseenBut(r, j)'
    <3>1. born[j] = "offline"
      BY <1>14, <2>2, <2>4
    <3>2. UnseenBut(r, j)
      BY <2>3, <3>1
    <3>3. j # k
      BY <1>12, <2>1, <3>2 DEF UnseenBut
    <3> QED
      BY <1>12, <1>15, <2>1, <2>2, <3>2, <3>3 DEF UnseenBut
  <2> QED
    BY <2>1, <2>3, <2>4
<1>18. CoveredMark(<<k, b>>)'
  <2>3. CASE born'[k] # "online"
    BY <2>3 DEF CoveredMark
  <2>1. CASE flag = {} /\ born'[k] = born[k]
    <3>1. CoveredMark(<<k, cmd[p].entry.birth>>)
      BY <1>12 DEF Covering
    <3> QED
      BY <1>1, <1>4, <2>1, <3>1 DEF CoveredMark
  <2>2. CASE flag = {} /\ born[k] = "offline" /\ b > 0 /\ Creating(p)
    <3>1. cmd[p].entry.birth = 0 /\ used[k] = 0
      BY <1>12, <2>2 DEF Covering, Waiting, UnseenBut, Unseen
    <3>2. b <= tip
      BY <1>4, <2>2, <3>1 DEF Creating
    <3> QED
      BY <1>1, <2>2, <3>1, <3>2 DEF CoveredMark
  <2> QED
    BY <1>14, <2>1, <2>2, <2>3
<1>19. ASSUME NEW m2, CoveredMark(m2), m2[1] \in Key \cup {0},
              m2[1] = k => born'[k] = born[k] \/ born'[k] # "online"
       PROVE  CoveredMark(m2)'
  BY <1>1, <1>14, <1>19 DEF CoveredMark
<1>20. born'[k] = born[k] \/ born'[k] # "online" \/ ((\A m2 \in Files : m2[1] # k) /\ \A r \in Proc : r # p => Hand(r)[1] # k)
  BY <1>12, <1>14 DEF Covering, Waiting, UnseenBut, Unseen
<1>21. \A m2 \in Files' : CoveredMark(m2)'
  BY <1>11, <1>18, <1>19, <1>20, MarksType DEF Covering
<1>22. \A r \in Proc : CoveredMark(Hand(r))'
  <2> SUFFICES ASSUME NEW r \in Proc PROVE CoveredMark(Hand(r))'
    OBVIOUS
  <2>1. CASE r = p
    BY <1>12, <1>18, <2>1
  <2>2. CASE r # p
    BY <1>12, <1>19, <1>20, <2>2, MarksType DEF Covering
  <2> QED
    BY <2>1, <2>2
<1>23. GivenKeys'
  <2>1. \A j \in Key : born[j] = "given" => born'[j] = "given"
    BY <1>14
  <2> QED
    BY <2>1, ConfigAssumption DEF Covering, GivenKeys, ConfigAssumption
<1> QED
  BY <1>16, <1>17, <1>21, <1>22, <1>23 DEF Covering

LEMMA PaidCovering ==
  ASSUME TypeInv, Covering, NEW k \in Key, Paid(k)
  PROVE  Covering'
<1>1. /\ Shown(k) /\ tip > 0 /\ used[k] = 0 /\ used' = [used EXCEPT ![k] = tip]
      /\ UNCHANGED <<disk, gui, mem, cmd, pc, told, born, tip>>
  BY DEF Paid
<1>2. Files' = Files /\ \A p \in Proc : Hand(p)' = Hand(p) /\ (Creating(p)' <=> Creating(p))
  BY <1>1 DEF Files, MarksOf, Hand, Mark, Creating
<1>3. used'[k] = tip /\ \A j \in Key : j # k => used'[j] = used[j]
  BY <1>1 DEF TypeInv, TypeOK
<1>4. \A j \in Key : Unseen(j) /\ born[j] \notin {"old", "given"} => j # k /\ Unseen(j)'
  BY <1>1, <1>2, <1>3 DEF Unseen, Shown, Covering, GivenKeys
<1>5. NewKeys'
  BY <1>1, <1>2, <1>4 DEF Covering, NewKeys
<1>6. Waiting'
  <2> SUFFICES ASSUME NEW r \in Proc, Creating(r)'
               PROVE  /\ Hand(r)'[2] = 0
                      /\ born'[Hand(r)'[1]] = "offline" => UnseenBut(r, Hand(r)[1])'
    BY DEF Waiting
  <2>1. Creating(r) /\ Hand(r)' = Hand(r) /\ Hand(r)[1] \in Key
    BY <1>2, MarksType
  <2>2. Hand(r)[2] = 0 /\ (born[Hand(r)[1]] = "offline" => UnseenBut(r, Hand(r)[1]))
    BY <2>1 DEF Covering, Waiting
  <2> DEFINE j == Hand(r)[1]
  <2>3. ASSUME born'[j] = "offline" PROVE UnseenBut(r, j)'
    BY <1>1, <1>2, <1>4, <2>1, <2>2, <2>3 DEF UnseenBut
  <2> QED
    BY <2>1, <2>2, <2>3
<1>7. ASSUME NEW m, CoveredMark(m), m[1] \in Key \cup {0} PROVE CoveredMark(m)'
  BY <1>1, <1>3, <1>7 DEF CoveredMark
<1>8. \A m \in Files' : CoveredMark(m)'
  BY <1>2, <1>7, MarksType DEF Covering
<1>9. \A r \in Proc : CoveredMark(Hand(r))'
  BY <1>2, <1>7, MarksType DEF Covering
<1>10. GivenKeys'
  BY <1>1 DEF Covering, GivenKeys
<1> QED
  BY <1>5, <1>6, <1>8, <1>9, <1>10 DEF Covering

LEMMA OpenCovering ==
  ASSUME TypeInv, Covering, NEW p \in Proc, Open(p)
  PROVE  Covering'
<1>1. disk'.config = NoConfig /\ UNCHANGED <<gui, mem, cmd, told, born, used, tip>>
  BY DEF Open, Torn
<1>2. Files' \subseteq Files
  BY <1>1, Parts, FilesFrom
<1>3. \A r \in Proc : pc'[r] = "node" => pc[r] = "node"
  BY DEF Open, TypeInv, TypeOK
<1> QED
  BY <1>1, <1>2, <1>3, PlainCovering

LEMMA WriteCovering ==
  ASSUME TypeInv, Covering, NEW p \in Proc, Write(p)
  PROVE  Covering'
<1>1. /\ disk'.config = disk.config \/ disk'.config = mem[p] \/ disk'.config = NoConfig
      /\ UNCHANGED <<gui, told, born, used, tip>>
  BY DEF Write, Whole, Torn
<1>2. CASE Ends(p)
  BY <1>1, <1>2, EndsFiles, EndsCovering
<1>3. CASE pc' = [pc EXCEPT ![p] = "report"] /\ UNCHANGED <<cmd, mem>>
  <2>1. Files' \subseteq Files
    BY <1>1, <1>3, Parts, FilesFrom
  <2>2. \A r \in Proc : pc'[r] = "node" => pc[r] = "node"
    BY <1>3 DEF TypeInv, TypeOK
  <2> QED
    BY <1>1, <1>3, <2>1, <2>2, PlainCovering
<1> QED
  BY <1>2, <1>3 DEF Write

LEMMA ReportCovering ==
  ASSUME TypeInv, Covering, NEW p \in Proc, Report(p)
  PROVE  Covering'
<1>1. /\ Ends(p) /\ UNCHANGED <<disk, gui, born, used, tip>>
      /\ \A t \in told' : t \in told \/ t[2] = EntryOf(disk.config, cmd[p].q).key
  BY DEF Report
<1>2. Mark(EntryOf(disk.config, cmd[p].q)) \in Files
  BY Parts DEF TypeInv, TypeOK
<1>3. \A t \in told' : t \in told \/ \E m \in Files : t[2] = m[1]
  BY <1>1, <1>2 DEF Mark
<1> QED
  BY <1>1, <1>3, EndsFiles, EndsCovering

LEMMA DiesCovering ==
  ASSUME TypeInv, Covering, NEW p \in Proc, Dies(p)
  PROVE  Covering'
BY EndsFiles, EndsCovering DEF Dies

LEMMA PlainGui ==
  ASSUME TypeInv, Covering, UNCHANGED <<pc, cmd, born, used, tip, told>>, Files' \subseteq Files
  PROVE  Covering'
<1>1. \A r \in Proc : Hand(r)' = Hand(r) /\ (Creating(r)' => Creating(r))
  BY DEF Hand, Mark, Creating
<1>2. tip' \in Nat /\ tip <= tip'
  BY ConfigAssumption DEF ConfigAssumption, TypeInv, TypeOK
<1> QED
  BY <1>1, <1>2, NothingNew

LEMMA GuiCovering ==
  ASSUME TypeInv, Covering, Gui
  PROVE  Covering'
<1>1. CASE \E set \in Profile \cup {NoProfile} : Handler(set)
  <2>1. /\ UNCHANGED <<disk, pc, cmd, mem, told, born, used, tip>>
        /\ gui'.config = disk.config \/ gui'.config = Fresh
    BY <1>1 DEF Handler
  <2>2. MarksOf(Fresh) \subseteq Files
    BY FreshEmpty, EmptyMarks, Parts DEF TypeInv, TypeOK
  <2>3. Files' \subseteq Files
    BY <2>1, <2>2, Parts, FilesGui
  <2> QED
    BY <2>1, <2>3, PlainGui
<1>2. CASE GuiSeed
  <2>1. /\ UNCHANGED <<pc, cmd, mem, told, born, used, tip>>
        /\ disk'.config = gui.config /\ gui'.config = gui.config
    BY <1>2 DEF GuiSeed, Renamed, Whole, TypeInv, TypeOK
  <2>2. Files' \subseteq Files
    BY <2>1, Parts, FilesGui
  <2> QED
    BY <2>1, <2>2, PlainGui
<1>3. CASE GuiFinish
  <2>1. /\ UNCHANGED <<pc, cmd, mem, told, born, used, tip>>
        /\ disk'.config = Repair \/ disk'.config = disk.config
        /\ gui'.config = NoConfig
    BY <1>3, Finished DEF Renamed, Whole, GuiIdle
  <2>2. MarksOf(Repair) = MarksOf(gui.config)
    BY RepairKeeps, SameMarks
  <2>3. Files' \subseteq Files
    BY <2>1, <2>2, Parts, FilesGui
  <2> QED
    BY <2>1, <2>3, PlainGui
<1> QED
  BY <1>1, <1>2, <1>3 DEF Gui

LEMMA MinedCovering ==
  ASSUME TypeInv, Covering, Mined
  PROVE  Covering'
<1>1. UNCHANGED <<disk, gui, mem, cmd, pc, told, born, used>> /\ tip' = tip + Margin + 1
  BY DEF Mined
<1>2. Files' = Files /\ \A p \in Proc : Hand(p)' = Hand(p) /\ (Creating(p)' <=> Creating(p))
  BY <1>1 DEF Files, MarksOf, Hand, Mark, Creating
<1>3. tip' \in Nat /\ tip <= tip'
  BY <1>1, ConfigAssumption DEF ConfigAssumption, TypeInv, TypeOK
<1> QED
  BY <1>1, <1>2, <1>3, NothingNew

(* A wallet that init made with the node's answer is never scanned from a   *)
(* height after its first payment, whatever overlaps, dies or is repaired,  *)
(* and whoever of the commands gives it a birthday: one whose mnemonic or   *)
(* birthday the user gives to init is no longer such a wallet.              *)
THEOREM BirthdaysCover == Spec => []BirthdayCovers
<1>1. ASSUME Covering, [Next]_vars, TypeInv PROVE Covering'
  <2> USE <1>1
  <2>1. ASSUME NEW p \in Proc, Command(p) PROVE Covering'
    BY <2>1, ProfileSetCovering, InitsCovering, InitCreateCovering, NodeAnswersCovering,
       OpenCovering, WriteCovering, ReportCovering, DiesCovering DEF Command
  <2>2. CASE UNCHANGED vars
    BY <2>2, PlainGui DEF vars, Files, MarksOf
  <2> QED
    BY <2>1, <2>2, GuiCovering, MinedCovering, PaidCovering DEF Next
<1>2. TypeInv /\ Covering => BirthdayCovers
  <2> SUFFICES ASSUME Covering, TypeInv, NEW q \in DOMAIN disk.config.prof
               PROVE  LET e == disk.config.prof[q] IN
                      e.key # 0 /\ born[e.key] = "online" /\ used[e.key] > 0 => e.birth <= used[e.key]
    BY DEF BirthdayCovers
  <2>1. q \in Profile
    BY ConfigParts DEF TypeInv, TypeOK
  <2>2. EntryOf(disk.config, q) = disk.config.prof[q]
    BY DEF EntryOf
  <2>3. CoveredMark(Mark(disk.config.prof[q]))
    BY <2>1, <2>2, Parts DEF Covering
  <2> QED
    BY <2>3 DEF CoveredMark, Mark
<1> QED
  BY <1>1, <1>2, InitCovering, ConfigTyped, PTL DEF Spec
=============================================================================
