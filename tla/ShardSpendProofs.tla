-------------------------- MODULE ShardSpendProofs --------------------------
(***************************************************************************)
(* Theorems of ShardSpend, for every number of shards, length of the       *)
(* covenant, limbs and amounts: the node agrees with the builders          *)
(* (NodeAgrees), the covenant's stacks are those of its comments           *)
(* (StackContract), what is written is read back (ReadBack), and nobody is *)
(* paid but the payee and the wallet, however the address was mistyped     *)
(* (PaysTheAddress).                                                       *)
(*                                                                         *)
(* The covenant is run opcode by opcode: first each opcode on a stack of   *)
(* the right depth, then each piece of a program, then each program, then  *)
(* each stage of the machine. Inv is the inductive invariant: PoolInv says *)
(* that the pool state is true of the chain, BuiltInv that what is built   *)
(* is sealed, and MachineInv what the machine holds at each stage, the     *)
(* accumulator of the loop included.                                       *)
(***************************************************************************)
EXTENDS WireProofs

-----------------------------------------------------------------------------
(* Runs of the covenant's machine *)

ExecStep(spent, made, st, op) ==
  IF ~st.ok THEN st
  ELSE IF op \in DOMAIN Takes /\ Len(st.main) < Takes[op] THEN [st EXCEPT !.ok = FALSE]
  ELSE Opcode(st, op, spent, made)
Execs(spent, made, m, program) == Fold(LAMBDA st, op : ExecStep(spent, made, st, op), m, program)

IsRun(t, spent, made, m, program) ==
  /\ Steps(t, Len(program)) /\ t[0] = m
  /\ \A i \in 1 .. Len(program) : t[i] = ExecStep(spent, made, t[i - 1], program[i])

(* The fold of Exec, with its step named *)
LEMMA ExecIs ==
  ASSUME NEW m, NEW program, NEW spent, NEW made
  PROVE  Exec(m, program, spent, made) = Execs(spent, made, m, program)
  BY Zenon DEF Exec, Execs, ExecStep

(* A run ends where its trace does *)
LEMMA ExecTrace ==
  ASSUME NEW spent, NEW made, NEW program, Len(program) \in Nat, NEW b,
         NEW t, IsRun(t, spent, made, b, program)
  PROVE  Execs(spent, made, b, program) = t[Len(program)]
  <1> DEFINE Step(i, r) == CHOOSE v \in {ExecStep(spent, made, q, program[i]) : q \in {r}} : TRUE
             Trace(g) == g = [i \in 0 .. Len(program) |-> IF i = 0 THEN b ELSE Step(i, g[i - 1])]
             Result == CHOOSE g : Trace(g)
  <1>0. /\ Steps(t, Len(program)) /\ t[0] = b
        /\ \A i \in 1 .. Len(program) : t[i] = ExecStep(spent, made, t[i - 1], program[i])
        BY DEF IsRun
  <1>1. \A i, r : Step(i, r) = ExecStep(spent, made, r, program[i])
        BY Zenon
  <1>2. \A i \in 1 .. Len(program) : t[i] = Step(i, t[i - 1])
        BY <1>0, <1>1
  <1>3. Execs(spent, made, b, program) = Result[Len(program)]
        BY Zenon DEF Execs, Fold
  <1> HIDE DEF Step
  <1>4. Trace(t)
    <2>1. \A i \in 0 .. Len(program) : t[i] = IF i = 0 THEN b ELSE Step(i, t[i - 1])
          BY <1>0, <1>2
    <2> QED BY <1>0, <2>1, Zenon DEF Steps
  <1>5. Trace(Result)
        BY <1>4, Zenon
  <1> HIDE DEF Result
  <1>6. \A i \in 0 .. Len(program) : Result[i] = IF i = 0 THEN b ELSE Step(i, Result[i - 1])
        BY <1>5
  <1> HIDE DEF Trace
  <1>7. Alike(Result, t, Len(program))
        BY <1>0, <1>2, <1>6 DEF Alike
  <1> QED BY <1>3, <1>7, SameTrace

(* Every program has a run *)
LEMMA RunsExist ==
  ASSUME NEW spent, NEW made, NEW m, NEW program, List(program)
  PROVE  \E t : IsRun(t, spent, made, m, program) /\ Execs(spent, made, m, program) = t[Len(program)]
  <1> DEFINE IsUpTo(t, n) == Steps(t, n) /\ t[0] = m /\ \A i \in 1 .. n : t[i] = ExecStep(spent, made, t[i - 1], program[i])
             Good(n) == \E t : IsUpTo(t, n)
             Bad == {n \in 0 .. Len(program) : ~Good(n)}
  <1>0. Len(program) \in Nat
        BY DEF List
  <1> HIDE DEF Good
  <1>1. Bad = {}
    <2> SUFFICES ASSUME Bad # {} PROVE FALSE
        OBVIOUS
    <2>1. Bad \in SUBSET Nat
          OBVIOUS
    <2> HIDE DEF Bad
    <2>2. PICK k \in Bad : \A l \in Bad : k <= l
          BY <2>1, LeastNatural
    <2> USE DEF Bad
    <2>3. CASE k = 0
      <3> DEFINE t == [i \in 0 .. 0 |-> m]
      <3>1. Steps(t, k) /\ t[0] = m /\ 1 .. k = {}
            BY <2>3 DEF Steps
      <3> HIDE DEF t
      <3>2. Good(k)
            BY <3>1 DEF Good
      <3> QED BY <3>2
    <2>4. CASE k # 0
      <3>1. k \in 1 .. Len(program) /\ k - 1 \in 0 .. Len(program) /\ k - 1 \notin Bad /\ k \in Nat
            BY <1>0, <2>2, <2>4
      <3>2. PICK t : IsUpTo(t, k - 1)
            BY <3>1 DEF Good
      <3> DEFINE w == [i \in 0 .. k |-> IF i = k THEN ExecStep(spent, made, t[k - 1], program[k]) ELSE t[i]]
      <3>3. w[k] = ExecStep(spent, made, t[k - 1], program[k]) /\ \A i \in 0 .. k - 1 : w[i] = t[i]
            BY <3>1
      <3>4. Steps(w, k)
            BY DEF Steps
      <3> HIDE DEF w
      <3>5. w[0] = m
            BY <3>1, <3>2, <3>3
      <3>6. ASSUME NEW i \in 1 .. k PROVE w[i] = ExecStep(spent, made, w[i - 1], program[i])
        <4>1. CASE i = k
          <5>1. k - 1 \in 0 .. k - 1
                BY <3>1
          <5> QED BY <3>3, <4>1, <5>1
        <4>2. CASE i # k
          <5>1. i \in 1 .. k - 1 /\ i \in 0 .. k - 1 /\ i - 1 \in 0 .. k - 1
                BY <3>1, <4>2
          <5> QED BY <3>2, <3>3, <5>1
        <4> QED BY <4>1, <4>2
      <3>7. IsUpTo(w, k)
            BY <3>4, <3>5, <3>6
      <3>8. Good(k)
            BY <3>7, Zenon DEF Good
      <3> QED BY <3>8
    <2> QED BY <2>3, <2>4
  <1>2. Good(Len(program))
        BY <1>0, <1>1
  <1>3. PICK t : IsUpTo(t, Len(program))
        BY <1>2 DEF Good
  <1>4. Execs(spent, made, m, program) = t[Len(program)]
    <2>1. IsRun(t, spent, made, m, program)
          BY <1>3 DEF IsRun
    <2> QED BY <1>0, <2>1, ExecTrace
  <1> QED BY <1>3, <1>4 DEF IsRun

(* A run of two programs, one after the other *)
LEMMA ExecJoin ==
  ASSUME NEW spent, NEW made, NEW m, NEW p, NEW q, List(p), List(q)
  PROVE  /\ Execs(spent, made, m, p \o q) = Execs(spent, made, Execs(spent, made, m, p), q)
         /\ List(p \o q)
  <1> PICK j \in Nat : j = Len(p)
      BY DEF List
  <1> PICK k \in Nat : k = Len(q)
      BY DEF List
  <1> PICK all : all = p \o q
      OBVIOUS
  <1>1. /\ List(all) /\ Len(all) = j + k
        /\ \A i \in 1 .. j : all[i] = p[i]
        /\ \A i \in 1 .. k : all[j + i] = q[i]
        BY JoinedLists
  <1>2. PICK t : IsRun(t, spent, made, m, p) /\ Execs(spent, made, m, p) = t[j]
        BY RunsExist
  <1> PICK mid : mid = t[j]
      OBVIOUS
  <1>3. PICK u : IsRun(u, spent, made, mid, q) /\ Execs(spent, made, mid, q) = u[k]
        BY RunsExist, ZenonT(30)
  <1> DEFINE w == [i \in 0 .. j + k |-> IF i <= j THEN t[i] ELSE u[i - j]]
  <1>4. Steps(w, j + k)
        BY DEF Steps
  <1>5. /\ \A i \in 0 .. j : w[i] = t[i]
        /\ \A i \in 0 .. k : w[j + i] = u[i]
    <2>1. \A i \in 0 .. j : i \in 0 .. j + k /\ i <= j
          OBVIOUS
    <2>2. ASSUME NEW i \in 0 .. k PROVE w[j + i] = u[i]
      <3>1. CASE i = 0
        <4>1. w[j] = t[j]
              OBVIOUS
        <4>2. u[0] = mid
              BY <1>3 DEF IsRun
        <4> QED BY <3>1, <4>1, <4>2
      <3>2. CASE i # 0
        <4>1. j + i \in 0 .. j + k /\ ~(j + i <= j) /\ j + i - j = i
              BY <3>2
        <4> PICK l : l = j + i
            OBVIOUS
        <4>2. w[l] = u[l - j]
              BY <4>1
        <4> QED BY <4>1, <4>2
      <3> QED BY <3>1, <3>2
    <2> QED BY <2>1, <2>2
  <1> HIDE DEF w
  <1>6. ASSUME NEW i \in 1 .. j + k PROVE w[i] = ExecStep(spent, made, w[i - 1], all[i])
    <2>1. CASE i <= j
      <3>1. i \in 1 .. j /\ i \in 0 .. j /\ i - 1 \in 0 .. j
            BY <2>1
      <3>2. t[i] = ExecStep(spent, made, t[i - 1], p[i])
            BY <1>2, <3>1 DEF IsRun
      <3> QED BY <1>1, <1>5, <3>1, <3>2
    <2>2. CASE ~(i <= j)
      <3>1. i - j \in 1 .. k /\ j + (i - j) = i /\ j + (i - j - 1) = i - 1 /\ i - j - 1 \in 0 .. k /\ i - j \in 0 .. k
            BY <2>2
      <3> PICK l \in 1 .. k : l = i - j
          BY <3>1
      <3>2. u[l] = ExecStep(spent, made, u[l - 1], q[l])
            BY <1>3 DEF IsRun
      <3>3. w[i] = u[l] /\ w[i - 1] = u[l - 1] /\ all[i] = q[l]
        <4>1. w[j + l] = u[l] /\ j + l = i
              BY <1>5, <3>1
        <4>2. w[j + (l - 1)] = u[l - 1] /\ j + (l - 1) = i - 1
              BY <1>5, <3>1
        <4>3. all[j + l] = q[l]
              BY <1>1
        <4> QED BY <4>1, <4>2, <4>3
      <3> QED BY <3>2, <3>3
    <2> QED BY <2>1, <2>2
  <1>7. w[0] = m /\ w[j + k] = u[k]
    <2>1. 0 \in 0 .. j /\ t[0] = m
          BY <1>2 DEF IsRun
    <2>2. k \in 0 .. k
          OBVIOUS
    <2> QED BY <1>5, <2>1, <2>2
  <1>8. Execs(spent, made, m, all) = w[j + k]
    <2>1. Len(all) \in Nat /\ Steps(w, Len(all)) /\ w[0] = m
          BY <1>1, <1>4, <1>7
    <2>2. \A i \in 1 .. Len(all) : w[i] = ExecStep(spent, made, w[i - 1], all[i])
          BY <1>1, <1>6
    <2>3. Execs(spent, made, m, all) = w[Len(all)]
      <3>1. IsRun(w, spent, made, m, all)
            BY <2>1, <2>2 DEF IsRun
      <3> QED BY <2>1, <3>1, ExecTrace
    <2> QED BY <1>1, <2>3
  <1> QED BY <1>1, <1>2, <1>3, <1>7, <1>8

(* A machine that has stopped stays as it is *)
LEMMA ExecStopped ==
  ASSUME NEW spent, NEW made, NEW m, ~m.ok, NEW program, List(program)
  PROVE  Execs(spent, made, m, program) = m
  <1> DEFINE t == [i \in 0 .. Len(program) |-> m]
  <1>0. Len(program) \in Nat
        BY DEF List
  <1>1. Steps(t, Len(program)) /\ t[0] = m /\ t[Len(program)] = m
        BY <1>0 DEF Steps
  <1>2. \A i \in 1 .. Len(program) : t[i] = ExecStep(spent, made, t[i - 1], program[i])
    <2> TAKE i \in 1 .. Len(program)
    <2>1. t[i] = m /\ t[i - 1] = m
          BY <1>0
    <2> HIDE DEF t
    <2> QED BY <2>1 DEF ExecStep
  <1> HIDE DEF t
  <1>3. IsRun(t, spent, made, m, program)
        BY <1>1, <1>2 DEF IsRun
  <1> QED BY <1>0, <1>1, <1>3, ExecTrace

-----------------------------------------------------------------------------
(* One opcode *)

SplitAt(m, cut) == [Pops(m, 2, <<cut.got, cut.rest>>) EXCEPT !.ok = cut.ok]
WithAlt(m, a) == [m EXCEPT !.alt = Append(@, a)]

LEMMA DoLiteral ==
  ASSUME NEW m, NEW spent, NEW made
  PROVE  /\ Opcode(m, "OP_0", spent, made) = Pushes(m, MinimalScriptNumber(0))
         /\ Opcode(m, "OP_1", spent, made) = Pushes(m, MinimalScriptNumber(1))
         /\ Opcode(m, "x20", spent, made) = Pushes(m, MinimalScriptNumber(32))
         /\ Opcode(m, "x21", spent, made) = Pushes(m, MinimalScriptNumber(33))
         /\ Opcode(m, "x40", spent, made) = Pushes(m, MinimalScriptNumber(64))
  <1>1. DOMAIN Literal = {"OP_0", "OP_1", "x20", "x21", "x40"}
        BY DEF Literal
  <1>2. /\ Literal["OP_0"] = 0 /\ Literal["OP_1"] = 1 /\ Literal["x20"] = 32 /\ Literal["x21"] = 33 /\ Literal["x40"] = 64
        BY DEF Literal
  <1>3. ASSUME NEW op, op \in DOMAIN Literal
        PROVE  Opcode(m, op, spent, made) = Pushes(m, MinimalScriptNumber(Literal[op]))
        BY <1>1, <1>3 DEF Opcode
  <1> QED BY <1>1, <1>2, <1>3

LEMMA NotLiteral ==
  ASSUME NEW op, op \in DOMAIN Literal
  PROVE  op \in {"OP_0", "OP_1", "x20", "x21", "x40"}
  BY DEF Literal

LEMMA DoDepth ==
  ASSUME NEW m, NEW spent, NEW made
  PROVE  Opcode(m, "OP_DEPTH", spent, made)
         = Pushes(m, MinimalScriptNumber(Len(m.main)))
  <1>1. "OP_DEPTH" \notin DOMAIN Literal
        BY NotLiteral
  <1> QED BY <1>1 DEF Opcode

LEMMA DoSize ==
  ASSUME NEW m, NEW spent, NEW made
  PROVE  Opcode(m, "OP_SIZE", spent, made)
         = Pushes(m, MinimalScriptNumber(Length(Top(m, 1))))
  <1>1. "OP_SIZE" \notin DOMAIN Literal
        BY NotLiteral
  <1> QED BY <1>1 DEF Opcode

LEMMA DoEqualVerify ==
  ASSUME NEW m, NEW spent, NEW made
  PROVE  Opcode(m, "OP_EQUALVERIFY", spent, made)
         = Check(m, 2, Length(Top(m, 1)) = Length(Top(m, 2)) /\ Top(m, 1) = Top(m, 2))
  <1>1. "OP_EQUALVERIFY" \notin DOMAIN Literal
        BY NotLiteral
  <1> QED BY <1>1 DEF Opcode

LEMMA DoNumEqualVerify ==
  ASSUME NEW m, NEW spent, NEW made
  PROVE  Opcode(m, "OP_NUMEQUALVERIFY", spent, made)
         = Check(m, 2, Length(Top(m, 1)) = Length(Top(m, 2)) /\ Top(m, 1) = Top(m, 2))
  <1>1. "OP_NUMEQUALVERIFY" \notin DOMAIN Literal
        BY NotLiteral
  <1> QED BY <1>1 DEF Opcode

LEMMA DoAtMost ==
  ASSUME NEW m, NEW spent, NEW made
  PROVE  Opcode(m, "OP_LESSTHANOREQUAL", spent, made)
         = Pops(m, 2, <<Truth(FromLE(Top(m, 2)) <= FromLE(Top(m, 1)))>>)
  <1>1. "OP_LESSTHANOREQUAL" \notin DOMAIN Literal
        BY NotLiteral
  <1> QED BY <1>1 DEF Opcode

LEMMA DoVerify ==
  ASSUME NEW m, NEW spent, NEW made
  PROVE  Opcode(m, "OP_VERIFY", spent, made)
         = Check(m, 1, Top(m, 1) # False)
  <1>1. "OP_VERIFY" \notin DOMAIN Literal
        BY NotLiteral
  <1> QED BY <1>1 DEF Opcode

LEMMA DoDrop ==
  ASSUME NEW m, NEW spent, NEW made
  PROVE  Opcode(m, "OP_DROP", spent, made)
         = Pops(m, 1, <<>>)
  <1>1. "OP_DROP" \notin DOMAIN Literal
        BY NotLiteral
  <1> QED BY <1>1 DEF Opcode

LEMMA DoDup ==
  ASSUME NEW m, NEW spent, NEW made
  PROVE  Opcode(m, "OP_DUP", spent, made)
         = Pushes(m, Top(m, 1))
  <1>1. "OP_DUP" \notin DOMAIN Literal
        BY NotLiteral
  <1> QED BY <1>1 DEF Opcode

LEMMA DoSwap ==
  ASSUME NEW m, NEW spent, NEW made
  PROVE  Opcode(m, "OP_SWAP", spent, made)
         = Pops(m, 2, <<Top(m, 1), Top(m, 2)>>)
  <1>1. "OP_SWAP" \notin DOMAIN Literal
        BY NotLiteral
  <1> QED BY <1>1 DEF Opcode

LEMMA DoCat ==
  ASSUME NEW m, NEW spent, NEW made
  PROVE  Opcode(m, "OP_CAT", spent, made)
         = Pops(m, 2, <<Top(m, 2) \o Top(m, 1)>>)
  <1>1. "OP_CAT" \notin DOMAIN Literal
        BY NotLiteral
  <1> QED BY <1>1 DEF Opcode

LEMMA DoHash ==
  ASSUME NEW m, NEW spent, NEW made
  PROVE  Opcode(m, "OP_HASH256", spent, made)
         = Pops(m, 1, <<Hash256(Top(m, 1))>>)
  <1>1. "OP_HASH256" \notin DOMAIN Literal
        BY NotLiteral
  <1> QED BY <1>1 DEF Opcode

LEMMA DoHashChunk ==
  ASSUME NEW m, NEW spent, NEW made
  PROVE  Opcode(m, "hashChunk", spent, made)
         = Pops(m, 2, <<Hash256(Top(m, 2) \o Top(m, 1))>>)
  <1>1. "hashChunk" \notin DOMAIN Literal
        BY NotLiteral
  <1> QED BY <1>1 DEF Opcode

LEMMA DoSplit ==
  ASSUME NEW m, NEW spent, NEW made
  PROVE  Opcode(m, "OP_SPLIT", spent, made)
         = SplitAt(m, Take(Reader(Top(m, 2)), FromLE(Top(m, 1))))
  <1>1. "OP_SPLIT" \notin DOMAIN Literal
        BY NotLiteral
  <1> QED BY <1>1 DEF Opcode, SplitAt

LEMMA DoToAlt ==
  ASSUME NEW m, NEW spent, NEW made
  PROVE  Opcode(m, "OP_TOALTSTACK", spent, made)
         = WithAlt(Pops(m, 1, <<>>), Top(m, 1))
  <1>1. "OP_TOALTSTACK" \notin DOMAIN Literal
        BY NotLiteral
  <1> QED BY <1>1 DEF Opcode, WithAlt

LEMMA DoFromAlt ==
  ASSUME NEW m, NEW spent, NEW made
  PROVE  Opcode(m, "OP_FROMALTSTACK", spent, made)
         = IF m.alt = <<>> THEN [m EXCEPT !.ok = FALSE]
            ELSE [Pushes(m, m.alt[Len(m.alt)]) EXCEPT !.alt = SubSeq(@, 1, Len(@) - 1)]
  <1>1. "OP_FROMALTSTACK" \notin DOMAIN Literal
        BY NotLiteral
  <1> QED BY <1>1 DEF Opcode

LEMMA DoSpentCategory ==
  ASSUME NEW m, NEW spent, NEW made
  PROVE  Opcode(m, "OP_UTXOTOKENCATEGORY", spent, made)
         = Pops(m, 1, <<TokenCategory(spent)>>)
  <1>1. "OP_UTXOTOKENCATEGORY" \notin DOMAIN Literal
        BY NotLiteral
  <1> QED BY <1>1 DEF Opcode

LEMMA DoSpentCommitment ==
  ASSUME NEW m, NEW spent, NEW made
  PROVE  Opcode(m, "OP_UTXOTOKENCOMMITMENT", spent, made)
         = Pops(m, 1, <<spent.commitment>>)
  <1>1. "OP_UTXOTOKENCOMMITMENT" \notin DOMAIN Literal
        BY NotLiteral
  <1> QED BY <1>1 DEF Opcode

LEMMA DoMadeCategory ==
  ASSUME NEW m, NEW spent, NEW made
  PROVE  Opcode(m, "OP_OUTPUTTOKENCATEGORY", spent, made)
         = Pops(m, 1, <<TokenCategory(made)>>)
  <1>1. "OP_OUTPUTTOKENCATEGORY" \notin DOMAIN Literal
        BY NotLiteral
  <1> QED BY <1>1 DEF Opcode

LEMMA DoMadeCommitment ==
  ASSUME NEW m, NEW spent, NEW made
  PROVE  Opcode(m, "OP_OUTPUTTOKENCOMMITMENT", spent, made)
         = Pops(m, 1, <<made.commitment>>)
  <1>1. "OP_OUTPUTTOKENCOMMITMENT" \notin DOMAIN Literal
        BY NotLiteral
  <1> QED BY <1>1 DEF Opcode

-----------------------------------------------------------------------------
(* Stacks: tops last *)

Put(s, x) == Append(s, x)
St(main, alt) == [main |-> main, alt |-> alt, ok |-> Yes]
Halted(main, alt, ok) == [main |-> main, alt |-> alt, ok |-> ok]

(* An item put on a stack *)
LEMMA PutIs ==
  ASSUME NEW s, List(s), NEW x
  PROVE  List(Put(s, x)) /\ Len(Put(s, x)) = Len(s) + 1 /\ Put(s, x)[Len(s) + 1] = x /\ Len(s) \in Nat
  BY AppendIs DEF Put, List

(* ... and taken off again *)
LEMMA PopIs ==
  ASSUME NEW s, List(s), NEW x
  PROVE  SubSeq(Put(s, x), 1, Len(s)) = s /\ s \o <<>> = s /\ s \o <<x>> = Put(s, x)
  <1> PICK n \in Nat : n = Len(s)
      BY DEF List
  <1> DEFINE S == {s[i] : i \in 1 .. Len(s)} \cup {x}
  <1>1. s \in Seq(S) /\ x \in S
        BY ListInto
  <1> HIDE DEF S
  <1>2. SubSeq(Put(s, x), 1, n) = s
        BY <1>1 DEF Put
  <1>3. s \o <<>> = s /\ s \o <<x>> = Append(s, x)
        BY <1>1
  <1> QED BY <1>2, <1>3 DEF Put

(* Two items put on a stack *)
LEMMA JoinTwo ==
  ASSUME NEW s, List(s), NEW x, NEW y
  PROVE  s \o <<x, y>> = Put(Put(s, x), y)
  <1> DEFINE S == {s[i] : i \in 1 .. Len(s)} \cup {x, y}
  <1>1. s \in Seq(S) /\ x \in S /\ y \in S
        BY ListInto
  <1> HIDE DEF S
  <1>2. s \o <<x, y>> = Append(Append(s, x), y)
        BY <1>1
  <1> QED BY <1>2 DEF Put

(* The fields of a machine that goes on *)
LEMMA StIs ==
  ASSUME NEW main, NEW alt
  PROVE  /\ St(main, alt).main = main /\ St(main, alt).alt = alt /\ St(main, alt).ok
         /\ \A new : [St(main, alt) EXCEPT !.main = new] = St(new, alt)
         /\ \A new : [St(main, alt) EXCEPT !.alt = new] = St(main, new)
         /\ \A new : [St(main, alt) EXCEPT !.ok = new] = Halted(main, alt, new)
  <1>1. Yes
        BY DEF Yes
  <1>2. St(main, alt).main = main /\ St(main, alt).alt = alt /\ St(main, alt).ok
        BY <1>1 DEF St
  <1>3. ASSUME NEW new PROVE [St(main, alt) EXCEPT !.main = new] = St(new, alt)
        BY DEF St
  <1>4. ASSUME NEW new PROVE [St(main, alt) EXCEPT !.alt = new] = St(main, new)
        BY DEF St
  <1>5. ASSUME NEW new PROVE [St(main, alt) EXCEPT !.ok = new] = Halted(main, alt, new)
        BY DEF St, Halted
  <1> QED BY <1>2, <1>3, <1>4, <1>5

(* ... and of one that may have stopped *)
LEMMA HaltedIs ==
  ASSUME NEW main, NEW alt, NEW ok
  PROVE  /\ Halted(main, alt, ok).ok = ok /\ Halted(main, alt, ok).main = main /\ Halted(main, alt, ok).alt = alt
         /\ Halted(main, alt, TRUE) = St(main, alt)
  BY DEF Halted, St, Yes

WithMain(m, new) == [m EXCEPT !.main = new]

(* A machine with another main stack *)
LEMMA WithMainIs ==
  ASSUME NEW main, NEW alt, NEW new
  PROVE  WithMain(St(main, alt), new) = St(new, alt)
  BY DEF WithMain, St

(* A machine with one item more *)
LEMMA PushIs ==
  ASSUME NEW s, NEW alt, NEW x
  PROVE  Pushes(St(s, alt), x) = St(Put(s, x), alt)
  BY DEF Pushes, Put, St

PopsOne(m, k, x) == Pops(m, k, <<x>>)
PopsTwo(m, k, x, y) == Pops(m, k, <<x, y>>)

(* One item of the stack taken, or replaced by another *)
LEMMA OneUp ==
  ASSUME NEW s, List(s), NEW a, NEW alt, NEW m, m = St(Put(s, a), alt)
  PROVE  /\ Len(m.main) = Len(s) + 1 /\ m.ok /\ Top(m, 1) = a
         /\ \A x : Pushes(m, x) = St(Put(Put(s, a), x), alt)
         /\ Pops(m, 1, <<>>) = St(s, alt)
         /\ \A x : PopsOne(m, 1, x) = St(Put(s, x), alt)
         /\ \A holds : Check(m, 1, holds) = Halted(s, alt, holds)
  <1> PICK n \in Nat : n = Len(s)
      BY DEF List
  <1> PICK main : main = Put(s, a)
      OBVIOUS
  <1>1. m.main = main /\ m.ok
        BY StIs
  <1>2. List(main) /\ Len(main) = n + 1 /\ main[n + 1] = a
        BY PutIs
  <1>3. Top(m, 1) = a
    <2>1. Len(main) + 1 - 1 = n + 1
          BY <1>2
    <2> QED BY <1>1, <1>2, <2>1 DEF Top
  <1>4. Popped(m, 1) = s
    <2>1. Len(main) - 1 = n
          BY <1>2
    <2>2. SubSeq(main, 1, n) = s
          BY PopIs
    <2> QED BY <1>1, <2>1, <2>2 DEF Popped
  <1>5. ASSUME NEW x PROVE Pushes(m, x) = St(Put(main, x), alt)
    <2>1. Pushes(m, x) = Pushes(St(main, alt), x)
          OBVIOUS
    <2> QED BY <2>1, PushIs
  <1>6. Pops(m, 1, <<>>) = St(s, alt)
    <2>1. Pops(m, 1, <<>>) = [m EXCEPT !.main = s \o <<>>]
          BY <1>4, Zenon DEF Pops
    <2> QED BY <2>1, StIs, PopIs
  <1>7. ASSUME NEW x PROVE PopsOne(m, 1, x) = St(Put(s, x), alt)
    <2>1. PopsOne(m, 1, x) = [m EXCEPT !.main = s \o <<x>>]
          BY <1>4, Zenon DEF Pops, PopsOne
    <2>2. s \o <<x>> = Put(s, x)
          BY PopIs
    <2> QED BY <2>1, <2>2, StIs
  <1>8. ASSUME NEW holds PROVE Check(m, 1, holds) = Halted(s, alt, holds)
    <2>1. Check(m, 1, holds) = [m EXCEPT !.main = s, !.ok = holds]
          BY <1>4, Zenon DEF Check
    <2> QED BY <2>1 DEF St, Halted
  <1> QED BY <1>1, <1>2, <1>3, <1>5, <1>6, <1>7, <1>8

(* Two items of the stack taken, or replaced by others *)
LEMMA TwoUp ==
  ASSUME NEW s, List(s), NEW b, NEW a, NEW alt, NEW m, m = St(Put(Put(s, b), a), alt)
  PROVE  /\ Len(m.main) = Len(s) + 2 /\ m.ok /\ Top(m, 1) = a /\ Top(m, 2) = b
         /\ \A x : PopsOne(m, 2, x) = St(Put(s, x), alt)
         /\ \A x, y : PopsTwo(m, 2, x, y) = St(Put(Put(s, x), y), alt)
         /\ \A holds : Check(m, 2, holds) = Halted(s, alt, holds)
  <1> PICK n \in Nat : n = Len(s)
      BY DEF List
  <1> PICK one : one = Put(s, b)
      OBVIOUS
  <1> PICK main : main = Put(one, a)
      OBVIOUS
  <1>1. m.main = main /\ m.ok
        BY StIs
  <1>2. List(one) /\ Len(one) = n + 1 /\ one[n + 1] = b
        BY PutIs
  <1>3. List(main) /\ Len(main) = n + 2 /\ main[n + 2] = a /\ main[n + 1] = b
    <2>1. List(main) /\ Len(main) = n + 1 + 1 /\ main[n + 1 + 1] = a
          BY <1>2, PutIs
    <2>2. n + 1 \in 1 .. Len(one)
          BY <1>2
    <2>3. main[n + 1] = one[n + 1]
          BY <1>2, <2>2, AppendIs DEF Put
    <2> QED BY <1>2, <2>1, <2>3
  <1>4. Top(m, 1) = a /\ Top(m, 2) = b
    <2>1. Len(main) + 1 - 1 = n + 2 /\ Len(main) + 1 - 2 = n + 1
          BY <1>3
    <2> QED BY <1>1, <1>3, <2>1 DEF Top
  <1>5. Popped(m, 2) = s
    <2>1. Len(main) - 2 = n
          BY <1>3
    <2>2. SubSeq(main, 1, n) = s
      <3> DEFINE S == {s[i] : i \in 1 .. Len(s)} \cup {a, b}
      <3>1. s \in Seq(S) /\ a \in S /\ b \in S
            BY ListInto
      <3> HIDE DEF S
      <3>2. main = Append(Append(s, b), a)
            BY DEF Put
      <3> QED BY <3>1, <3>2
    <2> QED BY <1>1, <2>1, <2>2 DEF Popped
  <1>6. ASSUME NEW x PROVE PopsOne(m, 2, x) = St(Put(s, x), alt)
    <2>1. PopsOne(m, 2, x) = [m EXCEPT !.main = s \o <<x>>]
          BY <1>5, Zenon DEF Pops, PopsOne
    <2>2. s \o <<x>> = Put(s, x)
          BY PopIs
    <2> QED BY <2>1, <2>2, StIs, SMTT(30)
  <1>7. ASSUME NEW x, NEW y PROVE PopsTwo(m, 2, x, y) = St(Put(Put(s, x), y), alt)
    <2>1. PopsTwo(m, 2, x, y) = [m EXCEPT !.main = s \o <<x, y>>]
          BY <1>5, Zenon DEF Pops, PopsTwo
    <2>2. s \o <<x, y>> = Put(Put(s, x), y)
          BY JoinTwo
    <2>3. PopsTwo(m, 2, x, y) = WithMain(m, s \o <<x, y>>)
          BY <2>1, Zenon DEF WithMain
    <2>4. WithMain(m, s \o <<x, y>>) = St(s \o <<x, y>>, alt)
          BY WithMainIs, Zenon
    <2> QED BY <2>2, <2>3, <2>4, Zenon
  <1>8. ASSUME NEW holds PROVE Check(m, 2, holds) = Halted(s, alt, holds)
    <2>1. Check(m, 2, holds) = [m EXCEPT !.main = s, !.ok = holds]
          BY <1>5, Zenon DEF Check
    <2> QED BY <2>1 DEF St, Halted
  <1> QED BY <1>1, <1>3, <1>4, <1>6, <1>7, <1>8

(* What each opcode takes *)
LEMMA TakesIs ==
  /\ DOMAIN Takes = {"OP_SIZE", "OP_EQUALVERIFY", "OP_NUMEQUALVERIFY", "OP_DROP", "OP_DUP", "OP_SWAP",
                     "OP_CAT", "OP_HASH256", "OP_TOALTSTACK", "OP_LESSTHANOREQUAL", "OP_VERIFY", "OP_SPLIT",
                     "OP_UTXOTOKENCATEGORY", "OP_UTXOTOKENCOMMITMENT", "OP_OUTPUTTOKENCATEGORY",
                     "OP_OUTPUTTOKENCOMMITMENT", "hashChunk"}
  /\ \A op \in {"OP_SIZE", "OP_DROP", "OP_DUP", "OP_HASH256", "OP_TOALTSTACK", "OP_VERIFY", "OP_UTXOTOKENCATEGORY",
                "OP_UTXOTOKENCOMMITMENT", "OP_OUTPUTTOKENCATEGORY", "OP_OUTPUTTOKENCOMMITMENT"} : Takes[op] = 1
  /\ \A op \in {"OP_EQUALVERIFY", "OP_NUMEQUALVERIFY", "OP_SWAP", "OP_CAT", "OP_LESSTHANOREQUAL", "OP_SPLIT",
                "hashChunk"} : Takes[op] = 2
  BY DEF Takes

NeedsNone == {"OP_0", "OP_1", "x20", "x21", "x40", "OP_DEPTH", "OP_FROMALTSTACK"}
NeedsOne == {"OP_SIZE", "OP_DROP", "OP_DUP", "OP_HASH256", "OP_TOALTSTACK", "OP_VERIFY", "OP_UTXOTOKENCATEGORY",
             "OP_UTXOTOKENCOMMITMENT", "OP_OUTPUTTOKENCATEGORY", "OP_OUTPUTTOKENCOMMITMENT"}
NeedsTwo == {"OP_EQUALVERIFY", "OP_NUMEQUALVERIFY", "OP_SWAP", "OP_CAT", "OP_LESSTHANOREQUAL", "OP_SPLIT", "hashChunk"}

(* With enough on the stack, the opcode is done *)
LEMMA DoneWithNone ==
  ASSUME NEW spent, NEW made, NEW m, m.ok, NEW op \in NeedsNone
  PROVE  ExecStep(spent, made, m, op) = Opcode(m, op, spent, made)
  BY TakesIs DEF ExecStep, NeedsNone

(* An opcode that needs one item is done when there is one *)
LEMMA DoneWithOne ==
  ASSUME NEW spent, NEW made, NEW m, m.ok, NEW op \in NeedsOne, Len(m.main) \in Nat, Len(m.main) >= 1
  PROVE  ExecStep(spent, made, m, op) = Opcode(m, op, spent, made)
  BY TakesIs DEF ExecStep, NeedsOne

(* An opcode that needs two items is done when there are two *)
LEMMA DoneWithTwo ==
  ASSUME NEW spent, NEW made, NEW m, m.ok, NEW op \in NeedsTwo, Len(m.main) \in Nat, Len(m.main) >= 2
  PROVE  ExecStep(spent, made, m, op) = Opcode(m, op, spent, made)
  BY TakesIs DEF ExecStep, NeedsTwo

-----------------------------------------------------------------------------
(* Each opcode on a stack *)

LEMMA On_OP_0 ==
  ASSUME NEW spent, NEW made, NEW s, NEW alt
  PROVE  ExecStep(spent, made, St(s, alt), "OP_0") = St(Put(s, MinimalScriptNumber(0)), alt)
  <1> PICK m : m = St(s, alt)
      OBVIOUS
  <1>1. m.ok
        BY StIs
  <1>2. "OP_0" \in NeedsNone
        BY DEF NeedsNone
  <1>3. ExecStep(spent, made, m, "OP_0") = Opcode(m, "OP_0", spent, made)
        BY <1>1, <1>2, DoneWithNone
  <1> QED BY <1>3, DoLiteral, PushIs

LEMMA On_OP_1 ==
  ASSUME NEW spent, NEW made, NEW s, NEW alt
  PROVE  ExecStep(spent, made, St(s, alt), "OP_1") = St(Put(s, MinimalScriptNumber(1)), alt)
  <1> PICK m : m = St(s, alt)
      OBVIOUS
  <1>1. m.ok
        BY StIs
  <1>2. "OP_1" \in NeedsNone
        BY DEF NeedsNone
  <1>3. ExecStep(spent, made, m, "OP_1") = Opcode(m, "OP_1", spent, made)
        BY <1>1, <1>2, DoneWithNone
  <1> QED BY <1>3, DoLiteral, PushIs

LEMMA On_x20 ==
  ASSUME NEW spent, NEW made, NEW s, NEW alt
  PROVE  ExecStep(spent, made, St(s, alt), "x20") = St(Put(s, MinimalScriptNumber(32)), alt)
  <1> PICK m : m = St(s, alt)
      OBVIOUS
  <1>1. m.ok
        BY StIs
  <1>2. "x20" \in NeedsNone
        BY DEF NeedsNone
  <1>3. ExecStep(spent, made, m, "x20") = Opcode(m, "x20", spent, made)
        BY <1>1, <1>2, DoneWithNone
  <1> QED BY <1>3, DoLiteral, PushIs

LEMMA On_x21 ==
  ASSUME NEW spent, NEW made, NEW s, NEW alt
  PROVE  ExecStep(spent, made, St(s, alt), "x21") = St(Put(s, MinimalScriptNumber(33)), alt)
  <1> PICK m : m = St(s, alt)
      OBVIOUS
  <1>1. m.ok
        BY StIs
  <1>2. "x21" \in NeedsNone
        BY DEF NeedsNone
  <1>3. ExecStep(spent, made, m, "x21") = Opcode(m, "x21", spent, made)
        BY <1>1, <1>2, DoneWithNone
  <1> QED BY <1>3, DoLiteral, PushIs

LEMMA On_x40 ==
  ASSUME NEW spent, NEW made, NEW s, NEW alt
  PROVE  ExecStep(spent, made, St(s, alt), "x40") = St(Put(s, MinimalScriptNumber(64)), alt)
  <1> PICK m : m = St(s, alt)
      OBVIOUS
  <1>1. m.ok
        BY StIs
  <1>2. "x40" \in NeedsNone
        BY DEF NeedsNone
  <1>3. ExecStep(spent, made, m, "x40") = Opcode(m, "x40", spent, made)
        BY <1>1, <1>2, DoneWithNone
  <1> QED BY <1>3, DoLiteral, PushIs

LEMMA OnDepth ==
  ASSUME NEW spent, NEW made, NEW s, NEW alt
  PROVE  ExecStep(spent, made, St(s, alt), "OP_DEPTH") = St(Put(s, MinimalScriptNumber(Len(s))), alt)
  <1> PICK m : m = St(s, alt)
      OBVIOUS
  <1>1. m.ok /\ m.main = s
        BY StIs
  <1>2. "OP_DEPTH" \in NeedsNone
        BY DEF NeedsNone
  <1>3. ExecStep(spent, made, m, "OP_DEPTH") = Opcode(m, "OP_DEPTH", spent, made)
        BY <1>1, <1>2, DoneWithNone
  <1> QED BY <1>1, <1>3, DoDepth, PushIs

LEMMA OnSize ==
  ASSUME NEW spent, NEW made, NEW s, List(s), NEW a, NEW alt
  PROVE  ExecStep(spent, made, St(Put(s, a), alt), "OP_SIZE") = St(Put(Put(s, a), MinimalScriptNumber(Length(a))), alt)
  <1> PICK m : m = St(Put(s, a), alt)
      OBVIOUS
  <1>1. Len(s) \in Nat /\ Len(m.main) = Len(s) + 1 /\ m.ok
        BY PutIs, OneUp
  <1>2. "OP_SIZE" \in NeedsOne /\ Len(m.main) \in Nat /\ Len(m.main) >= 1
        BY <1>1 DEF NeedsOne
  <1>3. ExecStep(spent, made, m, "OP_SIZE") = Opcode(m, "OP_SIZE", spent, made)
        BY <1>1, <1>2, DoneWithOne
  <1> QED BY <1>3, DoSize, OneUp

LEMMA OnVerify ==
  ASSUME NEW spent, NEW made, NEW s, List(s), NEW a, NEW alt
  PROVE  ExecStep(spent, made, St(Put(s, a), alt), "OP_VERIFY") = Halted(s, alt, a # False)
  <1> PICK m : m = St(Put(s, a), alt)
      OBVIOUS
  <1>1. Len(s) \in Nat /\ Len(m.main) = Len(s) + 1 /\ m.ok
        BY PutIs, OneUp
  <1>2. "OP_VERIFY" \in NeedsOne /\ Len(m.main) \in Nat /\ Len(m.main) >= 1
        BY <1>1 DEF NeedsOne
  <1>3. ExecStep(spent, made, m, "OP_VERIFY") = Opcode(m, "OP_VERIFY", spent, made)
        BY <1>1, <1>2, DoneWithOne
  <1> QED BY <1>3, DoVerify, OneUp

LEMMA OnDrop ==
  ASSUME NEW spent, NEW made, NEW s, List(s), NEW a, NEW alt
  PROVE  ExecStep(spent, made, St(Put(s, a), alt), "OP_DROP") = St(s, alt)
  <1> PICK m : m = St(Put(s, a), alt)
      OBVIOUS
  <1>1. Len(s) \in Nat /\ Len(m.main) = Len(s) + 1 /\ m.ok
        BY PutIs, OneUp
  <1>2. "OP_DROP" \in NeedsOne /\ Len(m.main) \in Nat /\ Len(m.main) >= 1
        BY <1>1 DEF NeedsOne
  <1>3. ExecStep(spent, made, m, "OP_DROP") = Opcode(m, "OP_DROP", spent, made)
        BY <1>1, <1>2, DoneWithOne
  <1> QED BY <1>3, DoDrop, OneUp

LEMMA OnDup ==
  ASSUME NEW spent, NEW made, NEW s, List(s), NEW a, NEW alt
  PROVE  ExecStep(spent, made, St(Put(s, a), alt), "OP_DUP") = St(Put(Put(s, a), a), alt)
  <1> PICK m : m = St(Put(s, a), alt)
      OBVIOUS
  <1>1. Len(s) \in Nat /\ Len(m.main) = Len(s) + 1 /\ m.ok
        BY PutIs, OneUp
  <1>2. "OP_DUP" \in NeedsOne /\ Len(m.main) \in Nat /\ Len(m.main) >= 1
        BY <1>1 DEF NeedsOne
  <1>3. ExecStep(spent, made, m, "OP_DUP") = Opcode(m, "OP_DUP", spent, made)
        BY <1>1, <1>2, DoneWithOne
  <1> QED BY <1>3, DoDup, OneUp

LEMMA OnHash ==
  ASSUME NEW spent, NEW made, NEW s, List(s), NEW a, NEW alt
  PROVE  ExecStep(spent, made, St(Put(s, a), alt), "OP_HASH256") = St(Put(s, Hash256(a)), alt)
  <1> PICK m : m = St(Put(s, a), alt)
      OBVIOUS
  <1>1. Len(s) \in Nat /\ Len(m.main) = Len(s) + 1 /\ m.ok
        BY PutIs, OneUp
  <1>2. "OP_HASH256" \in NeedsOne /\ Len(m.main) \in Nat /\ Len(m.main) >= 1
        BY <1>1 DEF NeedsOne
  <1>3. ExecStep(spent, made, m, "OP_HASH256") = Opcode(m, "OP_HASH256", spent, made)
        BY <1>1, <1>2, DoneWithOne
  <1>4. Top(m, 1) = a
        BY OneUp
  <1>5. Opcode(m, "OP_HASH256", spent, made) = PopsOne(m, 1, Hash256(a))
        BY <1>4, DoHash, Zenon DEF PopsOne
  <1>6. PopsOne(m, 1, Hash256(a)) = St(Put(s, Hash256(a)), alt)
        BY OneUp
  <1> QED BY <1>3, <1>5, <1>6, Zenon

LEMMA OnSpentCategory ==
  ASSUME NEW spent, NEW made, NEW s, List(s), NEW a, NEW alt
  PROVE  ExecStep(spent, made, St(Put(s, a), alt), "OP_UTXOTOKENCATEGORY") = St(Put(s, TokenCategory(spent)), alt)
  <1> PICK m : m = St(Put(s, a), alt)
      OBVIOUS
  <1>1. Len(s) \in Nat /\ Len(m.main) = Len(s) + 1 /\ m.ok
        BY PutIs, OneUp
  <1>2. "OP_UTXOTOKENCATEGORY" \in NeedsOne /\ Len(m.main) \in Nat /\ Len(m.main) >= 1
        BY <1>1 DEF NeedsOne
  <1>3. ExecStep(spent, made, m, "OP_UTXOTOKENCATEGORY") = Opcode(m, "OP_UTXOTOKENCATEGORY", spent, made)
        BY <1>1, <1>2, DoneWithOne
  <1>4. Top(m, 1) = a
        BY OneUp
  <1>5. Opcode(m, "OP_UTXOTOKENCATEGORY", spent, made) = PopsOne(m, 1, TokenCategory(spent))
        BY <1>4, DoSpentCategory, Zenon DEF PopsOne
  <1>6. PopsOne(m, 1, TokenCategory(spent)) = St(Put(s, TokenCategory(spent)), alt)
        BY OneUp
  <1> QED BY <1>3, <1>5, <1>6, Zenon

LEMMA OnSpentCommitment ==
  ASSUME NEW spent, NEW made, NEW s, List(s), NEW a, NEW alt
  PROVE  ExecStep(spent, made, St(Put(s, a), alt), "OP_UTXOTOKENCOMMITMENT") = St(Put(s, spent.commitment), alt)
  <1> PICK m : m = St(Put(s, a), alt)
      OBVIOUS
  <1>1. Len(s) \in Nat /\ Len(m.main) = Len(s) + 1 /\ m.ok
        BY PutIs, OneUp
  <1>2. "OP_UTXOTOKENCOMMITMENT" \in NeedsOne /\ Len(m.main) \in Nat /\ Len(m.main) >= 1
        BY <1>1 DEF NeedsOne
  <1>3. ExecStep(spent, made, m, "OP_UTXOTOKENCOMMITMENT") = Opcode(m, "OP_UTXOTOKENCOMMITMENT", spent, made)
        BY <1>1, <1>2, DoneWithOne
  <1>4. Top(m, 1) = a
        BY OneUp
  <1>5. Opcode(m, "OP_UTXOTOKENCOMMITMENT", spent, made) = PopsOne(m, 1, spent.commitment)
        BY <1>4, DoSpentCommitment, Zenon DEF PopsOne
  <1>6. PopsOne(m, 1, spent.commitment) = St(Put(s, spent.commitment), alt)
        BY OneUp
  <1> QED BY <1>3, <1>5, <1>6, Zenon

LEMMA OnMadeCategory ==
  ASSUME NEW spent, NEW made, NEW s, List(s), NEW a, NEW alt
  PROVE  ExecStep(spent, made, St(Put(s, a), alt), "OP_OUTPUTTOKENCATEGORY") = St(Put(s, TokenCategory(made)), alt)
  <1> PICK m : m = St(Put(s, a), alt)
      OBVIOUS
  <1>1. Len(s) \in Nat /\ Len(m.main) = Len(s) + 1 /\ m.ok
        BY PutIs, OneUp
  <1>2. "OP_OUTPUTTOKENCATEGORY" \in NeedsOne /\ Len(m.main) \in Nat /\ Len(m.main) >= 1
        BY <1>1 DEF NeedsOne
  <1>3. ExecStep(spent, made, m, "OP_OUTPUTTOKENCATEGORY") = Opcode(m, "OP_OUTPUTTOKENCATEGORY", spent, made)
        BY <1>1, <1>2, DoneWithOne
  <1>4. Top(m, 1) = a
        BY OneUp
  <1>5. Opcode(m, "OP_OUTPUTTOKENCATEGORY", spent, made) = PopsOne(m, 1, TokenCategory(made))
        BY <1>4, DoMadeCategory, Zenon DEF PopsOne
  <1>6. PopsOne(m, 1, TokenCategory(made)) = St(Put(s, TokenCategory(made)), alt)
        BY OneUp
  <1> QED BY <1>3, <1>5, <1>6, Zenon

LEMMA OnMadeCommitment ==
  ASSUME NEW spent, NEW made, NEW s, List(s), NEW a, NEW alt
  PROVE  ExecStep(spent, made, St(Put(s, a), alt), "OP_OUTPUTTOKENCOMMITMENT") = St(Put(s, made.commitment), alt)
  <1> PICK m : m = St(Put(s, a), alt)
      OBVIOUS
  <1>1. Len(s) \in Nat /\ Len(m.main) = Len(s) + 1 /\ m.ok
        BY PutIs, OneUp
  <1>2. "OP_OUTPUTTOKENCOMMITMENT" \in NeedsOne /\ Len(m.main) \in Nat /\ Len(m.main) >= 1
        BY <1>1 DEF NeedsOne
  <1>3. ExecStep(spent, made, m, "OP_OUTPUTTOKENCOMMITMENT") = Opcode(m, "OP_OUTPUTTOKENCOMMITMENT", spent, made)
        BY <1>1, <1>2, DoneWithOne
  <1>4. Top(m, 1) = a
        BY OneUp
  <1>5. Opcode(m, "OP_OUTPUTTOKENCOMMITMENT", spent, made) = PopsOne(m, 1, made.commitment)
        BY <1>4, DoMadeCommitment, Zenon DEF PopsOne
  <1>6. PopsOne(m, 1, made.commitment) = St(Put(s, made.commitment), alt)
        BY OneUp
  <1> QED BY <1>3, <1>5, <1>6, Zenon

(* A machine with one item more on its other stack *)
LEMMA WithAltIs ==
  ASSUME NEW s, NEW alt, NEW a
  PROVE  WithAlt(St(s, alt), a) = St(s, Put(alt, a))
  <1>1. WithAlt(St(s, alt), a) = [main |-> s, alt |-> Append(alt, a), ok |-> Yes]
        BY DEF WithAlt, St
  <1> QED BY <1>1, Zenon DEF St, Put

LEMMA OnToAlt ==
  ASSUME NEW spent, NEW made, NEW s, List(s), NEW a, NEW alt
  PROVE  ExecStep(spent, made, St(Put(s, a), alt), "OP_TOALTSTACK") = St(s, Put(alt, a))
  <1> PICK m : m = St(Put(s, a), alt)
      OBVIOUS
  <1>1. Len(s) \in Nat /\ Len(m.main) = Len(s) + 1 /\ m.ok
        BY PutIs, OneUp
  <1>2. "OP_TOALTSTACK" \in NeedsOne /\ Len(m.main) \in Nat /\ Len(m.main) >= 1
        BY <1>1 DEF NeedsOne
  <1>3. ExecStep(spent, made, m, "OP_TOALTSTACK") = Opcode(m, "OP_TOALTSTACK", spent, made)
        BY <1>1, <1>2, DoneWithOne
  <1>4. Opcode(m, "OP_TOALTSTACK", spent, made) = WithAlt(Pops(m, 1, <<>>), Top(m, 1))
        BY DoToAlt
  <1>5. Pops(m, 1, <<>>) = St(s, alt) /\ Top(m, 1) = a
        BY OneUp
  <1>6. WithAlt(St(s, alt), a) = St(s, Put(alt, a))
        BY WithAltIs
  <1> QED BY <1>3, <1>4, <1>5, <1>6

LEMMA OnFromAlt ==
  ASSUME NEW spent, NEW made, NEW s, NEW a, NEW alt, List(alt)
  PROVE  ExecStep(spent, made, St(s, Put(alt, a)), "OP_FROMALTSTACK") = St(Put(s, a), alt)
  <1> PICK both : both = Put(alt, a)
      OBVIOUS
  <1> PICK m : m = St(s, both)
      OBVIOUS
  <1>1. m.ok /\ m.alt = both /\ m.main = s
        BY StIs
  <1>2. "OP_FROMALTSTACK" \in NeedsNone
        BY DEF NeedsNone
  <1>3. ExecStep(spent, made, m, "OP_FROMALTSTACK") = Opcode(m, "OP_FROMALTSTACK", spent, made)
        BY <1>1, <1>2, DoneWithNone
  <1>4. Len(both) = Len(alt) + 1 /\ both[Len(alt) + 1] = a /\ Len(alt) \in Nat
        BY PutIs
  <1>5. both # <<>>
        BY <1>4, ShortLists
  <1>6. both[Len(both)] = a
        BY <1>4
  <1>7. SubSeq(both, 1, Len(both) - 1) = alt
    <2>1. Len(both) - 1 = Len(alt)
          BY <1>4
    <2> QED BY <2>1, PopIs
  <1>8. Opcode(m, "OP_FROMALTSTACK", spent, made)
        = [Pushes(m, m.alt[Len(m.alt)]) EXCEPT !.alt = SubSeq(@, 1, Len(@) - 1)]
        BY <1>1, <1>5, DoFromAlt
  <1>9. Pushes(m, m.alt[Len(m.alt)]) = St(Put(s, a), both)
        BY <1>1, <1>6, PushIs
  <1>10. [St(Put(s, a), both) EXCEPT !.alt = SubSeq(@, 1, Len(@) - 1)] = St(Put(s, a), SubSeq(both, 1, Len(both) - 1))
         BY SMTT(30) DEF St
  <1> QED BY <1>3, <1>7, <1>8, <1>9, <1>10

LEMMA OnEqualVerify ==
  ASSUME NEW spent, NEW made, NEW s, List(s), NEW b, NEW a, NEW alt
  PROVE  ExecStep(spent, made, St(Put(Put(s, b), a), alt), "OP_EQUALVERIFY") = Halted(s, alt, Length(a) = Length(b) /\ a = b)
  <1> PICK m : m = St(Put(Put(s, b), a), alt)
      OBVIOUS
  <1>1. Len(s) \in Nat /\ Len(m.main) = Len(s) + 2 /\ m.ok
        BY PutIs, TwoUp
  <1>2. "OP_EQUALVERIFY" \in NeedsTwo /\ Len(m.main) \in Nat /\ Len(m.main) >= 2
        BY <1>1 DEF NeedsTwo
  <1>3. ExecStep(spent, made, m, "OP_EQUALVERIFY") = Opcode(m, "OP_EQUALVERIFY", spent, made)
        BY <1>1, <1>2, DoneWithTwo
  <1> QED BY <1>3, DoEqualVerify, TwoUp

LEMMA OnNumEqualVerify ==
  ASSUME NEW spent, NEW made, NEW s, List(s), NEW b, NEW a, NEW alt
  PROVE  ExecStep(spent, made, St(Put(Put(s, b), a), alt), "OP_NUMEQUALVERIFY") = Halted(s, alt, Length(a) = Length(b) /\ a = b)
  <1> PICK m : m = St(Put(Put(s, b), a), alt)
      OBVIOUS
  <1>1. Len(s) \in Nat /\ Len(m.main) = Len(s) + 2 /\ m.ok
        BY PutIs, TwoUp
  <1>2. "OP_NUMEQUALVERIFY" \in NeedsTwo /\ Len(m.main) \in Nat /\ Len(m.main) >= 2
        BY <1>1 DEF NeedsTwo
  <1>3. ExecStep(spent, made, m, "OP_NUMEQUALVERIFY") = Opcode(m, "OP_NUMEQUALVERIFY", spent, made)
        BY <1>1, <1>2, DoneWithTwo
  <1> QED BY <1>3, DoNumEqualVerify, TwoUp

LEMMA OnAtMost ==
  ASSUME NEW spent, NEW made, NEW s, List(s), NEW b, NEW a, NEW alt
  PROVE  ExecStep(spent, made, St(Put(Put(s, b), a), alt), "OP_LESSTHANOREQUAL") = St(Put(s, Truth(FromLE(b) <= FromLE(a))), alt)
  <1> PICK m : m = St(Put(Put(s, b), a), alt)
      OBVIOUS
  <1>1. Len(s) \in Nat /\ Len(m.main) = Len(s) + 2 /\ m.ok
        BY PutIs, TwoUp
  <1>2. "OP_LESSTHANOREQUAL" \in NeedsTwo /\ Len(m.main) \in Nat /\ Len(m.main) >= 2
        BY <1>1 DEF NeedsTwo
  <1>3. ExecStep(spent, made, m, "OP_LESSTHANOREQUAL") = Opcode(m, "OP_LESSTHANOREQUAL", spent, made)
        BY <1>1, <1>2, DoneWithTwo
  <1>4. Top(m, 1) = a /\ Top(m, 2) = b
        BY TwoUp
  <1>5. Opcode(m, "OP_LESSTHANOREQUAL", spent, made) = PopsOne(m, 2, Truth(FromLE(b) <= FromLE(a)))
        BY <1>4, DoAtMost, Zenon DEF PopsOne
  <1>6. PopsOne(m, 2, Truth(FromLE(b) <= FromLE(a))) = St(Put(s, Truth(FromLE(b) <= FromLE(a))), alt)
        BY TwoUp
  <1> QED BY <1>3, <1>5, <1>6, Zenon

LEMMA OnSwap ==
  ASSUME NEW spent, NEW made, NEW s, List(s), NEW b, NEW a, NEW alt
  PROVE  ExecStep(spent, made, St(Put(Put(s, b), a), alt), "OP_SWAP") = St(Put(Put(s, a), b), alt)
  <1> PICK m : m = St(Put(Put(s, b), a), alt)
      OBVIOUS
  <1>1. Len(s) \in Nat /\ Len(m.main) = Len(s) + 2 /\ m.ok
        BY PutIs, TwoUp
  <1>2. "OP_SWAP" \in NeedsTwo /\ Len(m.main) \in Nat /\ Len(m.main) >= 2
        BY <1>1 DEF NeedsTwo
  <1>3. ExecStep(spent, made, m, "OP_SWAP") = Opcode(m, "OP_SWAP", spent, made)
        BY <1>1, <1>2, DoneWithTwo
  <1>4. Top(m, 1) = a /\ Top(m, 2) = b
        BY TwoUp
  <1>5. Opcode(m, "OP_SWAP", spent, made) = PopsTwo(m, 2, a, b)
        BY <1>4, DoSwap, Zenon DEF PopsTwo
  <1>6. PopsTwo(m, 2, a, b) = St(Put(Put(s, a), b), alt)
        BY TwoUp
  <1> QED BY <1>3, <1>5, <1>6, Zenon

LEMMA OnCat ==
  ASSUME NEW spent, NEW made, NEW s, List(s), NEW b, NEW a, NEW alt
  PROVE  ExecStep(spent, made, St(Put(Put(s, b), a), alt), "OP_CAT") = St(Put(s, b \o a), alt)
  <1> PICK m : m = St(Put(Put(s, b), a), alt)
      OBVIOUS
  <1>1. Len(s) \in Nat /\ Len(m.main) = Len(s) + 2 /\ m.ok
        BY PutIs, TwoUp
  <1>2. "OP_CAT" \in NeedsTwo /\ Len(m.main) \in Nat /\ Len(m.main) >= 2
        BY <1>1 DEF NeedsTwo
  <1>3. ExecStep(spent, made, m, "OP_CAT") = Opcode(m, "OP_CAT", spent, made)
        BY <1>1, <1>2, DoneWithTwo
  <1>4. Top(m, 1) = a /\ Top(m, 2) = b
        BY TwoUp
  <1>5. Opcode(m, "OP_CAT", spent, made) = PopsOne(m, 2, b \o a)
        BY <1>4, DoCat, Zenon DEF PopsOne
  <1>6. PopsOne(m, 2, b \o a) = St(Put(s, b \o a), alt)
        BY TwoUp
  <1> QED BY <1>3, <1>5, <1>6, Zenon

LEMMA OnHashChunk ==
  ASSUME NEW spent, NEW made, NEW s, List(s), NEW b, NEW a, NEW alt
  PROVE  ExecStep(spent, made, St(Put(Put(s, b), a), alt), "hashChunk") = St(Put(s, Hash256(b \o a)), alt)
  <1> PICK m : m = St(Put(Put(s, b), a), alt)
      OBVIOUS
  <1>1. Len(s) \in Nat /\ Len(m.main) = Len(s) + 2 /\ m.ok
        BY PutIs, TwoUp
  <1>2. "hashChunk" \in NeedsTwo /\ Len(m.main) \in Nat /\ Len(m.main) >= 2
        BY <1>1 DEF NeedsTwo
  <1>3. ExecStep(spent, made, m, "hashChunk") = Opcode(m, "hashChunk", spent, made)
        BY <1>1, <1>2, DoneWithTwo
  <1>4. Top(m, 1) = a /\ Top(m, 2) = b
        BY TwoUp
  <1>5. Opcode(m, "hashChunk", spent, made) = PopsOne(m, 2, Hash256(b \o a))
        BY <1>4, DoHashChunk, Zenon DEF PopsOne
  <1>6. PopsOne(m, 2, Hash256(b \o a)) = St(Put(s, Hash256(b \o a)), alt)
        BY TwoUp
  <1> QED BY <1>3, <1>5, <1>6, Zenon

LEMMA OnSplit ==
  ASSUME NEW spent, NEW made, NEW s, List(s), NEW b, NEW a, NEW alt, NEW rest, NEW got,
         Take(Reader(b), FromLE(a)) = At(rest, got)
  PROVE  ExecStep(spent, made, St(Put(Put(s, b), a), alt), "OP_SPLIT") = St(Put(Put(s, got), rest), alt)
  <1> PICK m : m = St(Put(Put(s, b), a), alt)
      OBVIOUS
  <1>1. Len(s) \in Nat /\ Len(m.main) = Len(s) + 2 /\ m.ok
        BY PutIs, TwoUp
  <1>2. "OP_SPLIT" \in NeedsTwo /\ Len(m.main) \in Nat /\ Len(m.main) >= 2
        BY <1>1 DEF NeedsTwo
  <1>3. ExecStep(spent, made, m, "OP_SPLIT") = Opcode(m, "OP_SPLIT", spent, made)
        BY <1>1, <1>2, DoneWithTwo
  <1>4. Top(m, 1) = a /\ Top(m, 2) = b /\ PopsTwo(m, 2, got, rest) = St(Put(Put(s, got), rest), alt)
        BY TwoUp
  <1> PICK cut : cut = At(rest, got)
      OBVIOUS
  <1>5. Opcode(m, "OP_SPLIT", spent, made) = SplitAt(m, cut)
        BY <1>4, DoSplit
  <1>6. cut.rest = rest /\ cut.got = got /\ cut.ok = Yes
        BY DEF At
  <1>7. SplitAt(m, cut) = [St(Put(Put(s, got), rest), alt) EXCEPT !.ok = Yes]
        BY <1>4, <1>6 DEF SplitAt, PopsTwo
  <1>8. [St(Put(Put(s, got), rest), alt) EXCEPT !.ok = Yes] = St(Put(Put(s, got), rest), alt)
        BY DEF St
  <1> QED BY <1>3, <1>5, <1>7, <1>8

(* Two equal items are taken and the machine goes on *)
LEMMA OnEqual ==
  ASSUME NEW spent, NEW made, NEW s, List(s), NEW b, NEW a, b = a, NEW alt
  PROVE  /\ ExecStep(spent, made, St(Put(Put(s, b), a), alt), "OP_EQUALVERIFY") = St(s, alt)
         /\ ExecStep(spent, made, St(Put(Put(s, b), a), alt), "OP_NUMEQUALVERIFY") = St(s, alt)
  <1> PICK holds : holds = (Length(a) = Length(b) /\ a = b)
      OBVIOUS
  <1>1. Halted(s, alt, holds) = St(s, alt)
    <2>1. holds = Yes
          BY DEF Yes
    <2> QED BY <2>1, Zenon DEF Halted, St
  <1>2. ExecStep(spent, made, St(Put(Put(s, b), a), alt), "OP_EQUALVERIFY") = Halted(s, alt, holds)
        BY OnEqualVerify
  <1>3. ExecStep(spent, made, St(Put(Put(s, b), a), alt), "OP_NUMEQUALVERIFY") = Halted(s, alt, holds)
        BY OnNumEqualVerify
  <1> QED BY <1>1, <1>2, <1>3, Zenon

-----------------------------------------------------------------------------
(* The numbers of the scripts *)

(* The size of a script number holds all of it, and leaves nothing over    *)
LEMMA ScriptSizeIs ==
  ASSUME NEW n \in Number
  PROVE  /\ ScriptSize(n) \in 0 .. 4 /\ Low(n, ScriptSize(n)) = n
         /\ Low(n, ScriptSize(n) + 1) = n /\ Digit(n, ScriptSize(n) + 1) = 0
  <1>0. n \in Nat /\ 2 ^ 24 = 16777216
    <2>1. 2 ^ 24 = 16777216
          BY SMT
    <2> QED BY <2>1, NumberIsNat
  <1>1. CASE n >= 16777216
    <2>1. ScriptSize(n) = 4
          BY <1>0, <1>1, SMT DEF ScriptSize
    <2> QED BY <1>0, <2>1, SMT DEF Low, Digit
  <1>2. CASE ~(n >= 16777216)
    <2> DEFINE P(k) == n < 256 ^ k /\ (k = 0 \/ n >= 256 ^ (k - 1))
    <2>1. ScriptSize(n) = CHOOSE k \in 0 .. 3 : P(k)
      <3>1. ScriptSize(n) = IF n >= 2 ^ 24 THEN 4 ELSE CHOOSE k \in 0 .. 3 : P(k)
            BY Zenon DEF ScriptSize
      <3> HIDE DEF P
      <3>2. ~(n >= 2 ^ 24)
            BY <1>0, <1>2
      <3> QED BY <3>1, <3>2, Zenon
    <2>2. /\ P(0) <=> n < 1
          /\ P(1) <=> n < 256 /\ n >= 1
          /\ P(2) <=> n < 65536 /\ n >= 256
          /\ P(3) <=> n < 16777216 /\ n >= 65536
          BY Powers, SMT
    <2> HIDE DEF P
    <2>3. P(0) \/ P(1) \/ P(2) \/ P(3)
          BY <1>0, <1>2, <2>2, SMT
    <2>4. \E k \in 0 .. 3 : P(k)
          BY <2>3
    <2>5. PICK k \in 0 .. 3 : k = ScriptSize(n) /\ P(k)
          BY <2>1, <2>4
    <2>6. CASE k = 0
      <3>1. n = 0
            BY <1>0, <2>2, <2>5, <2>6, SMT
      <3>2. Low(n, 0) = n /\ Low(n, 1) = n /\ Digit(n, 1) = 0
            BY <3>1, SMT DEF Low, Digit
      <3> QED BY <2>5, <2>6, <3>2
    <2>7. CASE k = 1
      <3>1. n < 256
            BY <2>2, <2>5, <2>7
      <3>2. n % 256 = n /\ n % 65536 = n /\ (n \div 256) % 256 = 0
            BY <1>0, <3>1, SMT
      <3>3. Low(n, 1) = n /\ Low(n, 2) = n /\ Digit(n, 2) = 0
            BY <3>2, SMT DEF Low, Digit
      <3> QED BY <2>5, <2>7, <3>3
    <2>8. CASE k = 2
      <3>1. n < 65536
            BY <2>2, <2>5, <2>8
      <3>2. n % 65536 = n /\ n % 16777216 = n /\ (n \div 65536) % 256 = 0
            BY <1>0, <3>1, SMT
      <3>3. Low(n, 2) = n /\ Low(n, 3) = n /\ Digit(n, 3) = 0
            BY <3>2, SMT DEF Low, Digit
      <3> QED BY <2>5, <2>8, <3>3
    <2>9. CASE k = 3
      <3>1. n < 16777216
            BY <2>2, <2>5, <2>9
      <3>2. n % 16777216 = n /\ (n \div 16777216) % 256 = 0
            BY <1>0, <3>1, SMT
      <3>3. Low(n, 3) = n /\ Low(n, 4) = n /\ Digit(n, 4) = 0
            BY <3>2, SMT DEF Low, Digit
      <3> QED BY <2>5, <2>9, <3>3
    <2> QED BY <2>6, <2>7, <2>8, <2>9
  <1> QED BY <1>1, <1>2

(* One byte more holds the same number when that byte is 0 *)
LEMMA OneByteMore ==
  ASSUME NEW n \in Nat, NEW size \in Nat, Digit(n, size + 1) = 0
  PROVE  LE(n, size) \o <<Byte(0)>> = LE(n, size + 1)
  <1> PICK a : a = LE(n, size)
      OBVIOUS
  <1> PICK z : z = <<Byte(0)>>
      OBVIOUS
  <1> PICK b : b = LE(n, size + 1)
      OBVIOUS
  <1>1. a = [i \in 1 .. size |-> a[i]] /\ Len(a) = size
    <2>1. a = [i \in 1 .. size |-> a[i]]
          BY DEF LE
    <2> QED BY <2>1, LEIsString
  <1>2. b = [i \in 1 .. size + 1 |-> b[i]]
        BY DEF LE
  <1>3. List(a) /\ List(z) /\ Len(z) = 1 /\ z[1] = Byte(0)
    <2>1. List(a)
          BY <1>1 DEF List
    <2> QED BY <2>1, ShortLists
  <1>4. List(a \o z) /\ Len(a \o z) = size + 1
        BY <1>1, <1>3, JoinedLists
  <1>5. ASSUME NEW i \in 1 .. size + 1
        PROVE  (a \o z)[i] = b[i]
    <2>1. b[i] = Byte(Digit(n, i))
          BY DigitsOfLE
    <2>2. CASE i <= size
      <3>1. (a \o z)[i] = a[i]
            BY <1>1, <1>3, <2>2, JoinedLists
      <3>2. a[i] = Byte(Digit(n, i))
            BY <2>2, DigitsOfLE
      <3> QED BY <2>1, <3>1, <3>2
    <2>3. CASE i = size + 1
      <3>1. (a \o z)[Len(a) + 1] = z[1]
            BY <1>3, JoinedLists
      <3> QED BY <1>1, <1>3, <2>1, <2>3, <3>1
    <2>4. i <= size \/ i = size + 1
          OBVIOUS
    <2> QED BY <2>2, <2>3, <2>4
  <1> QED BY <1>2, <1>4, <1>5 DEF List

(* A script number is read back as the number it stands for *)
THEOREM MinimalIs ==
  ASSUME NEW n \in Number
  PROVE  FromLE(MinimalScriptNumber(n)) = n
  <1> PICK size \in 0 .. 4 : size = ScriptSize(n)
      BY ScriptSizeIs
  <1>0. n \in Nat /\ Low(n, size) = n /\ Low(n, size + 1) = n /\ Digit(n, size + 1) = 0
        BY ScriptSizeIs, NumberIsNat
  <1>1. FromLE(LE(n, size)) = n /\ FromLE(LE(n, size + 1)) = n
    <2>1. FromLE(LE(n, size)) = n
          BY <1>0, FromLEOfLE
    <2>2. size + 1 \in Nat
          OBVIOUS
    <2> QED BY <1>0, <2>1, <2>2, FromLEOfLE
  <1>2. LE(n, size) \o <<Byte(0)>> = LE(n, size + 1)
    <2>1. size \in Nat
          OBVIOUS
    <2> QED BY <1>0, <2>1, OneByteMore, Zenon
  <1>3. MinimalScriptNumber(n) \in {LE(n, size), LE(n, size) \o <<Byte(0)>>}
        BY DEF MinimalScriptNumber
  <1> QED BY <1>1, <1>2, <1>3

(* OP_1 pushes the byte 1 *)
LEMMA MinimalOne == MinimalScriptNumber(1) = <<Byte(1)>>
  <1>0. 1 \in Number
        BY SmallNumbers
  <1> PICK size \in 0 .. 4 : size = ScriptSize(1)
      BY <1>0, ScriptSizeIs
  <1>1. size = 1
    <2> DEFINE P(k) == 1 < 256 ^ k /\ (k = 0 \/ 1 >= 256 ^ (k - 1))
    <2>0. 2 ^ 24 = 16777216
          BY SMT
    <2>1. ScriptSize(1) = CHOOSE k \in 0 .. 3 : P(k)
      <3>1. ScriptSize(1) = IF 1 >= 2 ^ 24 THEN 4 ELSE CHOOSE k \in 0 .. 3 : P(k)
            BY Zenon DEF ScriptSize
      <3> HIDE DEF P
      <3>2. ~(1 >= 2 ^ 24)
            BY <2>0, SMT
      <3> QED BY <3>1, <3>2, Zenon
    <2>2. ~P(0) /\ P(1) /\ ~P(2) /\ ~P(3)
          BY Powers, SMT
    <2> HIDE DEF P
    <2>3. \A k \in 0 .. 3 : P(k) <=> k = 1
      <3>1. \A k \in 0 .. 3 : k = 0 \/ k = 1 \/ k = 2 \/ k = 3
            OBVIOUS
      <3> QED BY <2>2, <3>1
    <2> QED BY <2>1, <2>3
  <1> PICK b : b = LE(1, 1)
      OBVIOUS
  <1>2. b[1] = Byte(1) /\ b = [i \in 1 .. 1 |-> b[i]]
    <2>1. b[1] = Byte(Digit(1, 1))
          BY DigitsOfLE
    <2>2. Digit(1, 1) = 1
          BY SMT DEF Digit
    <2> QED BY <2>1, <2>2 DEF LE
  <1>3. b = <<Byte(1)>>
        BY <1>2
  <1>4. b[1][2] = 1
        BY <1>2, WidthOfByte
  <1> QED BY <1>1, <1>3, <1>4 DEF MinimalScriptNumber

-----------------------------------------------------------------------------
(* The pieces of the covenant's programs *)

(* The bytes of a category and of the capability that lets it change *)
Mutable(a, category) == a = category \o CapByte

(* A check that the top is 32 bytes long leaves the stack as it was *)
LEMMA Is20 ==
  ASSUME NEW spent, NEW made, NEW s, List(s), NEW a, Length(a) = 32, NEW alt
  PROVE  Execs(spent, made, St(Put(s, a), alt), <<"OP_SIZE", "x20", "OP_EQUALVERIFY">>)
         = St(Put(s, a), alt)
  <1> DEFINE p == <<"OP_SIZE", "x20", "OP_EQUALVERIFY">>
  <1> PICK sa : sa = Put(s, a)
      OBVIOUS
  <1> PICK k : k = MinimalScriptNumber(32)
      OBVIOUS
  <1>0. List(sa)
        BY PutIs
  <1>1. /\ List(p) /\ Len(p) = 3
        /\ p[1] = "OP_SIZE" /\ p[2] = "x20" /\ p[3] = "OP_EQUALVERIFY"
        BY DEF List
  <1> HIDE DEF p
  <1>2. PICK t : IsRun(t, spent, made, St(sa, alt), p) /\ Execs(spent, made, St(sa, alt), p) = t[3]
    <2>1. \E t : IsRun(t, spent, made, St(sa, alt), p) /\ Execs(spent, made, St(sa, alt), p) = t[Len(p)]
          BY <1>1, RunsExist, ZenonT(30)
    <2> QED BY <1>1, <2>1
  <1>3. t[0] = St(sa, alt) /\ \A i \in 1 .. 3 : t[i] = ExecStep(spent, made, t[i - 1], p[i])
        BY <1>1, <1>2 DEF IsRun
  <1>4. t[1] = St(Put(sa, k), alt)
    <2>1. t[1] = ExecStep(spent, made, t[0], "OP_SIZE")
          BY <1>1, <1>3
    <2>2. ExecStep(spent, made, St(sa, alt), "OP_SIZE") = St(Put(sa, k), alt)
          BY OnSize
    <2> QED BY <1>3, <2>1, <2>2
  <1>5. t[2] = St(Put(Put(sa, k), k), alt)
    <2>1. t[2] = ExecStep(spent, made, t[1], "x20")
          BY <1>1, <1>3
    <2>2. ExecStep(spent, made, St(Put(sa, k), alt), "x20") = St(Put(Put(sa, k), k), alt)
          BY On_x20
    <2> QED BY <1>4, <2>1, <2>2
  <1>6. t[3] = St(sa, alt)
    <2>1. t[3] = ExecStep(spent, made, t[2], "OP_EQUALVERIFY")
          BY <1>1, <1>3
    <2>2. ExecStep(spent, made, St(Put(Put(sa, k), k), alt), "OP_EQUALVERIFY") = St(sa, alt)
          BY <1>0, OnEqual
    <2> QED BY <1>5, <2>1, <2>2
  <1> QED BY <1>2, <1>6 DEF p

(* A check that the top is 33 bytes long leaves the stack as it was *)
LEMMA Is21 ==
  ASSUME NEW spent, NEW made, NEW s, List(s), NEW a, Length(a) = 33, NEW alt
  PROVE  Execs(spent, made, St(Put(s, a), alt), <<"OP_SIZE", "x21", "OP_EQUALVERIFY">>)
         = St(Put(s, a), alt)
  <1> DEFINE p == <<"OP_SIZE", "x21", "OP_EQUALVERIFY">>
  <1> PICK sa : sa = Put(s, a)
      OBVIOUS
  <1> PICK k : k = MinimalScriptNumber(33)
      OBVIOUS
  <1>0. List(sa)
        BY PutIs
  <1>1. /\ List(p) /\ Len(p) = 3
        /\ p[1] = "OP_SIZE" /\ p[2] = "x21" /\ p[3] = "OP_EQUALVERIFY"
        BY DEF List
  <1> HIDE DEF p
  <1>2. PICK t : IsRun(t, spent, made, St(sa, alt), p) /\ Execs(spent, made, St(sa, alt), p) = t[3]
    <2>1. \E t : IsRun(t, spent, made, St(sa, alt), p) /\ Execs(spent, made, St(sa, alt), p) = t[Len(p)]
          BY <1>1, RunsExist, ZenonT(30)
    <2> QED BY <1>1, <2>1
  <1>3. t[0] = St(sa, alt) /\ \A i \in 1 .. 3 : t[i] = ExecStep(spent, made, t[i - 1], p[i])
        BY <1>1, <1>2 DEF IsRun
  <1>4. t[1] = St(Put(sa, k), alt)
    <2>1. t[1] = ExecStep(spent, made, t[0], "OP_SIZE")
          BY <1>1, <1>3
    <2>2. ExecStep(spent, made, St(sa, alt), "OP_SIZE") = St(Put(sa, k), alt)
          BY OnSize
    <2> QED BY <1>3, <2>1, <2>2
  <1>5. t[2] = St(Put(Put(sa, k), k), alt)
    <2>1. t[2] = ExecStep(spent, made, t[1], "x21")
          BY <1>1, <1>3
    <2>2. ExecStep(spent, made, St(Put(sa, k), alt), "x21") = St(Put(Put(sa, k), k), alt)
          BY On_x21
    <2> QED BY <1>4, <2>1, <2>2
  <1>6. t[3] = St(sa, alt)
    <2>1. t[3] = ExecStep(spent, made, t[2], "OP_EQUALVERIFY")
          BY <1>1, <1>3
    <2>2. ExecStep(spent, made, St(Put(Put(sa, k), k), alt), "OP_EQUALVERIFY") = St(sa, alt)
          BY <1>0, OnEqual
    <2> QED BY <1>5, <2>1, <2>2
  <1> QED BY <1>2, <1>6 DEF p

(* The last byte of a category with its capability is split off and compared *)
LEMMA IsMutableEnd ==
  ASSUME NEW spent, NEW made, NEW s, List(s), NEW category, Word(category), NEW a, Mutable(a, category), NEW alt
  PROVE  Execs(spent, made, St(Put(s, a), alt), <<"OP_DUP", "x20", "OP_SPLIT",
        "OP_1", "OP_EQUALVERIFY", "OP_DROP">>)
         = St(Put(s, a), alt)
  <1> DEFINE p == <<"OP_DUP", "x20", "OP_SPLIT",
        "OP_1", "OP_EQUALVERIFY", "OP_DROP">>
  <1> PICK sa : sa = Put(s, a)
      OBVIOUS
  <1> PICK k : k = MinimalScriptNumber(32)
      OBVIOUS
  <1> PICK one : one = MinimalScriptNumber(1)
      OBVIOUS
  <1>0. List(sa) /\ List(Put(sa, category)) /\ CapByte = one /\ Take(Reader(a), FromLE(k)) = At(CapByte, category)
    <2>1. List(sa) /\ List(Put(sa, category))
          BY PutIs
    <2>2. CapByte = one
          BY MinimalOne, Zenon DEF CapByte
    <2>3. FromLE(k) = 32
      <3>1. 32 \in Number
            BY SmallNumbers
      <3> QED BY <3>1, MinimalIs
    <2>4. Reader(a) = At(Join(category, CapByte), <<>>)
      <3>1. a = Join(category, CapByte)
            BY Zenon DEF Join, Mutable
      <3> QED BY <3>1, ReaderAt
    <2>5. ByteString(category) /\ Length(category) = 32 /\ ByteString(CapByte)
          BY ByteIsString DEF Word, CapByte
    <2>6. Take(At(Join(category, CapByte), <<>>), Length(category)) = At(CapByte, category)
          BY <2>5, TakePart
    <2> QED BY <2>1, <2>2, <2>3, <2>4, <2>5, <2>6
  <1>1. /\ List(p) /\ Len(p) = 6
        /\ p[1] = "OP_DUP" /\ p[2] = "x20" /\ p[3] = "OP_SPLIT" /\ p[4] = "OP_1" /\ p[5] = "OP_EQUALVERIFY"
           /\ p[6] = "OP_DROP"
        BY DEF List
  <1> HIDE DEF p
  <1>2. PICK t : IsRun(t, spent, made, St(sa, alt), p) /\ Execs(spent, made, St(sa, alt), p) = t[6]
    <2>1. \E t : IsRun(t, spent, made, St(sa, alt), p) /\ Execs(spent, made, St(sa, alt), p) = t[Len(p)]
          BY <1>1, RunsExist, Zenon
    <2> QED BY <1>1, <2>1
  <1>3. t[0] = St(sa, alt) /\ \A i \in 1 .. 6 : t[i] = ExecStep(spent, made, t[i - 1], p[i])
        BY <1>1, <1>2 DEF IsRun
  <1>4. t[1] = St(Put(sa, a), alt)
    <2>1. t[1] = ExecStep(spent, made, t[0], "OP_DUP")
          BY <1>1, <1>3
    <2>2. ExecStep(spent, made, St(sa, alt), "OP_DUP") = St(Put(sa, a), alt)
          BY OnDup
    <2> QED BY <1>3, <2>1, <2>2
  <1>5. t[2] = St(Put(Put(sa, a), k), alt)
    <2>1. t[2] = ExecStep(spent, made, t[1], "x20")
          BY <1>1, <1>3
    <2>2. ExecStep(spent, made, St(Put(sa, a), alt), "x20") = St(Put(Put(sa, a), k), alt)
          BY On_x20
    <2> QED BY <1>4, <2>1, <2>2
  <1>6. t[3] = St(Put(Put(sa, category), CapByte), alt)
    <2>1. t[3] = ExecStep(spent, made, t[2], "OP_SPLIT")
          BY <1>1, <1>3
    <2>2. ExecStep(spent, made, St(Put(Put(sa, a), k), alt), "OP_SPLIT") = St(Put(Put(sa, category), CapByte), alt)
          BY <1>0, OnSplit
    <2> QED BY <1>5, <2>1, <2>2
  <1>7. t[4] = St(Put(Put(Put(sa, category), CapByte), one), alt)
    <2>1. t[4] = ExecStep(spent, made, t[3], "OP_1")
          BY <1>1, <1>3
    <2>2. ExecStep(spent, made, St(Put(Put(sa, category), CapByte), alt), "OP_1") = St(Put(Put(Put(sa, category), CapByte), one), alt)
          BY On_OP_1
    <2> QED BY <1>6, <2>1, <2>2
  <1>8. t[5] = St(Put(sa, category), alt)
    <2>1. t[5] = ExecStep(spent, made, t[4], "OP_EQUALVERIFY")
          BY <1>1, <1>3
    <2>2. ExecStep(spent, made, St(Put(Put(Put(sa, category), CapByte), one), alt), "OP_EQUALVERIFY") = St(Put(sa, category), alt)
          BY <1>0, OnEqual
    <2> QED BY <1>7, <2>1, <2>2
  <1>9. t[6] = St(sa, alt)
    <2>1. t[6] = ExecStep(spent, made, t[5], "OP_DROP")
          BY <1>1, <1>3
    <2>2. ExecStep(spent, made, St(Put(sa, category), alt), "OP_DROP") = St(sa, alt)
          BY <1>0, OnDrop
    <2> QED BY <1>8, <2>1, <2>2
  <1> QED BY <1>2, <1>9 DEF p

-----------------------------------------------------------------------------
(* The covenant's programs *)

(* One item less *)
LEMMA DropRuns ==
  ASSUME NEW spent, NEW made, NEW s, List(s), NEW a, NEW alt
  PROVE  Execs(spent, made, St(Put(s, a), alt), <<"OP_DROP">>)
         = St(s, alt)
  <1> DEFINE p == <<"OP_DROP">>
  <1>1. /\ List(p) /\ Len(p) = 1
        /\ p[1] = "OP_DROP"
        BY DEF List
  <1> HIDE DEF p
  <1>2. PICK t : IsRun(t, spent, made, St(Put(s, a), alt), p) /\ Execs(spent, made, St(Put(s, a), alt), p) = t[1]
    <2>1. \E t : IsRun(t, spent, made, St(Put(s, a), alt), p) /\ Execs(spent, made, St(Put(s, a), alt), p) = t[Len(p)]
          BY <1>1, RunsExist, Zenon
    <2> QED BY <1>1, <2>1
  <1>3. t[0] = St(Put(s, a), alt) /\ \A i \in 1 .. 1 : t[i] = ExecStep(spent, made, t[i - 1], p[i])
        BY <1>1, <1>2 DEF IsRun
  <1>4. t[1] = St(s, alt)
    <2>1. t[1] = ExecStep(spent, made, t[0], "OP_DROP")
          BY <1>1, <1>3
    <2>2. ExecStep(spent, made, St(Put(s, a), alt), "OP_DROP") = St(s, alt)
          BY OnDrop
    <2> QED BY <1>3, <2>1, <2>2
  <1> QED BY <1>2, <1>4 DEF p

(* One item from one stack to the other *)
LEMMA ToAltRuns ==
  ASSUME NEW spent, NEW made, NEW s, List(s), NEW a, NEW alt
  PROVE  Execs(spent, made, St(Put(s, a), alt), <<"OP_TOALTSTACK">>)
         = St(s, Put(alt, a))
  <1> DEFINE p == <<"OP_TOALTSTACK">>
  <1>1. /\ List(p) /\ Len(p) = 1
        /\ p[1] = "OP_TOALTSTACK"
        BY DEF List
  <1> HIDE DEF p
  <1>2. PICK t : IsRun(t, spent, made, St(Put(s, a), alt), p) /\ Execs(spent, made, St(Put(s, a), alt), p) = t[1]
    <2>1. \E t : IsRun(t, spent, made, St(Put(s, a), alt), p) /\ Execs(spent, made, St(Put(s, a), alt), p) = t[Len(p)]
          BY <1>1, RunsExist, Zenon
    <2> QED BY <1>1, <2>1
  <1>3. t[0] = St(Put(s, a), alt) /\ \A i \in 1 .. 1 : t[i] = ExecStep(spent, made, t[i - 1], p[i])
        BY <1>1, <1>2 DEF IsRun
  <1>4. t[1] = St(s, Put(alt, a))
    <2>1. t[1] = ExecStep(spent, made, t[0], "OP_TOALTSTACK")
          BY <1>1, <1>3
    <2>2. ExecStep(spent, made, St(Put(s, a), alt), "OP_TOALTSTACK") = St(s, Put(alt, a))
          BY OnToAlt
    <2> QED BY <1>3, <2>1, <2>2
  <1> QED BY <1>2, <1>4 DEF p

(* The category of the coin spent *)
LEMMA CategoryRuns ==
  ASSUME NEW spent, NEW made, NEW s, List(s), NEW alt
  PROVE  Execs(spent, made, St(s, alt), <<"OP_0", "OP_UTXOTOKENCATEGORY">>)
         = St(Put(s, TokenCategory(spent)), alt)
  <1> DEFINE p == <<"OP_0", "OP_UTXOTOKENCATEGORY">>
  <1>1. /\ List(p) /\ Len(p) = 2
        /\ p[1] = "OP_0" /\ p[2] = "OP_UTXOTOKENCATEGORY"
        BY DEF List
  <1> HIDE DEF p
  <1>2. PICK t : IsRun(t, spent, made, St(s, alt), p) /\ Execs(spent, made, St(s, alt), p) = t[2]
    <2>1. \E t : IsRun(t, spent, made, St(s, alt), p) /\ Execs(spent, made, St(s, alt), p) = t[Len(p)]
          BY <1>1, RunsExist, Zenon
    <2> QED BY <1>1, <2>1
  <1>3. t[0] = St(s, alt) /\ \A i \in 1 .. 2 : t[i] = ExecStep(spent, made, t[i - 1], p[i])
        BY <1>1, <1>2 DEF IsRun
  <1>4. t[1] = St(Put(s, MinimalScriptNumber(0)), alt)
    <2>1. t[1] = ExecStep(spent, made, t[0], "OP_0")
          BY <1>1, <1>3
    <2>2. ExecStep(spent, made, St(s, alt), "OP_0") = St(Put(s, MinimalScriptNumber(0)), alt)
          BY On_OP_0
    <2> QED BY <1>3, <2>1, <2>2
  <1>5. t[2] = St(Put(s, TokenCategory(spent)), alt)
    <2>1. t[2] = ExecStep(spent, made, t[1], "OP_UTXOTOKENCATEGORY")
          BY <1>1, <1>3
    <2>2. ExecStep(spent, made, St(Put(s, MinimalScriptNumber(0)), alt), "OP_UTXOTOKENCATEGORY") = St(Put(s, TokenCategory(spent)), alt)
          BY OnSpentCategory
    <2> QED BY <1>4, <2>1, <2>2
  <1> QED BY <1>2, <1>5 DEF p

(* The commitment of the coin spent *)
LEMMA CommitmentRuns ==
  ASSUME NEW spent, NEW made, NEW s, List(s), NEW a, NEW x, spent.commitment = x, NEW alt
  PROVE  Execs(spent, made, St(Put(s, a), alt), <<"OP_TOALTSTACK", "OP_0", "OP_UTXOTOKENCOMMITMENT">>)
         = St(Put(s, x), Put(alt, a))
  <1> DEFINE p == <<"OP_TOALTSTACK", "OP_0", "OP_UTXOTOKENCOMMITMENT">>
  <1>1. /\ List(p) /\ Len(p) = 3
        /\ p[1] = "OP_TOALTSTACK" /\ p[2] = "OP_0" /\ p[3] = "OP_UTXOTOKENCOMMITMENT"
        BY DEF List
  <1> HIDE DEF p
  <1>2. PICK t : IsRun(t, spent, made, St(Put(s, a), alt), p) /\ Execs(spent, made, St(Put(s, a), alt), p) = t[3]
    <2>1. \E t : IsRun(t, spent, made, St(Put(s, a), alt), p) /\ Execs(spent, made, St(Put(s, a), alt), p) = t[Len(p)]
          BY <1>1, RunsExist, Zenon
    <2> QED BY <1>1, <2>1
  <1>3. t[0] = St(Put(s, a), alt) /\ \A i \in 1 .. 3 : t[i] = ExecStep(spent, made, t[i - 1], p[i])
        BY <1>1, <1>2 DEF IsRun
  <1>4. t[1] = St(s, Put(alt, a))
    <2>1. t[1] = ExecStep(spent, made, t[0], "OP_TOALTSTACK")
          BY <1>1, <1>3
    <2>2. ExecStep(spent, made, St(Put(s, a), alt), "OP_TOALTSTACK") = St(s, Put(alt, a))
          BY OnToAlt
    <2> QED BY <1>3, <2>1, <2>2
  <1>5. t[2] = St(Put(s, MinimalScriptNumber(0)), Put(alt, a))
    <2>1. t[2] = ExecStep(spent, made, t[1], "OP_0")
          BY <1>1, <1>3
    <2>2. ExecStep(spent, made, St(s, Put(alt, a)), "OP_0") = St(Put(s, MinimalScriptNumber(0)), Put(alt, a))
          BY On_OP_0
    <2> QED BY <1>4, <2>1, <2>2
  <1>6. t[3] = St(Put(s, x), Put(alt, a))
    <2>1. t[3] = ExecStep(spent, made, t[2], "OP_UTXOTOKENCOMMITMENT")
          BY <1>1, <1>3
    <2>2. ExecStep(spent, made, St(Put(s, MinimalScriptNumber(0)), Put(alt, a)), "OP_UTXOTOKENCOMMITMENT") = St(Put(s, x), Put(alt, a))
          BY OnSpentCommitment
    <2> QED BY <1>5, <2>1, <2>2
  <1> QED BY <1>2, <1>6 DEF p

(* A category with the capability to change it passes the check, and stays *)
LEMMA IsMutableHolds ==
  ASSUME NEW spent, NEW made, NEW s, List(s), NEW category, Word(category), NEW a, Mutable(a, category), NEW alt
  PROVE  Execs(spent, made, St(Put(s, a), alt), IsMutable) = St(Put(s, a), alt) /\ List(IsMutable)
  <1> PICK m : m = St(Put(s, a), alt)
      OBVIOUS
  <1> PICK p : p = <<"OP_SIZE", "x21", "OP_EQUALVERIFY">>
      OBVIOUS
  <1> PICK q : q = <<"OP_DUP", "x20", "OP_SPLIT", "OP_1", "OP_EQUALVERIFY", "OP_DROP">>
      OBVIOUS
  <1>1. List(p) /\ List(q)
        BY DEF List
  <1>2. Length(a) = 33
    <2>1. ByteString(category) /\ Length(category) = 32 /\ ByteString(CapByte) /\ Length(CapByte) = 1
          BY ByteIsString DEF Word, CapByte
    <2>2. Length(a) = 32 + 1
          BY <2>1, JoinedStrings DEF Mutable
    <2> QED BY <2>2
  <1>3. Execs(spent, made, m, p) = m
        BY <1>2, Is21
  <1>4. Execs(spent, made, m, q) = m
        BY IsMutableEnd
  <1>5. Execs(spent, made, m, p \o q) = Execs(spent, made, Execs(spent, made, m, p), q) /\ List(p \o q)
        BY <1>1, ExecJoin
  <1>6. IsMutable = p \o q
        BY Zenon DEF IsMutable, IsSize
  <1> QED BY <1>3, <1>4, <1>5, <1>6

(* An item of 32 bytes passes the check, and stays *)
LEMMA Is20Holds ==
  ASSUME NEW spent, NEW made, NEW s, List(s), NEW a, Length(a) = 32, NEW alt
  PROVE  Execs(spent, made, St(Put(s, a), alt), IsSize("x20")) = St(Put(s, a), alt) /\ List(IsSize("x20"))
  <1>1. IsSize("x20") = <<"OP_SIZE", "x20", "OP_EQUALVERIFY">>
        BY Zenon DEF IsSize
  <1>2. List(<<"OP_SIZE", "x20", "OP_EQUALVERIFY">>)
        BY DEF List
  <1> QED BY <1>1, <1>2, Is20

(* The proof blob is dropped, once it is found to be 32 bytes long *)
LEMMA DropProofIs ==
  ASSUME NEW spent, NEW made, NEW s, List(s), NEW a, Length(a) = 32, NEW alt
  PROVE  Execs(spent, made, St(Put(s, a), alt), DropProof) = St(s, alt)
  <1> PICK m : m = St(Put(s, a), alt)
      OBVIOUS
  <1> PICK p : p = IsSize("x20")
      OBVIOUS
  <1> PICK q : q = <<"OP_DROP">>
      OBVIOUS
  <1>1. List(p) /\ List(q) /\ Execs(spent, made, m, p) = m
        BY Is20Holds, ShortLists
  <1>2. Execs(spent, made, m, q) = St(s, alt)
        BY DropRuns
  <1>3. Execs(spent, made, m, p \o q) = Execs(spent, made, Execs(spent, made, m, p), q)
        BY <1>1, ExecJoin
  <1>4. DropProof = p \o q
        BY Zenon DEF DropProof
  <1> QED BY <1>1, <1>2, <1>3, <1>4

(* The category and the commitment of the coin spent go to the other stack *)
LEMMA ReadStateInIs ==
  ASSUME NEW spent, NEW made, NEW s, List(s), NEW category, Word(category), NEW a, Mutable(a, category),
         TokenCategory(spent) = a, NEW x, spent.commitment = x, Length(x) = 32
  PROVE  Execs(spent, made, St(s, <<>>), ReadStateIn) = St(s, Put(Put(<<>>, a), x))
  <1> PICK p : p = <<"OP_0", "OP_UTXOTOKENCATEGORY">>
      OBVIOUS
  <1> PICK q : q = <<"OP_TOALTSTACK", "OP_0", "OP_UTXOTOKENCOMMITMENT">>
      OBVIOUS
  <1> PICK r : r = <<"OP_TOALTSTACK">>
      OBVIOUS
  <1> PICK n : n = IsMutable
      OBVIOUS
  <1> PICK w : w = IsSize("x20")
      OBVIOUS
  <1> PICK m0 : m0 = St(s, <<>>)
      OBVIOUS
  <1> PICK m1 : m1 = St(Put(s, a), <<>>)
      OBVIOUS
  <1> PICK m2 : m2 = St(Put(s, x), Put(<<>>, a))
      OBVIOUS
  <1>1. List(p) /\ List(q) /\ List(r)
        BY DEF List
  <1>2. Execs(spent, made, m0, p) = m1
        BY CategoryRuns
  <1>3. Execs(spent, made, m1, n) = m1 /\ List(n)
        BY IsMutableHolds
  <1>4. Execs(spent, made, m1, q) = m2
        BY CommitmentRuns
  <1>5. Execs(spent, made, m2, w) = m2 /\ List(w)
        BY Is20Holds
  <1>6. Execs(spent, made, m2, r) = St(s, Put(Put(<<>>, a), x))
        BY ToAltRuns
  <1>7. List(p \o n) /\ Execs(spent, made, m0, p \o n) = m1
        BY <1>1, <1>2, <1>3, ExecJoin
  <1> PICK u : u = p \o n
      OBVIOUS
  <1>8. List(u \o q) /\ Execs(spent, made, m0, u \o q) = m2
        BY <1>1, <1>4, <1>7, ExecJoin
  <1> PICK v : v = u \o q
      OBVIOUS
  <1>9. List(v \o w) /\ Execs(spent, made, m0, v \o w) = m2
        BY <1>5, <1>8, ExecJoin
  <1> PICK z : z = v \o w
      OBVIOUS
  <1>10. Execs(spent, made, m0, z \o r) = St(s, Put(Put(<<>>, a), x))
         BY <1>1, <1>6, <1>9, ExecJoin
  <1>11. ReadStateIn = ((((p \o n) \o q) \o w) \o r)
         BY Zenon DEF ReadStateIn
  <1> QED BY <1>10, <1>11

-----------------------------------------------------------------------------
(* The fold *)

(* The depth of the stack is compared with 64 *)
LEMMA DepthRuns ==
  ASSUME NEW spent, NEW made, NEW s, List(s), Len(s) \in Number, NEW alt
  PROVE  Execs(spent, made, St(s, alt), <<"OP_DEPTH", "x40", "OP_LESSTHANOREQUAL">>)
         = St(Put(s, Truth(Len(s) <= 64)), alt)
  <1> DEFINE p == <<"OP_DEPTH", "x40", "OP_LESSTHANOREQUAL">>
  <1> PICK d : d = MinimalScriptNumber(Len(s))
      OBVIOUS
  <1> PICK k : k = MinimalScriptNumber(64)
      OBVIOUS
  <1>0. FromLE(d) = Len(s) /\ FromLE(k) = 64
    <2>1. 64 \in Number
          BY SmallNumbers
    <2> QED BY <2>1, MinimalIs
  <1>1. /\ List(p) /\ Len(p) = 3
        /\ p[1] = "OP_DEPTH" /\ p[2] = "x40" /\ p[3] = "OP_LESSTHANOREQUAL"
        BY DEF List
  <1> HIDE DEF p
  <1>2. PICK t : IsRun(t, spent, made, St(s, alt), p) /\ Execs(spent, made, St(s, alt), p) = t[3]
    <2>1. \E t : IsRun(t, spent, made, St(s, alt), p) /\ Execs(spent, made, St(s, alt), p) = t[Len(p)]
          BY <1>1, RunsExist, Zenon
    <2> QED BY <1>1, <2>1
  <1>3. t[0] = St(s, alt) /\ \A i \in 1 .. 3 : t[i] = ExecStep(spent, made, t[i - 1], p[i])
        BY <1>1, <1>2 DEF IsRun
  <1>4. t[1] = St(Put(s, d), alt)
    <2>1. t[1] = ExecStep(spent, made, t[0], "OP_DEPTH")
          BY <1>1, <1>3
    <2>2. ExecStep(spent, made, St(s, alt), "OP_DEPTH") = St(Put(s, d), alt)
          BY OnDepth
    <2> QED BY <1>3, <2>1, <2>2
  <1>5. t[2] = St(Put(Put(s, d), k), alt)
    <2>1. t[2] = ExecStep(spent, made, t[1], "x40")
          BY <1>1, <1>3
    <2>2. ExecStep(spent, made, St(Put(s, d), alt), "x40") = St(Put(Put(s, d), k), alt)
          BY On_x40
    <2> QED BY <1>4, <2>1, <2>2
  <1>6. t[3] = St(Put(s, Truth(Len(s) <= 64)), alt)
    <2>1. t[3] = ExecStep(spent, made, t[2], "OP_LESSTHANOREQUAL")
          BY <1>1, <1>3
    <2>2. ExecStep(spent, made, St(Put(Put(s, d), k), alt), "OP_LESSTHANOREQUAL") = St(Put(s, Truth(Len(s) <= 64)), alt)
          BY <1>0, OnAtMost
    <2> QED BY <1>5, <2>1, <2>2
  <1> QED BY <1>2, <1>6 DEF p

No == FALSE
Verified(s, alt, x) == Halted(s, alt, x # False)
Compared(s, alt, b, a) == Halted(s, alt, Length(a) = Length(b) /\ a = b)

(* OP_VERIFY takes its item and stops on a false one *)
LEMMA Verifies ==
  ASSUME NEW spent, NEW made, NEW s, List(s), NEW a, NEW alt
  PROVE  ExecStep(spent, made, St(Put(s, a), alt), "OP_VERIFY") = Verified(s, alt, a)
  BY OnVerify DEF Verified

(* OP_EQUALVERIFY takes its items and stops if they differ *)
LEMMA Compares ==
  ASSUME NEW spent, NEW made, NEW s, List(s), NEW b, NEW a, NEW alt
  PROVE  ExecStep(spent, made, St(Put(Put(s, b), a), alt), "OP_EQUALVERIFY") = Compared(s, alt, b, a)
  BY OnEqualVerify DEF Compared

(* A true item is taken away *)
LEMMA VerifyRuns ==
  ASSUME NEW spent, NEW made, NEW s, List(s), NEW x, x # <<>>, NEW alt
  PROVE  Execs(spent, made, St(Put(s, x), alt), <<"OP_VERIFY">>)
         = St(s, alt)
  <1> DEFINE p == <<"OP_VERIFY">>
  <1>0. Verified(s, alt, x) = St(s, alt)
    <2> PICK holds : holds = (x # False)
        OBVIOUS
    <2>1. holds = Yes
          BY DEF Yes, False
    <2>2. Halted(s, alt, holds) = St(s, alt)
          BY <2>1, Zenon DEF Halted, St
    <2> QED BY <2>2, Zenon DEF Verified
  <1>1. /\ List(p) /\ Len(p) = 1
        /\ p[1] = "OP_VERIFY"
        BY DEF List
  <1> HIDE DEF p
  <1>2. PICK t : IsRun(t, spent, made, St(Put(s, x), alt), p) /\ Execs(spent, made, St(Put(s, x), alt), p) = t[1]
    <2>1. \E t : IsRun(t, spent, made, St(Put(s, x), alt), p) /\ Execs(spent, made, St(Put(s, x), alt), p) = t[Len(p)]
          BY <1>1, RunsExist, Zenon
    <2> QED BY <1>1, <2>1
  <1>3. t[0] = St(Put(s, x), alt) /\ \A i \in 1 .. 1 : t[i] = ExecStep(spent, made, t[i - 1], p[i])
        BY <1>1, <1>2 DEF IsRun
  <1>4. t[1] = St(s, alt)
    <2>1. t[1] = ExecStep(spent, made, t[0], "OP_VERIFY")
          BY <1>1, <1>3
    <2>2. ExecStep(spent, made, St(Put(s, x), alt), "OP_VERIFY") = St(s, alt)
          BY <1>0, Verifies
    <2> QED BY <1>3, <2>1, <2>2
  <1> QED BY <1>2, <1>4 DEF p

(* A false item stops the machine *)
LEMMA RefuseRuns ==
  ASSUME NEW spent, NEW made, NEW s, List(s), NEW alt
  PROVE  Execs(spent, made, St(Put(s, <<>>), alt), <<"OP_VERIFY">>)
         = Halted(s, alt, No)
  <1> DEFINE p == <<"OP_VERIFY">>
  <1>0. Verified(s, alt, <<>>) = Halted(s, alt, No)
    <2> PICK holds : holds = (<<>> # False)
        OBVIOUS
    <2>1. holds = No
          BY DEF No, False
    <2> QED BY <2>1, Zenon DEF Verified
  <1>1. /\ List(p) /\ Len(p) = 1
        /\ p[1] = "OP_VERIFY"
        BY DEF List
  <1> HIDE DEF p
  <1>2. PICK t : IsRun(t, spent, made, St(Put(s, <<>>), alt), p) /\ Execs(spent, made, St(Put(s, <<>>), alt), p) = t[1]
    <2>1. \E t : IsRun(t, spent, made, St(Put(s, <<>>), alt), p) /\ Execs(spent, made, St(Put(s, <<>>), alt), p) = t[Len(p)]
          BY <1>1, RunsExist, Zenon
    <2> QED BY <1>1, <2>1
  <1>3. t[0] = St(Put(s, <<>>), alt) /\ \A i \in 1 .. 1 : t[i] = ExecStep(spent, made, t[i - 1], p[i])
        BY <1>1, <1>2 DEF IsRun
  <1>4. t[1] = Halted(s, alt, No)
    <2>1. t[1] = ExecStep(spent, made, t[0], "OP_VERIFY")
          BY <1>1, <1>3
    <2>2. ExecStep(spent, made, St(Put(s, <<>>), alt), "OP_VERIFY") = Halted(s, alt, No)
          BY <1>0, Verifies
    <2> QED BY <1>3, <2>1, <2>2
  <1> QED BY <1>2, <1>4 DEF p

(* The state read is hashed, with itself and with the category *)
LEMMA FirstHashes ==
  ASSUME NEW spent, NEW made, NEW s, List(s), NEW c, NEW x
  PROVE  Execs(spent, made, St(s, Put(Put(<<>>, c), x)), <<"OP_FROMALTSTACK", "OP_DUP", "OP_DUP", "OP_CAT", "OP_HASH256",
        "OP_SWAP", "hashChunk", "OP_FROMALTSTACK", "OP_DUP", "OP_TOALTSTACK", "hashChunk">>)
         = St(Put(s, Hash256(Hash256(Hash256(x \o x) \o x) \o c)), Put(<<>>, c))
  <1> DEFINE p == <<"OP_FROMALTSTACK", "OP_DUP", "OP_DUP", "OP_CAT", "OP_HASH256",
        "OP_SWAP", "hashChunk", "OP_FROMALTSTACK", "OP_DUP", "OP_TOALTSTACK", "hashChunk">>
  <1> PICK h0 : h0 = Hash256(x \o x)
      OBVIOUS
  <1> PICK h1 : h1 = Hash256(h0 \o x)
      OBVIOUS
  <1>0. /\ List(<<>>) /\ List(Put(<<>>, c)) /\ List(Put(s, x)) /\ List(Put(Put(s, x), x))
        /\ List(Put(s, h0)) /\ List(Put(s, h1)) /\ List(Put(Put(s, h1), c))
        BY ShortLists, PutIs
  <1>1. /\ List(p) /\ Len(p) = 11
        /\ p[1] = "OP_FROMALTSTACK" /\ p[2] = "OP_DUP" /\ p[3] = "OP_DUP" /\ p[4] = "OP_CAT"
           /\ p[5] = "OP_HASH256" /\ p[6] = "OP_SWAP" /\ p[7] = "hashChunk" /\ p[8] = "OP_FROMALTSTACK"
           /\ p[9] = "OP_DUP" /\ p[10] = "OP_TOALTSTACK" /\ p[11] = "hashChunk"
        BY DEF List
  <1> HIDE DEF p
  <1>2. PICK t : IsRun(t, spent, made, St(s, Put(Put(<<>>, c), x)), p) /\ Execs(spent, made, St(s, Put(Put(<<>>, c), x)), p) = t[11]
    <2>1. \E t : IsRun(t, spent, made, St(s, Put(Put(<<>>, c), x)), p) /\ Execs(spent, made, St(s, Put(Put(<<>>, c), x)), p) = t[Len(p)]
          BY <1>1, RunsExist, Zenon
    <2> QED BY <1>1, <2>1
  <1>3. t[0] = St(s, Put(Put(<<>>, c), x)) /\ \A i \in 1 .. 11 : t[i] = ExecStep(spent, made, t[i - 1], p[i])
        BY <1>1, <1>2 DEF IsRun
  <1>4. t[1] = St(Put(s, x), Put(<<>>, c))
    <2>1. t[1] = ExecStep(spent, made, t[0], "OP_FROMALTSTACK")
          BY <1>1, <1>3
    <2>2. ExecStep(spent, made, St(s, Put(Put(<<>>, c), x)), "OP_FROMALTSTACK") = St(Put(s, x), Put(<<>>, c))
          BY <1>0, OnFromAlt
    <2> QED BY <1>3, <2>1, <2>2
  <1>5. t[2] = St(Put(Put(s, x), x), Put(<<>>, c))
    <2>1. t[2] = ExecStep(spent, made, t[1], "OP_DUP")
          BY <1>1, <1>3
    <2>2. ExecStep(spent, made, St(Put(s, x), Put(<<>>, c)), "OP_DUP") = St(Put(Put(s, x), x), Put(<<>>, c))
          BY OnDup
    <2> QED BY <1>4, <2>1, <2>2
  <1>6. t[3] = St(Put(Put(Put(s, x), x), x), Put(<<>>, c))
    <2>1. t[3] = ExecStep(spent, made, t[2], "OP_DUP")
          BY <1>1, <1>3
    <2>2. ExecStep(spent, made, St(Put(Put(s, x), x), Put(<<>>, c)), "OP_DUP") = St(Put(Put(Put(s, x), x), x), Put(<<>>, c))
          BY <1>0, OnDup
    <2> QED BY <1>5, <2>1, <2>2
  <1>7. t[4] = St(Put(Put(s, x), x \o x), Put(<<>>, c))
    <2>1. t[4] = ExecStep(spent, made, t[3], "OP_CAT")
          BY <1>1, <1>3
    <2>2. ExecStep(spent, made, St(Put(Put(Put(s, x), x), x), Put(<<>>, c)), "OP_CAT") = St(Put(Put(s, x), x \o x), Put(<<>>, c))
          BY <1>0, OnCat
    <2> QED BY <1>6, <2>1, <2>2
  <1>8. t[5] = St(Put(Put(s, x), h0), Put(<<>>, c))
    <2>1. t[5] = ExecStep(spent, made, t[4], "OP_HASH256")
          BY <1>1, <1>3
    <2>2. ExecStep(spent, made, St(Put(Put(s, x), x \o x), Put(<<>>, c)), "OP_HASH256") = St(Put(Put(s, x), h0), Put(<<>>, c))
          BY <1>0, OnHash
    <2> QED BY <1>7, <2>1, <2>2
  <1>9. t[6] = St(Put(Put(s, h0), x), Put(<<>>, c))
    <2>1. t[6] = ExecStep(spent, made, t[5], "OP_SWAP")
          BY <1>1, <1>3
    <2>2. ExecStep(spent, made, St(Put(Put(s, x), h0), Put(<<>>, c)), "OP_SWAP") = St(Put(Put(s, h0), x), Put(<<>>, c))
          BY OnSwap
    <2> QED BY <1>8, <2>1, <2>2
  <1>10. t[7] = St(Put(s, h1), Put(<<>>, c))
    <2>1. t[7] = ExecStep(spent, made, t[6], "hashChunk")
          BY <1>1, <1>3
    <2>2. ExecStep(spent, made, St(Put(Put(s, h0), x), Put(<<>>, c)), "hashChunk") = St(Put(s, h1), Put(<<>>, c))
          BY OnHashChunk
    <2> QED BY <1>9, <2>1, <2>2
  <1>11. t[8] = St(Put(Put(s, h1), c), <<>>)
    <2>1. t[8] = ExecStep(spent, made, t[7], "OP_FROMALTSTACK")
          BY <1>1, <1>3
    <2>2. ExecStep(spent, made, St(Put(s, h1), Put(<<>>, c)), "OP_FROMALTSTACK") = St(Put(Put(s, h1), c), <<>>)
          BY <1>0, OnFromAlt
    <2> QED BY <1>10, <2>1, <2>2
  <1>12. t[9] = St(Put(Put(Put(s, h1), c), c), <<>>)
    <2>1. t[9] = ExecStep(spent, made, t[8], "OP_DUP")
          BY <1>1, <1>3
    <2>2. ExecStep(spent, made, St(Put(Put(s, h1), c), <<>>), "OP_DUP") = St(Put(Put(Put(s, h1), c), c), <<>>)
          BY <1>0, OnDup
    <2> QED BY <1>11, <2>1, <2>2
  <1>13. t[10] = St(Put(Put(s, h1), c), Put(<<>>, c))
    <2>1. t[10] = ExecStep(spent, made, t[9], "OP_TOALTSTACK")
          BY <1>1, <1>3
    <2>2. ExecStep(spent, made, St(Put(Put(Put(s, h1), c), c), <<>>), "OP_TOALTSTACK") = St(Put(Put(s, h1), c), Put(<<>>, c))
          BY <1>0, OnToAlt
    <2> QED BY <1>12, <2>1, <2>2
  <1>14. t[11] = St(Put(s, Hash256(h1 \o c)), Put(<<>>, c))
    <2>1. t[11] = ExecStep(spent, made, t[10], "hashChunk")
          BY <1>1, <1>3
    <2>2. ExecStep(spent, made, St(Put(Put(s, h1), c), Put(<<>>, c)), "hashChunk") = St(Put(s, Hash256(h1 \o c)), Put(<<>>, c))
          BY OnHashChunk
    <2> QED BY <1>13, <2>1, <2>2
  <1> QED BY <1>2, <1>14 DEF p

(* The note hash is folded in, and the accumulator put aside *)
LEMMA NoteHashed ==
  ASSUME NEW spent, NEW made, NEW s, List(s), NEW note, NEW h, NEW alt
  PROVE  Execs(spent, made, St(Put(Put(s, note), h), alt), <<"OP_SWAP", "hashChunk", "OP_TOALTSTACK">>)
         = St(s, Put(alt, Hash256(h \o note)))
  <1> DEFINE p == <<"OP_SWAP", "hashChunk", "OP_TOALTSTACK">>
  <1>1. /\ List(p) /\ Len(p) = 3
        /\ p[1] = "OP_SWAP" /\ p[2] = "hashChunk" /\ p[3] = "OP_TOALTSTACK"
        BY DEF List
  <1> HIDE DEF p
  <1>2. PICK t : IsRun(t, spent, made, St(Put(Put(s, note), h), alt), p) /\ Execs(spent, made, St(Put(Put(s, note), h), alt), p) = t[3]
    <2>1. \E t : IsRun(t, spent, made, St(Put(Put(s, note), h), alt), p) /\ Execs(spent, made, St(Put(Put(s, note), h), alt), p) = t[Len(p)]
          BY <1>1, RunsExist, Zenon
    <2> QED BY <1>1, <2>1
  <1>3. t[0] = St(Put(Put(s, note), h), alt) /\ \A i \in 1 .. 3 : t[i] = ExecStep(spent, made, t[i - 1], p[i])
        BY <1>1, <1>2 DEF IsRun
  <1>4. t[1] = St(Put(Put(s, h), note), alt)
    <2>1. t[1] = ExecStep(spent, made, t[0], "OP_SWAP")
          BY <1>1, <1>3
    <2>2. ExecStep(spent, made, St(Put(Put(s, note), h), alt), "OP_SWAP") = St(Put(Put(s, h), note), alt)
          BY OnSwap
    <2> QED BY <1>3, <2>1, <2>2
  <1>5. t[2] = St(Put(s, Hash256(h \o note)), alt)
    <2>1. t[2] = ExecStep(spent, made, t[1], "hashChunk")
          BY <1>1, <1>3
    <2>2. ExecStep(spent, made, St(Put(Put(s, h), note), alt), "hashChunk") = St(Put(s, Hash256(h \o note)), alt)
          BY OnHashChunk
    <2> QED BY <1>4, <2>1, <2>2
  <1>6. t[3] = St(s, Put(alt, Hash256(h \o note)))
    <2>1. t[3] = ExecStep(spent, made, t[2], "OP_TOALTSTACK")
          BY <1>1, <1>3
    <2>2. ExecStep(spent, made, St(Put(s, Hash256(h \o note)), alt), "OP_TOALTSTACK") = St(s, Put(alt, Hash256(h \o note)))
          BY OnToAlt
    <2> QED BY <1>5, <2>1, <2>2
  <1> QED BY <1>2, <1>6 DEF p

(* One limb is folded into the accumulator *)
LEMMA FoldLimbRuns ==
  ASSUME NEW spent, NEW made, NEW s, List(s), NEW limb, NEW alt, List(alt), NEW acc
  PROVE  Execs(spent, made, St(Put(s, limb), Put(alt, acc)), <<"OP_FROMALTSTACK", "OP_SWAP",
        "hashChunk", "OP_TOALTSTACK">>)
         = St(s, Put(alt, Hash256(acc \o limb)))
  <1> DEFINE p == <<"OP_FROMALTSTACK", "OP_SWAP",
        "hashChunk", "OP_TOALTSTACK">>
  <1>1. /\ List(p) /\ Len(p) = 4
        /\ p[1] = "OP_FROMALTSTACK" /\ p[2] = "OP_SWAP" /\ p[3] = "hashChunk" /\ p[4] = "OP_TOALTSTACK"
        BY DEF List
  <1> HIDE DEF p
  <1>2. PICK t : IsRun(t, spent, made, St(Put(s, limb), Put(alt, acc)), p) /\ Execs(spent, made, St(Put(s, limb), Put(alt, acc)), p) = t[4]
    <2>1. \E t : IsRun(t, spent, made, St(Put(s, limb), Put(alt, acc)), p) /\ Execs(spent, made, St(Put(s, limb), Put(alt, acc)), p) = t[Len(p)]
          BY <1>1, RunsExist, Zenon
    <2> QED BY <1>1, <2>1
  <1>3. t[0] = St(Put(s, limb), Put(alt, acc)) /\ \A i \in 1 .. 4 : t[i] = ExecStep(spent, made, t[i - 1], p[i])
        BY <1>1, <1>2 DEF IsRun
  <1>4. t[1] = St(Put(Put(s, limb), acc), alt)
    <2>1. t[1] = ExecStep(spent, made, t[0], "OP_FROMALTSTACK")
          BY <1>1, <1>3
    <2>2. ExecStep(spent, made, St(Put(s, limb), Put(alt, acc)), "OP_FROMALTSTACK") = St(Put(Put(s, limb), acc), alt)
          BY OnFromAlt
    <2> QED BY <1>3, <2>1, <2>2
  <1>5. t[2] = St(Put(Put(s, acc), limb), alt)
    <2>1. t[2] = ExecStep(spent, made, t[1], "OP_SWAP")
          BY <1>1, <1>3
    <2>2. ExecStep(spent, made, St(Put(Put(s, limb), acc), alt), "OP_SWAP") = St(Put(Put(s, acc), limb), alt)
          BY OnSwap
    <2> QED BY <1>4, <2>1, <2>2
  <1>6. t[3] = St(Put(s, Hash256(acc \o limb)), alt)
    <2>1. t[3] = ExecStep(spent, made, t[2], "hashChunk")
          BY <1>1, <1>3
    <2>2. ExecStep(spent, made, St(Put(Put(s, acc), limb), alt), "hashChunk") = St(Put(s, Hash256(acc \o limb)), alt)
          BY OnHashChunk
    <2> QED BY <1>5, <2>1, <2>2
  <1>7. t[4] = St(s, Put(alt, Hash256(acc \o limb)))
    <2>1. t[4] = ExecStep(spent, made, t[3], "OP_TOALTSTACK")
          BY <1>1, <1>3
    <2>2. ExecStep(spent, made, St(Put(s, Hash256(acc \o limb)), alt), "OP_TOALTSTACK") = St(s, Put(alt, Hash256(acc \o limb)))
          BY OnToAlt
    <2> QED BY <1>6, <2>1, <2>2
  <1> QED BY <1>2, <1>7 DEF p

(* The accumulator is all that is left *)
LEMMA FoldEndRuns ==
  ASSUME NEW spent, NEW made, NEW alt, List(alt), NEW acc
  PROVE  Execs(spent, made, St(<<>>, Put(alt, acc)), <<"OP_FROMALTSTACK", "OP_DEPTH",
        "OP_1", "OP_NUMEQUALVERIFY">>)
         = St(Put(<<>>, acc), alt)
  <1> DEFINE p == <<"OP_FROMALTSTACK", "OP_DEPTH",
        "OP_1", "OP_NUMEQUALVERIFY">>
  <1> PICK s : s = Put(<<>>, acc)
      OBVIOUS
  <1> PICK one : one = MinimalScriptNumber(1)
      OBVIOUS
  <1>0. List(s) /\ MinimalScriptNumber(Len(s)) = one
    <2>1. List(s) /\ Len(s) = 0 + 1
          BY ShortLists, PutIs
    <2>2. Len(s) = 1
          BY <2>1
    <2> QED BY <2>1, <2>2
  <1>1. /\ List(p) /\ Len(p) = 4
        /\ p[1] = "OP_FROMALTSTACK" /\ p[2] = "OP_DEPTH" /\ p[3] = "OP_1" /\ p[4] = "OP_NUMEQUALVERIFY"
        BY DEF List
  <1> HIDE DEF p
  <1>2. PICK t : IsRun(t, spent, made, St(<<>>, Put(alt, acc)), p) /\ Execs(spent, made, St(<<>>, Put(alt, acc)), p) = t[4]
    <2>1. \E t : IsRun(t, spent, made, St(<<>>, Put(alt, acc)), p) /\ Execs(spent, made, St(<<>>, Put(alt, acc)), p) = t[Len(p)]
          BY <1>1, RunsExist, Zenon
    <2> QED BY <1>1, <2>1
  <1>3. t[0] = St(<<>>, Put(alt, acc)) /\ \A i \in 1 .. 4 : t[i] = ExecStep(spent, made, t[i - 1], p[i])
        BY <1>1, <1>2 DEF IsRun
  <1>4. t[1] = St(s, alt)
    <2>1. t[1] = ExecStep(spent, made, t[0], "OP_FROMALTSTACK")
          BY <1>1, <1>3
    <2>2. ExecStep(spent, made, St(<<>>, Put(alt, acc)), "OP_FROMALTSTACK") = St(s, alt)
          BY OnFromAlt
    <2> QED BY <1>3, <2>1, <2>2
  <1>5. t[2] = St(Put(s, one), alt)
    <2>1. t[2] = ExecStep(spent, made, t[1], "OP_DEPTH")
          BY <1>1, <1>3
    <2>2. ExecStep(spent, made, St(s, alt), "OP_DEPTH") = St(Put(s, one), alt)
          BY <1>0, OnDepth
    <2> QED BY <1>4, <2>1, <2>2
  <1>6. t[3] = St(Put(Put(s, one), one), alt)
    <2>1. t[3] = ExecStep(spent, made, t[2], "OP_1")
          BY <1>1, <1>3
    <2>2. ExecStep(spent, made, St(Put(s, one), alt), "OP_1") = St(Put(Put(s, one), one), alt)
          BY On_OP_1
    <2> QED BY <1>5, <2>1, <2>2
  <1>7. t[4] = St(s, alt)
    <2>1. t[4] = ExecStep(spent, made, t[3], "OP_NUMEQUALVERIFY")
          BY <1>1, <1>3
    <2>2. ExecStep(spent, made, St(Put(Put(s, one), one), alt), "OP_NUMEQUALVERIFY") = St(s, alt)
          BY <1>0, OnEqual
    <2> QED BY <1>6, <2>1, <2>2
  <1> QED BY <1>2, <1>7 DEF p

(* The category of the output made *)
LEMMA MadeCategoryRuns ==
  ASSUME NEW spent, NEW made, NEW s, List(s), NEW alt
  PROVE  Execs(spent, made, St(s, alt), <<"OP_0", "OP_OUTPUTTOKENCATEGORY">>)
         = St(Put(s, TokenCategory(made)), alt)
  <1> DEFINE p == <<"OP_0", "OP_OUTPUTTOKENCATEGORY">>
  <1>1. /\ List(p) /\ Len(p) = 2
        /\ p[1] = "OP_0" /\ p[2] = "OP_OUTPUTTOKENCATEGORY"
        BY DEF List
  <1> HIDE DEF p
  <1>2. PICK t : IsRun(t, spent, made, St(s, alt), p) /\ Execs(spent, made, St(s, alt), p) = t[2]
    <2>1. \E t : IsRun(t, spent, made, St(s, alt), p) /\ Execs(spent, made, St(s, alt), p) = t[Len(p)]
          BY <1>1, RunsExist, Zenon
    <2> QED BY <1>1, <2>1
  <1>3. t[0] = St(s, alt) /\ \A i \in 1 .. 2 : t[i] = ExecStep(spent, made, t[i - 1], p[i])
        BY <1>1, <1>2 DEF IsRun
  <1>4. t[1] = St(Put(s, MinimalScriptNumber(0)), alt)
    <2>1. t[1] = ExecStep(spent, made, t[0], "OP_0")
          BY <1>1, <1>3
    <2>2. ExecStep(spent, made, St(s, alt), "OP_0") = St(Put(s, MinimalScriptNumber(0)), alt)
          BY On_OP_0
    <2> QED BY <1>3, <2>1, <2>2
  <1>5. t[2] = St(Put(s, TokenCategory(made)), alt)
    <2>1. t[2] = ExecStep(spent, made, t[1], "OP_OUTPUTTOKENCATEGORY")
          BY <1>1, <1>3
    <2>2. ExecStep(spent, made, St(Put(s, MinimalScriptNumber(0)), alt), "OP_OUTPUTTOKENCATEGORY") = St(Put(s, TokenCategory(made)), alt)
          BY OnMadeCategory
    <2> QED BY <1>4, <2>1, <2>2
  <1> QED BY <1>2, <1>5 DEF p

(* It is the category of the coin spent *)
LEMMA CategoriesEqual ==
  ASSUME NEW spent, NEW made, NEW acc, NEW a
  PROVE  Execs(spent, made, St(Put(Put(<<>>, acc), a), Put(<<>>, a)), <<"OP_FROMALTSTACK", "OP_EQUALVERIFY",
        "OP_0", "OP_OUTPUTTOKENCOMMITMENT", "OP_SWAP">>)
         = St(Put(Put(<<>>, made.commitment), acc), <<>>)
  <1> DEFINE p == <<"OP_FROMALTSTACK", "OP_EQUALVERIFY",
        "OP_0", "OP_OUTPUTTOKENCOMMITMENT", "OP_SWAP">>
  <1> PICK s : s = Put(<<>>, acc)
      OBVIOUS
  <1>0. List(<<>>) /\ List(s)
        BY ShortLists, PutIs
  <1>1. /\ List(p) /\ Len(p) = 5
        /\ p[1] = "OP_FROMALTSTACK" /\ p[2] = "OP_EQUALVERIFY" /\ p[3] = "OP_0"
           /\ p[4] = "OP_OUTPUTTOKENCOMMITMENT" /\ p[5] = "OP_SWAP"
        BY DEF List
  <1> HIDE DEF p
  <1>2. PICK t : IsRun(t, spent, made, St(Put(s, a), Put(<<>>, a)), p) /\ Execs(spent, made, St(Put(s, a), Put(<<>>, a)), p) = t[5]
    <2>1. \E t : IsRun(t, spent, made, St(Put(s, a), Put(<<>>, a)), p) /\ Execs(spent, made, St(Put(s, a), Put(<<>>, a)), p) = t[Len(p)]
          BY <1>1, RunsExist, Zenon
    <2> QED BY <1>1, <2>1
  <1>3. t[0] = St(Put(s, a), Put(<<>>, a)) /\ \A i \in 1 .. 5 : t[i] = ExecStep(spent, made, t[i - 1], p[i])
        BY <1>1, <1>2 DEF IsRun
  <1>4. t[1] = St(Put(Put(s, a), a), <<>>)
    <2>1. t[1] = ExecStep(spent, made, t[0], "OP_FROMALTSTACK")
          BY <1>1, <1>3
    <2>2. ExecStep(spent, made, St(Put(s, a), Put(<<>>, a)), "OP_FROMALTSTACK") = St(Put(Put(s, a), a), <<>>)
          BY <1>0, OnFromAlt
    <2> QED BY <1>3, <2>1, <2>2
  <1>5. t[2] = St(s, <<>>)
    <2>1. t[2] = ExecStep(spent, made, t[1], "OP_EQUALVERIFY")
          BY <1>1, <1>3
    <2>2. ExecStep(spent, made, St(Put(Put(s, a), a), <<>>), "OP_EQUALVERIFY") = St(s, <<>>)
          BY <1>0, OnEqual
    <2> QED BY <1>4, <2>1, <2>2
  <1>6. t[3] = St(Put(s, MinimalScriptNumber(0)), <<>>)
    <2>1. t[3] = ExecStep(spent, made, t[2], "OP_0")
          BY <1>1, <1>3
    <2>2. ExecStep(spent, made, St(s, <<>>), "OP_0") = St(Put(s, MinimalScriptNumber(0)), <<>>)
          BY On_OP_0
    <2> QED BY <1>5, <2>1, <2>2
  <1>7. t[4] = St(Put(s, made.commitment), <<>>)
    <2>1. t[4] = ExecStep(spent, made, t[3], "OP_OUTPUTTOKENCOMMITMENT")
          BY <1>1, <1>3
    <2>2. ExecStep(spent, made, St(Put(s, MinimalScriptNumber(0)), <<>>), "OP_OUTPUTTOKENCOMMITMENT") = St(Put(s, made.commitment), <<>>)
          BY <1>0, OnMadeCommitment
    <2> QED BY <1>6, <2>1, <2>2
  <1>8. t[5] = St(Put(Put(<<>>, made.commitment), acc), <<>>)
    <2>1. t[5] = ExecStep(spent, made, t[4], "OP_SWAP")
          BY <1>1, <1>3
    <2>2. ExecStep(spent, made, St(Put(s, made.commitment), <<>>), "OP_SWAP") = St(Put(Put(<<>>, made.commitment), acc), <<>>)
          BY <1>0, OnSwap
    <2> QED BY <1>7, <2>1, <2>2
  <1> QED BY <1>2, <1>8 DEF p

(* The commitment made is the accumulator *)
LEMMA CommitmentsEqual ==
  ASSUME NEW spent, NEW made, NEW acc, made.commitment = acc
  PROVE  Execs(spent, made, St(Put(Put(<<>>, made.commitment), acc), <<>>), <<"OP_EQUALVERIFY", "OP_1">>)
         = St(Put(<<>>, MinimalScriptNumber(1)), <<>>)
  <1> DEFINE p == <<"OP_EQUALVERIFY", "OP_1">>
  <1>0. List(<<>>)
        BY ShortLists
  <1>1. /\ List(p) /\ Len(p) = 2
        /\ p[1] = "OP_EQUALVERIFY" /\ p[2] = "OP_1"
        BY DEF List
  <1> HIDE DEF p
  <1>2. PICK t : IsRun(t, spent, made, St(Put(Put(<<>>, made.commitment), acc), <<>>), p) /\ Execs(spent, made, St(Put(Put(<<>>, made.commitment), acc), <<>>), p) = t[2]
    <2>1. \E t : IsRun(t, spent, made, St(Put(Put(<<>>, made.commitment), acc), <<>>), p) /\ Execs(spent, made, St(Put(Put(<<>>, made.commitment), acc), <<>>), p) = t[Len(p)]
          BY <1>1, RunsExist, Zenon
    <2> QED BY <1>1, <2>1
  <1>3. t[0] = St(Put(Put(<<>>, made.commitment), acc), <<>>) /\ \A i \in 1 .. 2 : t[i] = ExecStep(spent, made, t[i - 1], p[i])
        BY <1>1, <1>2 DEF IsRun
  <1>4. t[1] = St(<<>>, <<>>)
    <2>1. t[1] = ExecStep(spent, made, t[0], "OP_EQUALVERIFY")
          BY <1>1, <1>3
    <2>2. ExecStep(spent, made, St(Put(Put(<<>>, made.commitment), acc), <<>>), "OP_EQUALVERIFY") = St(<<>>, <<>>)
          BY <1>0, OnEqual
    <2> QED BY <1>3, <2>1, <2>2
  <1>5. t[2] = St(Put(<<>>, MinimalScriptNumber(1)), <<>>)
    <2>1. t[2] = ExecStep(spent, made, t[1], "OP_1")
          BY <1>1, <1>3
    <2>2. ExecStep(spent, made, St(<<>>, <<>>), "OP_1") = St(Put(<<>>, MinimalScriptNumber(1)), <<>>)
          BY On_OP_1
    <2> QED BY <1>4, <2>1, <2>2
  <1> QED BY <1>2, <1>5 DEF p

(* The commitment made is not the accumulator *)
LEMMA CommitmentsDiffer ==
  ASSUME NEW spent, NEW made, NEW acc, NEW c, c = made.commitment, c # acc
  PROVE  Execs(spent, made, St(Put(Put(<<>>, c), acc), <<>>), <<"OP_EQUALVERIFY">>)
         = Halted(<<>>, <<>>, No)
  <1> DEFINE p == <<"OP_EQUALVERIFY">>
  <1>0. List(<<>>) /\ Compared(<<>>, <<>>, c, acc) = Halted(<<>>, <<>>, No)
    <2> PICK holds : holds = (Length(acc) = Length(c) /\ acc = c)
        OBVIOUS
    <2>1. holds = No
          BY DEF No
    <2>2. Halted(<<>>, <<>>, holds) = Halted(<<>>, <<>>, No)
          BY <2>1, Zenon
    <2> QED BY <2>2, ShortLists, Zenon DEF Compared
  <1>1. /\ List(p) /\ Len(p) = 1
        /\ p[1] = "OP_EQUALVERIFY"
        BY DEF List
  <1> HIDE DEF p
  <1>2. PICK t : IsRun(t, spent, made, St(Put(Put(<<>>, c), acc), <<>>), p) /\ Execs(spent, made, St(Put(Put(<<>>, c), acc), <<>>), p) = t[1]
    <2>1. \E t : IsRun(t, spent, made, St(Put(Put(<<>>, c), acc), <<>>), p) /\ Execs(spent, made, St(Put(Put(<<>>, c), acc), <<>>), p) = t[Len(p)]
          BY <1>1, RunsExist, Zenon
    <2> QED BY <1>1, <2>1
  <1>3. t[0] = St(Put(Put(<<>>, c), acc), <<>>) /\ \A i \in 1 .. 1 : t[i] = ExecStep(spent, made, t[i - 1], p[i])
        BY <1>1, <1>2 DEF IsRun
  <1>4. t[1] = Halted(<<>>, <<>>, No)
    <2>1. t[1] = ExecStep(spent, made, t[0], "OP_EQUALVERIFY")
          BY <1>1, <1>3
    <2>2. ExecStep(spent, made, St(Put(Put(<<>>, c), acc), <<>>), "OP_EQUALVERIFY") = Halted(<<>>, <<>>, No)
          BY <1>0, Compares
    <2> QED BY <1>3, <2>1, <2>2
  <1> QED BY <1>2, <1>4 DEF p

-----------------------------------------------------------------------------
(* The programs of the fold *)

Joins(a, b, c) ==
  /\ List(a) /\ List(b) /\ List(c) /\ Len(c) = Len(a) + Len(b)
  /\ \A i \in 1 .. Len(a) : c[i] = a[i]
  /\ \A i \in 1 .. Len(b) : c[Len(a) + i] = b[i]

(* Two lists joined, item by item *)
LEMMA JoinElements ==
  ASSUME NEW a, NEW b, NEW c, Joins(a, b, c)
  PROVE  Join(a, b) = c
  <1>0. /\ List(a) /\ List(b) /\ List(c) /\ Len(c) = Len(a) + Len(b)
        /\ \A i \in 1 .. Len(a) : c[i] = a[i]
        /\ \A i \in 1 .. Len(b) : c[Len(a) + i] = b[i]
        BY DEF Joins
  <1> PICK j \in Nat : j = Len(a)
      BY <1>0 DEF List
  <1> PICK k \in Nat : k = Len(b)
      BY <1>0 DEF List
  <1> PICK d : d = a \o b
      OBVIOUS
  <1>1. List(d) /\ Len(d) = j + k
        BY <1>0, JoinedLists
  <1>2. ASSUME NEW i \in 1 .. j + k PROVE d[i] = c[i]
    <2>1. CASE i <= j
      <3>1. i \in 1 .. Len(a)
            BY <2>1
      <3>2. d[i] = a[i]
            BY <1>0, <3>1, JoinedLists
      <3> QED BY <1>0, <3>1, <3>2
    <2>2. CASE i > j
      <3>1. i - j \in 1 .. Len(b) /\ i = j + (i - j)
            BY <2>2
      <3>2. d[Len(a) + (i - j)] = b[i - j] /\ c[Len(a) + (i - j)] = b[i - j]
            BY <1>0, <3>1, JoinedLists
      <3> QED BY <3>1, <3>2
    <2> QED BY <2>1, <2>2
  <1>3. Len(c) = j + k
        BY <1>0
  <1>4. d = c
        BY <1>0, <1>1, <1>2, <1>3 DEF List
  <1> QED BY <1>4 DEF Join

(* The programs are these pieces *)
LEMMA ProgramPieces ==
  /\ <<"OP_DEPTH", "x40", "OP_LESSTHANOREQUAL">> \o <<"OP_VERIFY">>
     = <<"OP_DEPTH", "x40", "OP_LESSTHANOREQUAL", "OP_VERIFY">>
  /\ <<"OP_FROMALTSTACK", "OP_DUP", "OP_DUP", "OP_CAT", "OP_HASH256", "OP_SWAP",
       "hashChunk", "OP_FROMALTSTACK", "OP_DUP", "OP_TOALTSTACK", "hashChunk">> \o <<"OP_SWAP", "hashChunk", "OP_TOALTSTACK">>
     = <<"OP_FROMALTSTACK", "OP_DUP", "OP_DUP", "OP_CAT", "OP_HASH256", "OP_SWAP",
         "hashChunk", "OP_FROMALTSTACK", "OP_DUP", "OP_TOALTSTACK", "hashChunk", "OP_SWAP", "hashChunk", "OP_TOALTSTACK">>
  /\ <<"OP_FROMALTSTACK", "OP_EQUALVERIFY", "OP_0", "OP_OUTPUTTOKENCOMMITMENT", "OP_SWAP">> \o <<"OP_EQUALVERIFY", "OP_1">>
     = <<"OP_FROMALTSTACK", "OP_EQUALVERIFY", "OP_0", "OP_OUTPUTTOKENCOMMITMENT",
         "OP_SWAP", "OP_EQUALVERIFY", "OP_1">>
  /\ <<"OP_EQUALVERIFY">> \o <<"OP_1">>
     = <<"OP_EQUALVERIFY", "OP_1">>
  <1>1. <<"OP_DEPTH", "x40", "OP_LESSTHANOREQUAL">> \o <<"OP_VERIFY">>
        = <<"OP_DEPTH", "x40", "OP_LESSTHANOREQUAL", "OP_VERIFY">>
    <2> DEFINE a == <<"OP_DEPTH", "x40", "OP_LESSTHANOREQUAL">>
               b == <<"OP_VERIFY">>
               c == <<"OP_DEPTH", "x40", "OP_LESSTHANOREQUAL", "OP_VERIFY">>
    <2>1. List(a) /\ List(b) /\ List(c) /\ Len(a) = 3 /\ Len(b) = 1 /\ Len(c) = 4
          BY DEF List
    <2>2. /\ a[1] = "OP_DEPTH" /\ a[2] = "x40" /\ a[3] = "OP_LESSTHANOREQUAL" /\ b[1] = "OP_VERIFY"
          OBVIOUS
    <2>3. /\ c[1] = "OP_DEPTH" /\ c[2] = "x40" /\ c[3] = "OP_LESSTHANOREQUAL" /\ c[4] = "OP_VERIFY"
          OBVIOUS
    <2> HIDE DEF a, b, c
    <2>4. \A i \in 1 .. 3 : c[i] = a[i]
          BY <2>2, <2>3
    <2>5. \A i \in 1 .. 1 : c[3 + i] = b[i]
          BY <2>2, <2>3
    <2>6. Joins(a, b, c)
          BY <2>1, <2>4, <2>5 DEF Joins
    <2>7. Join(a, b) = c
          BY <2>6, JoinElements
    <2> QED BY <2>7, Zenon DEF a, b, c, Join
  <1>2. <<"OP_FROMALTSTACK", "OP_DUP", "OP_DUP", "OP_CAT", "OP_HASH256", "OP_SWAP",
         "hashChunk", "OP_FROMALTSTACK", "OP_DUP", "OP_TOALTSTACK", "hashChunk">> \o <<"OP_SWAP", "hashChunk", "OP_TOALTSTACK">>
        = <<"OP_FROMALTSTACK", "OP_DUP", "OP_DUP", "OP_CAT", "OP_HASH256", "OP_SWAP",
            "hashChunk", "OP_FROMALTSTACK", "OP_DUP", "OP_TOALTSTACK", "hashChunk", "OP_SWAP", "hashChunk", "OP_TOALTSTACK">>
    <2> DEFINE a == <<"OP_FROMALTSTACK", "OP_DUP", "OP_DUP", "OP_CAT", "OP_HASH256", "OP_SWAP",
                  "hashChunk", "OP_FROMALTSTACK", "OP_DUP", "OP_TOALTSTACK", "hashChunk">>
               b == <<"OP_SWAP", "hashChunk", "OP_TOALTSTACK">>
               c == <<"OP_FROMALTSTACK", "OP_DUP", "OP_DUP", "OP_CAT", "OP_HASH256", "OP_SWAP",
                  "hashChunk", "OP_FROMALTSTACK", "OP_DUP", "OP_TOALTSTACK", "hashChunk", "OP_SWAP", "hashChunk", "OP_TOALTSTACK">>
    <2>1. List(a) /\ List(b) /\ List(c) /\ Len(a) = 11 /\ Len(b) = 3 /\ Len(c) = 14
          BY DEF List
    <2>2. /\ a[1] = "OP_FROMALTSTACK" /\ a[2] = "OP_DUP" /\ a[3] = "OP_DUP" /\ a[4] = "OP_CAT"
          /\ a[5] = "OP_HASH256" /\ a[6] = "OP_SWAP" /\ a[7] = "hashChunk" /\ a[8] = "OP_FROMALTSTACK"
          /\ a[9] = "OP_DUP" /\ a[10] = "OP_TOALTSTACK" /\ a[11] = "hashChunk" /\ b[1] = "OP_SWAP"
          /\ b[2] = "hashChunk" /\ b[3] = "OP_TOALTSTACK"
          OBVIOUS
    <2>3. /\ c[1] = "OP_FROMALTSTACK" /\ c[2] = "OP_DUP" /\ c[3] = "OP_DUP" /\ c[4] = "OP_CAT"
          /\ c[5] = "OP_HASH256" /\ c[6] = "OP_SWAP" /\ c[7] = "hashChunk" /\ c[8] = "OP_FROMALTSTACK"
          /\ c[9] = "OP_DUP" /\ c[10] = "OP_TOALTSTACK" /\ c[11] = "hashChunk" /\ c[12] = "OP_SWAP"
          /\ c[13] = "hashChunk" /\ c[14] = "OP_TOALTSTACK"
          OBVIOUS
    <2> HIDE DEF a, b, c
    <2>4. \A i \in 1 .. 11 : c[i] = a[i]
          BY <2>2, <2>3
    <2>5. \A i \in 1 .. 3 : c[11 + i] = b[i]
          BY <2>2, <2>3
    <2>6. Joins(a, b, c)
          BY <2>1, <2>4, <2>5 DEF Joins
    <2>7. Join(a, b) = c
          BY <2>6, JoinElements
    <2> QED BY <2>7, Zenon DEF a, b, c, Join
  <1>3. <<"OP_FROMALTSTACK", "OP_EQUALVERIFY", "OP_0", "OP_OUTPUTTOKENCOMMITMENT", "OP_SWAP">> \o <<"OP_EQUALVERIFY", "OP_1">>
        = <<"OP_FROMALTSTACK", "OP_EQUALVERIFY", "OP_0", "OP_OUTPUTTOKENCOMMITMENT",
            "OP_SWAP", "OP_EQUALVERIFY", "OP_1">>
    <2> DEFINE a == <<"OP_FROMALTSTACK", "OP_EQUALVERIFY", "OP_0", "OP_OUTPUTTOKENCOMMITMENT", "OP_SWAP">>
               b == <<"OP_EQUALVERIFY", "OP_1">>
               c == <<"OP_FROMALTSTACK", "OP_EQUALVERIFY", "OP_0", "OP_OUTPUTTOKENCOMMITMENT",
                  "OP_SWAP", "OP_EQUALVERIFY", "OP_1">>
    <2>1. List(a) /\ List(b) /\ List(c) /\ Len(a) = 5 /\ Len(b) = 2 /\ Len(c) = 7
          BY DEF List
    <2>2. /\ a[1] = "OP_FROMALTSTACK" /\ a[2] = "OP_EQUALVERIFY" /\ a[3] = "OP_0"
          /\ a[4] = "OP_OUTPUTTOKENCOMMITMENT" /\ a[5] = "OP_SWAP" /\ b[1] = "OP_EQUALVERIFY"
          /\ b[2] = "OP_1"
          OBVIOUS
    <2>3. /\ c[1] = "OP_FROMALTSTACK" /\ c[2] = "OP_EQUALVERIFY" /\ c[3] = "OP_0"
          /\ c[4] = "OP_OUTPUTTOKENCOMMITMENT" /\ c[5] = "OP_SWAP" /\ c[6] = "OP_EQUALVERIFY"
          /\ c[7] = "OP_1"
          OBVIOUS
    <2> HIDE DEF a, b, c
    <2>4. \A i \in 1 .. 5 : c[i] = a[i]
          BY <2>2, <2>3
    <2>5. \A i \in 1 .. 2 : c[5 + i] = b[i]
          BY <2>2, <2>3
    <2>6. Joins(a, b, c)
          BY <2>1, <2>4, <2>5 DEF Joins
    <2>7. Join(a, b) = c
          BY <2>6, JoinElements
    <2> QED BY <2>7, Zenon DEF a, b, c, Join
  <1>4. <<"OP_EQUALVERIFY">> \o <<"OP_1">>
        = <<"OP_EQUALVERIFY", "OP_1">>
    <2> DEFINE a == <<"OP_EQUALVERIFY">>
               b == <<"OP_1">>
               c == <<"OP_EQUALVERIFY", "OP_1">>
    <2>1. List(a) /\ List(b) /\ List(c) /\ Len(a) = 1 /\ Len(b) = 1 /\ Len(c) = 2
          BY DEF List
    <2>2. /\ a[1] = "OP_EQUALVERIFY" /\ b[1] = "OP_1"
          OBVIOUS
    <2>3. /\ c[1] = "OP_EQUALVERIFY" /\ c[2] = "OP_1"
          OBVIOUS
    <2> HIDE DEF a, b, c
    <2>4. \A i \in 1 .. 1 : c[i] = a[i]
          BY <2>2, <2>3
    <2>5. \A i \in 1 .. 1 : c[1 + i] = b[i]
          BY <2>2, <2>3
    <2>6. Joins(a, b, c)
          BY <2>1, <2>4, <2>5 DEF Joins
    <2>7. Join(a, b) = c
          BY <2>6, JoinElements
    <2> QED BY <2>7, Zenon DEF a, b, c, Join
  <1> QED BY <1>1, <1>2, <1>3, <1>4, Zenon

(* Each piece is a list of opcodes *)
LEMMA PieceLists ==
  /\ List(<<"OP_DEPTH", "x40", "OP_LESSTHANOREQUAL">>) /\ List(<<"OP_VERIFY">>)
  /\ List(<<"OP_DEPTH", "x40", "OP_LESSTHANOREQUAL", "OP_VERIFY">>)
  /\ List(<<"OP_FROMALTSTACK", "OP_DUP", "OP_DUP", "OP_CAT", "OP_HASH256",
        "OP_SWAP", "hashChunk", "OP_FROMALTSTACK", "OP_DUP", "OP_TOALTSTACK", "hashChunk">>)
  /\ List(<<"OP_SWAP", "hashChunk", "OP_TOALTSTACK">>)
  /\ List(<<"OP_0", "OP_OUTPUTTOKENCATEGORY">>)
  /\ List(<<"OP_FROMALTSTACK", "OP_EQUALVERIFY", "OP_0", "OP_OUTPUTTOKENCOMMITMENT", "OP_SWAP">>)
  /\ List(<<"OP_EQUALVERIFY", "OP_1">>) /\ List(<<"OP_EQUALVERIFY">>) /\ List(<<"OP_1">>)
  /\ List(<<"OP_SIZE", "x20", "OP_EQUALVERIFY">>)
  /\ List(<<"OP_FROMALTSTACK", "OP_DUP", "OP_DUP", "OP_CAT", "OP_HASH256", "OP_SWAP", "hashChunk",
            "OP_FROMALTSTACK", "OP_DUP", "OP_TOALTSTACK", "hashChunk", "OP_SWAP", "hashChunk", "OP_TOALTSTACK">>)
  BY DEF List

(* The base of the fold as the machine computes it, hash by hash *)
MachineBase(x, c, note) == Hash256(Hash256(Hash256(Hash256(x \o x) \o x) \o c) \o note)

(* Up to 64 items, the limbs are left on the stack and the accumulator is the base of their fold *)
LEMMA PreHashIs ==
  ASSUME NEW spent, NEW made, NEW s, List(s), NEW note, Length(note) = 32, NEW c, NEW x,
         Len(Put(s, note)) \in Number, Len(Put(s, note)) <= 64
  PROVE  Execs(spent, made, St(Put(s, note), Put(Put(<<>>, c), x)), PreHash)
         = St(s, Put(Put(<<>>, c), MachineBase(x, c, note)))
  <1> PICK all : all = Put(s, note)
      OBVIOUS
  <1> PICK alt : alt = Put(Put(<<>>, c), x)
      OBVIOUS
  <1> PICK p : p = <<"OP_DEPTH", "x40", "OP_LESSTHANOREQUAL">>
      OBVIOUS
  <1> PICK v : v = <<"OP_VERIFY">>
      OBVIOUS
  <1> PICK w : w = IsSize("x20")
      OBVIOUS
  <1> PICK q : q = <<"OP_FROMALTSTACK", "OP_DUP", "OP_DUP", "OP_CAT", "OP_HASH256",
                     "OP_SWAP", "hashChunk", "OP_FROMALTSTACK", "OP_DUP", "OP_TOALTSTACK", "hashChunk">>
      OBVIOUS
  <1> PICK r : r = <<"OP_SWAP", "hashChunk", "OP_TOALTSTACK">>
      OBVIOUS
  <1> PICK h : h = Hash256(Hash256(Hash256(x \o x) \o x) \o c)
      OBVIOUS
  <1> PICK yes : yes = Truth(Len(all) <= 64)
      OBVIOUS
  <1> PICK m0 : m0 = St(all, alt)
      OBVIOUS
  <1> PICK m1 : m1 = St(Put(all, yes), alt)
      OBVIOUS
  <1> PICK m2 : m2 = St(Put(all, h), Put(<<>>, c))
      OBVIOUS
  <1>1. List(p) /\ List(v) /\ List(q) /\ List(r) /\ List(all)
        BY PieceLists, PutIs
  <1>2. yes # <<>>
    <2>1. yes = <<Byte(1)>>
          BY DEF Truth
    <2>2. <<Byte(1)>> # <<>>
          OBVIOUS
    <2> QED BY <2>1, <2>2, Zenon
  <1>3. Execs(spent, made, m0, p) = m1
        BY <1>1, DepthRuns
  <1>4. Execs(spent, made, m1, v) = m0
        BY <1>1, <1>2, VerifyRuns
  <1>5. Execs(spent, made, m0, w) = m0 /\ List(w)
        BY Is20Holds
  <1>6. Execs(spent, made, m0, q) = m2
        BY <1>1, FirstHashes
  <1>7. Execs(spent, made, m2, r) = St(s, Put(Put(<<>>, c), Hash256(h \o note)))
        BY NoteHashed
  <1>8. List(p \o v) /\ Execs(spent, made, m0, p \o v) = m0
        BY <1>1, <1>3, <1>4, ExecJoin
  <1> PICK pv : pv = p \o v
      OBVIOUS
  <1>9. List(pv \o w) /\ Execs(spent, made, m0, pv \o w) = m0
        BY <1>5, <1>8, ExecJoin
  <1> PICK pvw : pvw = pv \o w
      OBVIOUS
  <1>10. List(q \o r) /\ Execs(spent, made, m0, q \o r) = Execs(spent, made, m2, r)
         BY <1>1, <1>6, ExecJoin
  <1> PICK qr : qr = q \o r
      OBVIOUS
  <1>11. Execs(spent, made, m0, pvw \o qr) = Execs(spent, made, m2, r)
         BY <1>9, <1>10, ExecJoin
  <1>12. PreHash = pvw \o qr
    <2>1. /\ pv = <<"OP_DEPTH", "x40", "OP_LESSTHANOREQUAL", "OP_VERIFY">>
          /\ qr = <<"OP_FROMALTSTACK", "OP_DUP", "OP_DUP", "OP_CAT", "OP_HASH256", "OP_SWAP", "hashChunk",
                    "OP_FROMALTSTACK", "OP_DUP", "OP_TOALTSTACK", "hashChunk", "OP_SWAP", "hashChunk", "OP_TOALTSTACK">>
          BY ProgramPieces, Zenon
    <2> QED BY <2>1, Zenon DEF PreHash
  <1>13. Hash256(h \o note) = MachineBase(x, c, note)
         BY Zenon DEF MachineBase
  <1> QED BY <1>7, <1>11, <1>12, <1>13

(* With more than 64, the machine stops *)
LEMMA PreHashStops ==
  ASSUME NEW spent, NEW made, NEW s, List(s), Len(s) \in Number, Len(s) > 64, NEW alt
  PROVE  ~Execs(spent, made, St(s, alt), PreHash).ok
  <1> PICK p : p = <<"OP_DEPTH", "x40", "OP_LESSTHANOREQUAL">>
      OBVIOUS
  <1> PICK v : v = <<"OP_VERIFY">>
      OBVIOUS
  <1> PICK w : w = IsSize("x20")
      OBVIOUS
  <1> PICK q : q = <<"OP_FROMALTSTACK", "OP_DUP", "OP_DUP", "OP_CAT", "OP_HASH256", "OP_SWAP", "hashChunk",
                    "OP_FROMALTSTACK", "OP_DUP", "OP_TOALTSTACK", "hashChunk", "OP_SWAP", "hashChunk", "OP_TOALTSTACK">>
      OBVIOUS
  <1> PICK m0 : m0 = St(s, alt)
      OBVIOUS
  <1> PICK no : no = Halted(s, alt, No)
      OBVIOUS
  <1> PICK m1 : m1 = St(Put(s, <<>>), alt)
      OBVIOUS
  <1>0. ~no.ok
        BY DEF Halted, No
  <1>1. List(p) /\ List(v) /\ List(w) /\ List(q)
        BY PieceLists DEF IsSize
  <1>2. Execs(spent, made, m0, p) = m1
    <2>1. Truth(Len(s) <= 64) = <<>>
      <3>0. Len(s) \in Nat
            BY NumberIsNat
      <3>1. ~(Len(s) <= 64)
            BY <3>0
      <3> QED BY <3>1 DEF Truth
    <2>2. Execs(spent, made, m0, p) = St(Put(s, Truth(Len(s) <= 64)), alt)
          BY DepthRuns
    <2> QED BY <2>1, <2>2
  <1>3. Execs(spent, made, m1, v) = no
        BY RefuseRuns
  <1>4. List(p \o v) /\ Execs(spent, made, m0, p \o v) = no
        BY <1>1, <1>2, <1>3, ExecJoin
  <1> PICK pv : pv = p \o v
      OBVIOUS
  <1>5. List(pv \o w) /\ Execs(spent, made, m0, pv \o w) = no
    <2>1. Execs(spent, made, no, w) = no
          BY <1>0, <1>1, ExecStopped
    <2> QED BY <1>1, <1>4, <2>1, ExecJoin
  <1> PICK pvw : pvw = pv \o w
      OBVIOUS
  <1>6. Execs(spent, made, m0, pvw \o q) = no
    <2>1. Execs(spent, made, no, q) = no
          BY <1>0, <1>1, ExecStopped
    <2> QED BY <1>1, <1>5, <2>1, ExecJoin
  <1>7. PreHash = pvw \o q
    <2>1. pv = <<"OP_DEPTH", "x40", "OP_LESSTHANOREQUAL", "OP_VERIFY">>
          BY ProgramPieces, Zenon
    <2> QED BY <2>1, Zenon DEF PreHash
  <1> QED BY <1>0, <1>6, <1>7

(* One round of the loop folds the last limb of the stack *)
LEMMA FoldLimbIs ==
  ASSUME NEW spent, NEW made, NEW s, List(s), NEW limb, NEW alt, List(alt), NEW acc
  PROVE  Execs(spent, made, St(Put(s, limb), Put(alt, acc)), FoldLimb) = St(s, Put(alt, Hash256(acc \o limb)))
  BY FoldLimbRuns DEF FoldLimb

(* With no limb left, the accumulator is put back on the stack *)
LEMMA FoldEndIs ==
  ASSUME NEW spent, NEW made, NEW alt, List(alt), NEW acc
  PROVE  Execs(spent, made, St(<<>>, Put(alt, acc)), FoldEnd) = St(Put(<<>>, acc), alt)
  BY FoldEndRuns DEF FoldEnd

(* The output made carries the category and the accumulator *)
LEMMA AssertHolds ==
  ASSUME NEW spent, NEW made, NEW category, Word(category), NEW c, Mutable(c, category), TokenCategory(made) = c,
         NEW acc, made.commitment = acc
  PROVE  Execs(spent, made, St(Put(<<>>, acc), Put(<<>>, c)), AssertStateOut) = St(Put(<<>>, MinimalScriptNumber(1)), <<>>)
  <1> PICK s : s = Put(<<>>, acc)
      OBVIOUS
  <1> PICK p : p = <<"OP_0", "OP_OUTPUTTOKENCATEGORY">>
      OBVIOUS
  <1> PICK n : n = IsMutable
      OBVIOUS
  <1> PICK q : q = <<"OP_FROMALTSTACK", "OP_EQUALVERIFY", "OP_0", "OP_OUTPUTTOKENCOMMITMENT", "OP_SWAP">>
      OBVIOUS
  <1> PICK r : r = <<"OP_EQUALVERIFY", "OP_1">>
      OBVIOUS
  <1> PICK m0 : m0 = St(s, Put(<<>>, c))
      OBVIOUS
  <1> PICK m1 : m1 = St(Put(s, c), Put(<<>>, c))
      OBVIOUS
  <1> PICK m2 : m2 = St(Put(Put(<<>>, made.commitment), acc), <<>>)
      OBVIOUS
  <1> PICK end : end = St(Put(<<>>, MinimalScriptNumber(1)), <<>>)
      OBVIOUS
  <1>1. List(p) /\ List(q) /\ List(r) /\ List(s)
        BY PieceLists, PutIs, ShortLists
  <1>2. Execs(spent, made, m0, p) = m1
        BY <1>1, MadeCategoryRuns
  <1>3. Execs(spent, made, m1, n) = m1 /\ List(n)
        BY <1>1, IsMutableHolds
  <1>4. Execs(spent, made, m1, q) = m2
        BY CategoriesEqual
  <1>5. Execs(spent, made, m2, r) = end
        BY CommitmentsEqual
  <1>6. List(p \o n) /\ Execs(spent, made, m0, p \o n) = m1
        BY <1>1, <1>2, <1>3, ExecJoin
  <1> PICK pn : pn = p \o n
      OBVIOUS
  <1>7. List(q \o r) /\ Execs(spent, made, m1, q \o r) = end
        BY <1>1, <1>4, <1>5, ExecJoin
  <1> PICK qr : qr = q \o r
      OBVIOUS
  <1>8. Execs(spent, made, m0, pn \o qr) = end
        BY <1>6, <1>7, ExecJoin
  <1>9. AssertStateOut = pn \o qr
    <2>1. qr = <<"OP_FROMALTSTACK", "OP_EQUALVERIFY", "OP_0", "OP_OUTPUTTOKENCOMMITMENT", "OP_SWAP", "OP_EQUALVERIFY", "OP_1">>
          BY ProgramPieces, Zenon
    <2> QED BY <2>1, Zenon DEF AssertStateOut
  <1> QED BY <1>8, <1>9

(* The output made carries the category and another commitment *)
LEMMA AssertStops ==
  ASSUME NEW spent, NEW made, NEW category, Word(category), NEW c, Mutable(c, category), TokenCategory(made) = c,
         NEW acc, made.commitment # acc
  PROVE  ~Execs(spent, made, St(Put(<<>>, acc), Put(<<>>, c)), AssertStateOut).ok
  <1> PICK s : s = Put(<<>>, acc)
      OBVIOUS
  <1> PICK p : p = <<"OP_0", "OP_OUTPUTTOKENCATEGORY">>
      OBVIOUS
  <1> PICK n : n = IsMutable
      OBVIOUS
  <1> PICK q : q = <<"OP_FROMALTSTACK", "OP_EQUALVERIFY", "OP_0", "OP_OUTPUTTOKENCOMMITMENT", "OP_SWAP">>
      OBVIOUS
  <1> PICK u : u = <<"OP_EQUALVERIFY">>
      OBVIOUS
  <1> PICK v : v = <<"OP_1">>
      OBVIOUS
  <1> PICK m0 : m0 = St(s, Put(<<>>, c))
      OBVIOUS
  <1> PICK m1 : m1 = St(Put(s, c), Put(<<>>, c))
      OBVIOUS
  <1> PICK m2 : m2 = St(Put(Put(<<>>, made.commitment), acc), <<>>)
      OBVIOUS
  <1> PICK no : no = Halted(<<>>, <<>>, No)
      OBVIOUS
  <1>0. ~no.ok
        BY DEF Halted, No
  <1>1. List(p) /\ List(q) /\ List(u) /\ List(v) /\ List(s)
        BY PieceLists, PutIs, ShortLists
  <1>2. Execs(spent, made, m0, p) = m1
        BY <1>1, MadeCategoryRuns
  <1>3. Execs(spent, made, m1, n) = m1 /\ List(n)
        BY <1>1, IsMutableHolds
  <1>4. Execs(spent, made, m1, q) = m2
        BY CategoriesEqual
  <1>5. Execs(spent, made, m2, u) = no
        BY CommitmentsDiffer
  <1>6. List(p \o n) /\ Execs(spent, made, m0, p \o n) = m1
        BY <1>1, <1>2, <1>3, ExecJoin
  <1> PICK pn : pn = p \o n
      OBVIOUS
  <1>7. List(u \o v) /\ Execs(spent, made, m2, u \o v) = no
    <2>1. Execs(spent, made, no, v) = no
          BY <1>0, <1>1, ExecStopped
    <2> QED BY <1>1, <1>5, <2>1, ExecJoin
  <1> PICK r : r = u \o v
      OBVIOUS
  <1>8. List(q \o r) /\ Execs(spent, made, m1, q \o r) = no
        BY <1>1, <1>4, <1>7, ExecJoin
  <1> PICK qr : qr = q \o r
      OBVIOUS
  <1>9. Execs(spent, made, m0, pn \o qr) = no
        BY <1>6, <1>8, ExecJoin
  <1>10. AssertStateOut = pn \o qr
    <2>1. r = <<"OP_EQUALVERIFY", "OP_1">>
          BY ProgramPieces, Zenon
    <2>2. qr = <<"OP_FROMALTSTACK", "OP_EQUALVERIFY", "OP_0", "OP_OUTPUTTOKENCOMMITMENT", "OP_SWAP", "OP_EQUALVERIFY", "OP_1">>
          BY <2>1, ProgramPieces, Zenon
    <2> QED BY <2>2, Zenon DEF AssertStateOut
  <1> QED BY <1>0, <1>9, <1>10

-----------------------------------------------------------------------------
(* What the node finds *)

(* A signature made by SignInput is the one the lock of the coin asks for *)
LEMMA SignaturesHold ==
  ASSUME NEW i, NEW coin, built.spent[i] = coin, KeyLocked(coin), coin.key # "covenant"
  PROVE  InputSigned(i, SigScript(built.tx, i, coin))
  <1> PICK tx : tx = built.tx
      OBVIOUS
  <1> PICK sig : sig = Signature(tx, i, coin)
      OBVIOUS
  <1> PICK pub : pub = PublicKey(coin.key)
      OBVIOUS
  <1> PICK p : p = ParseScriptPushes(SigScript(tx, i, coin))
      OBVIOUS
  <1>1. p = [ok |-> Yes, pushes |-> <<sig, pub>>]
        BY SigScriptIs
  <1>2. p.ok /\ Len(p.pushes) = 2 /\ p.pushes[1] = sig /\ p.pushes[2] = pub
    <2>1. p.ok = Yes /\ p.pushes = <<sig, pub>>
          BY <1>1
    <2>2. Len(<<sig, pub>>) = 2 /\ <<sig, pub>>[1] = sig /\ <<sig, pub>>[2] = pub
          OBVIOUS
    <2> QED BY <2>1, <2>2 DEF Yes
  <1>3. P2PKHHash(coin.lock) = Hash160(pub)
    <2>1. coin.lock = P2PKH(Hash160(pub))
          BY DEF KeyLocked
    <2>2. ByteString(Hash160(pub)) /\ Length(Hash160(pub)) = 20
          BY KeyStrings
    <2> QED BY <2>1, <2>2, P2PKHIs
  <1>4. pub[1][2] = coin.key
        BY KeyStrings
  <1>5. sig = SchnorrSign(Hash256(GetPreimage(tx, i, coin.lock, coin.value, <<>>)), coin.key) \o <<Byte(HASHTYPE)>>
        BY Zenon DEF Signature, Digest
  <1> PICK digest : digest = Hash256(GetPreimage(tx, i, coin.lock, coin.value, <<>>))
      OBVIOUS
  <1>6. p.pushes[1] = SchnorrSign(digest, p.pushes[2][1][2]) \o <<Byte(HASHTYPE)>>
        BY <1>2, <1>4, <1>5
  <1>7. P2PKHHash(built.spent[i].lock) = Hash160(p.pushes[2])
        BY <1>2, <1>3
  <1>8. digest = Hash256(GetPreimage(built.tx, i, built.spent[i].lock, built.spent[i].value, <<>>))
        OBVIOUS
  <1>9. p = ParseScriptPushes(SigScript(built.tx, i, coin))
        OBVIOUS
  <1> QED BY <1>2, <1>6, <1>7, <1>8, <1>9, Zenon DEF InputSigned

(* The tokens of the locks *)
LEMMA LockTokens ==
  ASSUME NEW c, CodeFits(c), NEW category, Word(category), NEW lock, PoolLock(c, category, lock)
  PROVE  LET split == SplitCashTokensPrefix(lock)
         IN split.ok /\ (split.token = NoToken \/ split.token.category = category)
  <1>1. CASE \E hash : ByteString(hash) /\ Length(hash) = 20 /\ lock = P2PKH(hash)
    <2>1. SplitCashTokensPrefix(lock) = [ok |-> Yes, token |-> NoToken, locking |-> lock]
          BY <1>1, P2PKHIs
    <2> QED BY <2>1 DEF Yes
  <1>2. CASE \E commitment : Word(commitment) /\ lock = LockOf(c, category, commitment)
    <2> PICK commitment : Word(commitment) /\ lock = LockOf(c, category, commitment)
        BY <1>2
    <2>1. SplitCashTokensPrefix(lock) = SplitIs(category, commitment, Programmed(c))
          BY ShardLockIs
    <2>2. MakeShardTokenOut(category, commitment).category = category
          BY DEF MakeShardTokenOut
    <2> QED BY <2>1, <2>2 DEF SplitIs, Yes
  <1> QED BY <1>1, <1>2 DEF PoolLock

(* The token of a shard's lock, as the machine reads it *)
LEMMA ShardToken ==
  ASSUME NEW c, CodeFits(c), NEW category, Word(category), NEW commitment, Word(commitment)
  PROVE  /\ SplitCashTokensPrefix(LockOf(c, category, commitment)).token.category = category
         /\ SplitCashTokensPrefix(LockOf(c, category, commitment)).token.commitment = commitment
         /\ Mutable(TokenCategory(SplitCashTokensPrefix(LockOf(c, category, commitment)).token), category)
  <1> PICK token : token = MakeShardTokenOut(category, commitment)
      OBVIOUS
  <1>1. SplitCashTokensPrefix(LockOf(c, category, commitment)).token = token
    <2>1. SplitCashTokensPrefix(LockOf(c, category, commitment)) = SplitIs(category, commitment, Programmed(c))
          BY ShardLockIs
    <2> QED BY <2>1 DEF SplitIs
  <1>2. token.category = category /\ token.commitment = commitment /\ token.capability = 1
        BY DEF MakeShardTokenOut
  <1>3. Mutable(TokenCategory(token), category)
        BY <1>2 DEF Mutable, TokenCategory, CapByte
  <1> QED BY <1>1, <1>2, <1>3

(* The category of the outputs is one the node allows *)
LEMMA CategoriesAllowed ==
  ASSUME CodeFits(code), NEW unlocking, NEW outputs, NEW fold, NEW next,
         Orderly(code, pool, built.spent, unlocking, outputs, fold, next)
  PROVE  CategoryAllowed(next.category)
  <1> PICK spent : spent = built.spent
      OBVIOUS
  <1>1. 1 \in DOMAIN spent
    <2>1. spent = [i \in 1 .. Len(spent) |-> spent[i]] /\ Len(spent) >= 1 /\ Len(spent) \in Nat
          BY NumberIsNat DEF Orderly, CoinsFit
    <2> QED BY <2>1
  <1>2. CASE Founding(pool, spent, unlocking, fold, next)
    <2>1. spent[1].vout = 0 /\ ReverseBytes(spent[1].txid) = next.category
          BY <1>2 DEF Founding
    <2> QED BY <1>1, <2>1, Zenon DEF CategoryAllowed
  <1>3. CASE Spending(code, pool, spent, unlocking, outputs, fold, next)
    <2>1. spent[1].lock = LockOf(code, pool.category, fold.stateIn) /\ next.category = pool.category
          BY <1>3 DEF Spending
    <2>2. Word(pool.category) /\ Word(fold.stateIn)
          BY <1>3, CategoryIs, HashIsWord DEF Spending, FoldFits, Orderly
    <2>3. SplitCashTokensPrefix(spent[1].lock).token.category = next.category
          BY <2>1, <2>2, ShardToken
    <2> QED BY <1>1, <2>3, Zenon DEF CategoryAllowed
  <1> QED BY <1>2, <1>3 DEF Orderly

(* Whatever a command builds is a valid transaction, the covenant aside *)
THEOREM SealedIsValid ==
  ASSUME CodeFits(code), Sealed(code, pool, chain, built)
  PROVE  Valid(ParseTx(built.raw))
  <1> PICK tx : tx = built.tx
      OBVIOUS
  <1> PICK spent : spent = built.spent
      OBVIOUS
  <1> PICK unlocking : /\ Orderly(code, pool, spent, unlocking, tx.outputs, built.fold, built.next)
                       /\ tx = Spend(tx.outputs, SignedInputs(tx, spent, unlocking))
      BY DEF Sealed
  <1> PICK read : read = [i \in 1 .. Len(tx.inputs) |-> InputRead(tx.inputs[i])]
      OBVIOUS
  <1> PICK parsed : parsed = ParseTx(built.raw)
      OBVIOUS
  <1>1. parsed = [ok |-> Yes, inputs |-> read, outputs |-> tx.outputs]
        BY ParseTxIs DEF Sealed
  <1>2. parsed.ok = Yes /\ parsed.inputs = read /\ parsed.outputs = tx.outputs
        BY <1>1
  <1>3. /\ spent = [i \in 1 .. Len(spent) |-> spent[i]] /\ Len(spent) \in Nat
        /\ tx.inputs = [i \in 1 .. Len(spent) |-> InputOf(spent[i], ScriptOf(tx, spent, unlocking, i))]
    <2>1. tx.inputs = SignedInputs(tx, spent, unlocking)
          BY SpendParts
    <2> QED BY <2>1, NumberIsNat DEF SignedInputs, Orderly, CoinsFit
  <1>4. Len(read) = Len(spent) /\ DOMAIN spent = 1 .. Len(spent)
    <2>1. Len(tx.inputs) = Len(spent)
          BY <1>3
    <2>2. Len(read) = Len(tx.inputs)
          BY <1>3, <2>1
    <2> QED BY <1>3, <2>1, <2>2
  <1>5. ASSUME NEW i \in DOMAIN spent, spent[i].key # "covenant"
        PROVE  InputSigned(i, read[i].scriptSig)
    <2> PICK s : s = ScriptOf(tx, spent, unlocking, i)
        OBVIOUS
    <2>1. s = SigScript(tx, i, spent[i])
          BY <1>5 DEF ScriptOf
    <2>2. tx.inputs[i] = InputOf(spent[i], s) /\ i \in 1 .. Len(tx.inputs)
          BY <1>3, <1>4
    <2>3. read[i].scriptSig = s
          BY <2>2 DEF InputRead, InputOf
    <2>4. KeyLocked(spent[i])
          BY <1>4 DEF Orderly
    <2> QED BY <1>5, <2>1, <2>3, <2>4, SignaturesHold
  <1>6. Total(tx.outputs) <= Total(spent)
        BY DEF Orderly
  <1>7. ASSUME NEW v \in DOMAIN tx.outputs
        PROVE  LET split == SplitCashTokensPrefix(tx.outputs[v].lock)
               IN split.ok /\ (split.token # NoToken => CategoryAllowed(split.token.category))
    <2> PICK category : category = built.next.category
        OBVIOUS
    <2>1. Word(category)
          BY CategoryIs DEF Orderly
    <2>2. v \in 1 .. Len(tx.outputs)
      <3>1. tx.outputs = [i \in 1 .. Len(tx.outputs) |-> tx.outputs[i]]
            BY DEF Orderly, OutputsOfPool
      <3> QED BY <3>1
    <2>3. PoolLock(code, category, tx.outputs[v].lock)
          BY <2>2 DEF Orderly, OutputsOfPool
    <2> PICK split : split = SplitCashTokensPrefix(tx.outputs[v].lock)
        OBVIOUS
    <2>4. split.ok /\ (split.token = NoToken \/ split.token.category = category)
          BY <2>1, <2>3, LockTokens
    <2>5. CategoryAllowed(category)
          BY CategoriesAllowed
    <2> QED BY <2>4, <2>5
  <1>8. parsed.ok /\ Len(parsed.inputs) = Len(built.spent)
        BY <1>2, <1>4 DEF Yes
  <1>9. \A i \in DOMAIN built.spent : built.spent[i].key # "covenant" => InputSigned(i, parsed.inputs[i].scriptSig)
        BY <1>2, <1>5
  <1>10. Total(parsed.outputs) <= Total(built.spent)
         BY <1>2, <1>6
  <1>11. \A v \in DOMAIN parsed.outputs :
            LET split == SplitCashTokensPrefix(parsed.outputs[v].lock)
            IN split.ok /\ (split.token # NoToken => CategoryAllowed(split.token.category))
         BY <1>2, <1>7
  <1> QED BY <1>8, <1>9, <1>10, <1>11, Zenon DEF Valid

-----------------------------------------------------------------------------
(* Accumulators *)

(* Two strings with the same hash are the same *)
LEMMA Injective ==
  ASSUME NEW x, NEW y, Hash256(x) = Hash256(y)
  PROVE  x = y
  <1> PICK a : a = Sha256(x)
      OBVIOUS
  <1> PICK b : b = Sha256(y)
      OBVIOUS
  <1>1. << <<"hash", a>> >> = << <<"hash", b>> >>
        BY Zenon DEF Hash256, Sha256
  <1>2. a = b
        BY <1>1
  <1>3. << <<"hash", x>> >> = << <<"hash", y>> >>
        BY <1>2, Zenon DEF Sha256
  <1> QED BY <1>3

(* A hash is a list of one atom *)
LEMMA HashLists ==
  ASSUME NEW a, HashString(a)
  PROVE  List(a) /\ Len(a) = 1 /\ a = <<a[1]>>
  <1> PICK x : a = << <<"hash", x>> >>
      BY DEF HashString
  <1>1. Len(a) = 1 /\ a[1] = <<"hash", x>>
        OBVIOUS
  <1> QED BY <1>1, ShortLists

(* A string is a list *)
LEMMA StringLists ==
  ASSUME NEW s, ByteString(s)
  PROVE  List(s)
  BY StringIsSeq, SeqIsList

(* Two hashes that are the same before the same end are the same *)
LEMMA CancelEnd ==
  ASSUME NEW a, NEW b, HashString(a), HashString(b), NEW x, List(x), a \o x = b \o x
  PROVE  a = b
  <1>1. /\ List(a) /\ Len(a) = 1 /\ a = <<a[1]>>
        /\ List(b) /\ Len(b) = 1 /\ b = <<b[1]>>
        BY HashLists
  <1>2. (a \o x)[1] = a[1] /\ (b \o x)[1] = b[1]
    <2>1. 1 \in 1 .. Len(a) /\ 1 \in 1 .. Len(b)
          BY <1>1
    <2> QED BY <1>1, <2>1, JoinedLists
  <1>3. a[1] = b[1]
        BY <1>2
  <1> QED BY <1>1, <1>3

Distinct(a, b, x) == HashNext(a, x) # HashNext(b, x)

(* Two accumulators that differ differ after the same limb *)
LEMMA HashesStayApart ==
  ASSUME NEW a, NEW b, HashString(a), HashString(b), a # b, NEW x, List(x)
  PROVE  Distinct(a, b, x)
  <1>1. ASSUME HashNext(a, x) = HashNext(b, x) PROVE FALSE
    <2>1. a \o x = b \o x
          BY <1>1, Injective, Zenon DEF HashNext
    <2> QED BY <2>1, CancelEnd
  <1> QED BY <1>1 DEF Distinct

(* ... and after any limbs *)
LEMMA FoldsStayApart ==
  ASSUME NEW a, NEW b, HashString(a), HashString(b), a # b,
         NEW limbs, List(limbs), \A i \in 1 .. Len(limbs) : List(limbs[i])
  PROVE  HashedFrom(a, limbs) # HashedFrom(b, limbs)
  <1> PICK n \in Nat : n = Len(limbs)
      BY DEF List
  <1>1. PICK t : IsHashes(t, a, limbs) /\ HashedFrom(a, limbs) = t[n]
        BY HashesExist
  <1>2. PICK u : IsHashes(u, b, limbs) /\ HashedFrom(b, limbs) = u[n]
        BY HashesExist
  <1>3. /\ t[0] = a /\ \A i \in 1 .. n : t[i] = HashNext(t[i - 1], limbs[i])
        /\ u[0] = b /\ \A i \in 1 .. n : u[i] = HashNext(u[i - 1], limbs[i])
        BY <1>1, <1>2 DEF IsHashes
  <1> DEFINE Apart(i) == HashString(t[i]) /\ HashString(u[i]) /\ t[i] # u[i]
             Bad == {i \in 0 .. n : ~Apart(i)}
  <1> HIDE DEF Apart
  <1>4. Bad = {}
    <2> SUFFICES ASSUME Bad # {} PROVE FALSE
        OBVIOUS
    <2>1. Bad \in SUBSET Nat
          OBVIOUS
    <2> HIDE DEF Bad
    <2>2. PICK i \in Bad : \A j \in Bad : i <= j
          BY <2>1, LeastNatural
    <2> USE DEF Bad
    <2>3. i \in 0 .. n /\ ~Apart(i)
          OBVIOUS
    <2>4. i # 0
          BY <1>3, <2>3 DEF Apart
    <2>5. i - 1 \in 0 .. n /\ i \in 1 .. n
          BY <2>3, <2>4
    <2>6. Apart(i - 1)
          BY <2>2, <2>3, <2>5
    <2>7. /\ HashString(t[i - 1]) /\ HashString(u[i - 1]) /\ t[i - 1] # u[i - 1] /\ List(limbs[i])
          /\ t[i] = HashNext(t[i - 1], limbs[i]) /\ u[i] = HashNext(u[i - 1], limbs[i])
          BY <1>3, <2>5, <2>6 DEF Apart
    <2>8. Distinct(t[i - 1], u[i - 1], limbs[i])
          BY <2>7, HashesStayApart
    <2>9. HashString(t[i]) /\ HashString(u[i])
          BY <2>7, HashesAreHashes DEF HashNext
    <2> QED BY <2>3, <2>7, <2>8, <2>9 DEF Apart, Distinct
  <1> HIDE DEF Bad
  <1>5. Apart(n)
    <2>1. n \in 0 .. n
          OBVIOUS
    <2> QED BY <1>4, <2>1 DEF Bad
  <1> QED BY <1>1, <1>2, <1>5 DEF Apart

(* A category read backwards is another category *)
LEMMA CategoriesApart ==
  ASSUME NEW category, CategoryString(category)
  PROVE  /\ List(category) /\ Len(category) = 1 /\ List(ReverseBytes(category)) /\ Len(ReverseBytes(category)) = 1
         /\ category[1] # ReverseBytes(category)[1]
  <1> PICK t, x : t = << <<"txid", x>> >> /\ category = ReverseBytes(t)
      BY DEF CategoryString, TxidString
  <1> PICK a : a = <<"txid", x>>
      OBVIOUS
  <1>1. category = <<FlipAtom(a)>>
        BY ReverseAtom
  <1>2. ReverseBytes(category) = <<FlipAtom(FlipAtom(a))>>
        BY <1>1, ReverseAtom
  <1>3. Word(category) /\ category # <<>> /\ ReverseBytes(category) # category
        BY CategoryIs
  <1> PICK y : y = FlipAtom(a)
      OBVIOUS
  <1> PICK z : z = FlipAtom(y)
      OBVIOUS
  <1>4. category = <<y>> /\ ReverseBytes(category) = <<z>>
        BY <1>1, <1>2
  <1>5. y # z
        BY <1>3, <1>4
  <1>6. List(<<y>>) /\ Len(<<y>>) = 1 /\ <<y>>[1] = y /\ List(<<z>>) /\ Len(<<z>>) = 1 /\ <<z>>[1] = z
        BY ShortLists
  <1> QED BY <1>4, <1>5, <1>6

(* The second atom of two joined hashes *)
LEMMA SecondOf ==
  ASSUME NEW a, NEW b, List(a), List(b), Len(a) = 1, Len(b) = 1
  PROVE  (a \o b)[2] = b[1]
  <1> PICK c : c = a \o b
      OBVIOUS
  <1>1. Len(c) = Len(a) + Len(b)
        BY JoinedLists
  <1>2. \A i \in 1 .. Len(c) : c[i] = IF i <= Len(a) THEN a[i] ELSE b[i - Len(a)]
        BY JoinedLists, ZenonT(30)
  <1>3. 2 \in 1 .. Len(c) /\ ~(2 <= Len(a)) /\ 2 - Len(a) = 1
        BY <1>1
  <1>4. c[2] = b[1]
        BY <1>2, <1>3
  <1> QED BY <1>4

(* The middle of a string of two hashes is what it was *)
LEMMA CancelMiddle ==
  ASSUME NEW h, HashString(h), NEW b, NEW d, List(b), Len(b) = 1, List(d), Len(d) = 1,
         NEW x, List(x), (h \o b) \o x = (h \o d) \o x
  PROVE  b[1] = d[1]
  <1>1. List(h) /\ Len(h) = 1
        BY HashLists
  <1> PICK hb : hb = h \o b
      OBVIOUS
  <1> PICK hd : hd = h \o d
      OBVIOUS
  <1>2. List(hb) /\ Len(hb) = 2 /\ List(hd) /\ Len(hd) = 2
    <2>1. List(h \o b) /\ Len(h \o b) = Len(h) + Len(b)
          BY <1>1, JoinedLists, Zenon
    <2>2. List(h \o d) /\ Len(h \o d) = Len(h) + Len(d)
          BY <1>1, JoinedLists, Zenon
    <2>3. Len(h) + Len(b) = 2 /\ Len(h) + Len(d) = 2
          BY <1>1
    <2> QED BY <2>1, <2>2, <2>3
  <1>3. hb[2] = b[1] /\ hd[2] = d[1]
        BY <1>1, SecondOf
  <1>4. (hb \o x)[2] = hb[2] /\ (hd \o x)[2] = hd[2]
    <2>1. 2 \in 1 .. Len(hb) /\ 2 \in 1 .. Len(hd)
          BY <1>2
    <2> QED BY <1>2, <2>1, JoinedLists
  <1> QED BY <1>3, <1>4

(* The bases of the fold differ when the category is read backwards *)
LEMMA BasesApart ==
  ASSUME NEW stateIn, NEW category, CategoryString(category), NEW note, List(note)
  PROVE  BaseOf(stateIn, category, note, "reverse") # BaseOf(stateIn, category, note, "direct")
  <1> PICK h : h = Hash256(Hash256(stateIn \o stateIn) \o stateIn)
      OBVIOUS
  <1> PICK back : back = ReverseBytes(category)
      OBVIOUS
  <1> PICK r : r = Hash256(h \o back \o CapByte)
      OBVIOUS
  <1> PICK d : d = Hash256(h \o category \o CapByte)
      OBVIOUS
  <1>1. CategoryBytes(category, "reverse") = back /\ CategoryBytes(category, "direct") = category
        BY DEF CategoryBytes
  <1>2. BaseOf(stateIn, category, note, "reverse") = Hash256(r \o note)
        BY <1>1, Zenon DEF BaseOf
  <1>3. BaseOf(stateIn, category, note, "direct") = Hash256(d \o note)
        BY <1>1, Zenon DEF BaseOf
  <1>4. HashString(h) /\ HashString(r) /\ HashString(d)
        BY HashesAreHashes
  <1>5. r # d
    <2> SUFFICES ASSUME r = d PROVE FALSE
        OBVIOUS
    <2>1. (h \o back) \o CapByte = (h \o category) \o CapByte
          BY Injective, Zenon
    <2>2. List(CapByte)
          BY ShortLists DEF CapByte
    <2>3. /\ List(category) /\ Len(category) = 1 /\ List(back) /\ Len(back) = 1
          /\ category[1] # back[1]
          BY CategoriesApart
    <2>4. back[1] = category[1]
          BY <1>4, <2>1, <2>2, <2>3, CancelMiddle
    <2> QED BY <2>3, <2>4
  <1>6. Distinct(r, d, note)
        BY <1>4, <1>5, HashesStayApart
  <1> QED BY <1>2, <1>3, <1>6, Zenon DEF Distinct, HashNext

(* Folded with the category read backwards, the limbs give another commitment *)
THEOREM ModesApart ==
  ASSUME NEW stateIn, NEW category, CategoryString(category), NEW note, List(note),
         NEW limbs, List(limbs), \A i \in 1 .. Len(limbs) : List(limbs[i])
  PROVE  ComputePoolStateOut(stateIn, category, note, limbs, "reverse")
         # ComputePoolStateOut(stateIn, category, note, limbs, "direct")
  <1> PICK back : back = Reverse(limbs)
      OBVIOUS
  <1> PICK r : r = BaseOf(stateIn, category, note, "reverse")
      OBVIOUS
  <1> PICK d : d = BaseOf(stateIn, category, note, "direct")
      OBVIOUS
  <1>1. List(back) /\ \A i \in 1 .. Len(back) : List(back[i])
    <2>1. List(back) /\ Len(back) = Len(limbs) /\ \A i \in 1 .. Len(limbs) : back[i] = limbs[Len(limbs) + 1 - i]
          BY ReverseIs
    <2>2. Len(limbs) \in Nat
          BY DEF List
    <2>3. \A i \in 1 .. Len(limbs) : Len(limbs) + 1 - i \in 1 .. Len(limbs)
          BY <2>2
    <2> QED BY <2>1, <2>3
  <1>2. HashString(r) /\ HashString(d)
        BY HashesAreHashes DEF BaseOf
  <1>3. r # d
        BY BasesApart
  <1>4. HashedFrom(r, back) # HashedFrom(d, back)
        BY <1>1, <1>2, <1>3, FoldsStayApart
  <1> QED BY <1>4, ComputeIs

-----------------------------------------------------------------------------
(* The limbs still on the stack, and those already taken *)

First(limbs, k) == SubSeq(limbs, 1, k)
Rest(limbs, k) == SubSeq(limbs, k, Len(limbs))

Piece(w, s, j, n) == List(w) /\ Len(w) = n /\ \A i \in 1 .. n : w[i] = s[j + i]
Backwards(r, s, n) == List(r) /\ Len(r) = n /\ \A i \in 1 .. n : r[i] = s[n + 1 - i]
Added(c, r, x, n) == List(c) /\ Len(c) = n + 1 /\ c[n + 1] = x /\ \A i \in 1 .. n : c[i] = r[i]

(* Items j to k of a list *)
LEMMA SubSeqIs ==
  ASSUME NEW s, List(s), NEW j \in 1 .. Len(s) + 1, NEW k \in j - 1 .. Len(s),
         NEW i \in Nat, i = j - 1, NEW n \in Nat, n = k - i
  PROVE  Piece(SubSeq(s, j, k), s, i, n)
  <1> PICK m \in Nat : m = Len(s)
      BY DEF List
  <1> PICK w : w = SubSeq(s, j, k)
      OBVIOUS
  <1> DEFINE S == {s[x] : x \in 1 .. Len(s)}
  <1>1. s \in Seq(S)
        BY ListInto
  <1> HIDE DEF S
  <1>2. w \in Seq(S) /\ Len(w) = k - j + 1 /\ \A x \in 1 .. k - j + 1 : w[x] = s[j + x - 1]
        BY <1>1, SubSeqProperties
  <1>3. k - j + 1 = n /\ \A x \in 1 .. n : j + x - 1 = i + x
        OBVIOUS
  <1> QED BY <1>2, <1>3, SeqIsList DEF Piece

(* The first k limbs *)
LEMMA FirstIs ==
  ASSUME NEW limbs, List(limbs), NEW k \in 0 .. Len(limbs)
  PROVE  Piece(First(limbs, k), limbs, 0, k)
  <1> PICK n \in Nat : n = Len(limbs)
      BY DEF List
  <1> PICK j \in Nat : j = 1
      OBVIOUS
  <1> PICK i \in Nat : i = 0
      OBVIOUS
  <1>1. j \in 1 .. Len(limbs) + 1 /\ k \in j - 1 .. Len(limbs) /\ i = j - 1 /\ k \in Nat /\ k = k - i
        OBVIOUS
  <1>2. Piece(SubSeq(limbs, j, k), limbs, i, k)
        BY <1>1, SubSeqIs
  <1> QED BY <1>2 DEF First

(* The limbs from the k-th on *)
LEMMA RestIs ==
  ASSUME NEW limbs, List(limbs), NEW k \in 1 .. Len(limbs) + 1,
         NEW i \in Nat, i = k - 1, NEW n \in Nat, n = Len(limbs) - i
  PROVE  Piece(Rest(limbs, k), limbs, i, n)
  <1> PICK m \in Nat : m = Len(limbs)
      BY DEF List
  <1>1. m \in k - 1 .. Len(limbs) /\ n = m - i
        OBVIOUS
  <1>2. Piece(SubSeq(limbs, k, m), limbs, i, n)
        BY <1>1, SubSeqIs
  <1> QED BY <1>2 DEF Rest

(* A list reversed *)
LEMMA Turned ==
  ASSUME NEW s, List(s), NEW n \in Nat, n = Len(s)
  PROVE  Backwards(Reverse(s), s, n)
  BY ReverseIs DEF Backwards

(* A list with one more item *)
LEMMA AddedTo ==
  ASSUME NEW s, List(s), NEW x, NEW n \in Nat, n = Len(s)
  PROVE  Added(Append(s, x), s, x, n)
  BY AppendIs DEF Added

(* Two lists of the same items are the same *)
LEMMA SameLists ==
  ASSUME NEW a, NEW b, List(a), List(b), NEW n \in Nat, Len(a) = n, Len(b) = n, \A i \in 1 .. n : a[i] = b[i]
  PROVE  a = b
  BY DEF List

(* No limb, and all of them *)
LEMMA Ends ==
  ASSUME NEW limbs, List(limbs)
  PROVE  /\ First(limbs, 0) = <<>> /\ First(limbs, Len(limbs)) = limbs
         /\ Rest(limbs, Len(limbs) + 1) = <<>> /\ Rest(limbs, 1) = limbs
  <1> PICK n \in Nat : n = Len(limbs)
      BY DEF List
  <1> PICK z \in Nat : z = 0
      OBVIOUS
  <1> PICK o \in Nat : o = 1
      OBVIOUS
  <1>0. z \in 0 .. Len(limbs) /\ n \in 0 .. Len(limbs) /\ n + 1 \in 1 .. Len(limbs) + 1 /\ n = n + 1 - 1
        /\ z = Len(limbs) - n /\ o \in 1 .. Len(limbs) + 1 /\ z = o - 1 /\ n = Len(limbs) - z
        OBVIOUS
  <1>1. Piece(First(limbs, z), limbs, 0, z)
        BY <1>0, FirstIs
  <1>2. First(limbs, z) = <<>>
        BY <1>1 DEF List, Piece
  <1>3. Piece(First(limbs, n), limbs, 0, n)
        BY <1>0, FirstIs
  <1>4. First(limbs, n) = limbs
        BY <1>3, SameLists DEF Piece
  <1>5. Piece(Rest(limbs, n + 1), limbs, n, z)
        BY <1>0, RestIs
  <1>6. Rest(limbs, n + 1) = <<>>
        BY <1>5 DEF List, Piece
  <1>7. Piece(Rest(limbs, o), limbs, z, n)
        BY <1>0, RestIs
  <1>8. Rest(limbs, o) = limbs
        BY <1>7, SameLists DEF Piece
  <1> QED BY <1>2, <1>4, <1>6, <1>8

(* The first k limbs are the first k - 1 and the k-th *)
LEMMA FirstMore ==
  ASSUME NEW limbs, List(limbs), NEW k \in 1 .. Len(limbs)
  PROVE  First(limbs, k) = Put(First(limbs, k - 1), limbs[k])
  <1> PICK n \in Nat : n = Len(limbs)
      BY DEF List
  <1> PICK j \in Nat : j = k - 1
      OBVIOUS
  <1> PICK a : a = First(limbs, j)
      OBVIOUS
  <1> PICK b : b = First(limbs, k)
      OBVIOUS
  <1> PICK c : c = Append(a, limbs[k])
      OBVIOUS
  <1>0. j \in 0 .. Len(limbs) /\ k \in 0 .. Len(limbs)
        OBVIOUS
  <1>1. Piece(a, limbs, 0, j) /\ Piece(b, limbs, 0, k)
        BY <1>0, FirstIs
  <1>2. Added(c, a, limbs[k], j)
        BY <1>1, AddedTo DEF Piece
  <1>3. \A i \in 1 .. k : c[i] = b[i]
    <2>1. \A i \in 1 .. k : i = j + 1 \/ i \in 1 .. j
          OBVIOUS
    <2> QED BY <1>1, <1>2, <2>1 DEF Piece, Added
  <1>4. Len(c) = k /\ List(c)
        BY <1>2 DEF Added
  <1>5. b = c
    <2>1. List(b) /\ Len(b) = k
          BY <1>1 DEF Piece
    <2> QED BY <1>3, <1>4, <2>1 DEF List
  <1> QED BY <1>5 DEF Put

(* Reversed, the limbs from the k-th on end in the k-th *)
LEMMA RestMore ==
  ASSUME NEW limbs, List(limbs), NEW k \in 1 .. Len(limbs)
  PROVE  Reverse(Rest(limbs, k)) = Append(Reverse(Rest(limbs, k + 1)), limbs[k])
  <1> PICK n \in Nat : n = Len(limbs)
      BY DEF List
  <1> PICK j \in Nat : j = k - 1
      OBVIOUS
  <1>n. n - k \in Nat /\ n - j \in Nat
        OBVIOUS
  <1> PICK m \in Nat : m = n - k
      BY <1>n
  <1> PICK l \in Nat : l = n - j
      BY <1>n
  <1> PICK a : a = Rest(limbs, k + 1)
      OBVIOUS
  <1> PICK b : b = Rest(limbs, k)
      OBVIOUS
  <1> PICK r : r = Reverse(a)
      OBVIOUS
  <1> PICK q : q = Reverse(b)
      OBVIOUS
  <1> PICK c : c = Append(r, limbs[k])
      OBVIOUS
  <1>0. /\ k + 1 \in 1 .. Len(limbs) + 1 /\ k = k + 1 - 1 /\ m = Len(limbs) - k
        /\ k \in 1 .. Len(limbs) + 1 /\ l = Len(limbs) - j /\ l = m + 1 /\ k \in Nat
        OBVIOUS
  <1>1. Piece(a, limbs, k, m)
        BY <1>0, RestIs
  <1>2. Piece(b, limbs, j, l)
        BY <1>0, RestIs
  <1>3. Backwards(r, a, m)
        BY <1>1, Turned DEF Piece
  <1>4. Backwards(q, b, l)
        BY <1>2, Turned DEF Piece
  <1>5. Added(c, r, limbs[k], m)
        BY <1>3, AddedTo DEF Backwards
  <1>6. \A i \in 1 .. l : q[i] = limbs[n + 1 - i]
    <2>1. \A i \in 1 .. l : l + 1 - i \in 1 .. l /\ j + (l + 1 - i) = n + 1 - i
          OBVIOUS
    <2>2. (\A i \in 1 .. l : q[i] = b[l + 1 - i]) /\ (\A i \in 1 .. l : b[i] = limbs[j + i])
          BY <1>2, <1>4 DEF Piece, Backwards
    <2> TAKE i \in 1 .. l
    <2> PICK x : x = l + 1 - i
        OBVIOUS
    <2>3. x \in 1 .. l /\ q[i] = b[x] /\ j + x = n + 1 - i
          BY <2>1, <2>2
    <2>4. b[x] = limbs[j + x]
          BY <2>2, <2>3
    <2> QED BY <2>3, <2>4
  <1>7. \A i \in 1 .. m : r[i] = limbs[n + 1 - i]
    <2>1. \A i \in 1 .. m : m + 1 - i \in 1 .. m /\ k + (m + 1 - i) = n + 1 - i
          OBVIOUS
    <2> QED BY <1>1, <1>3, <2>1 DEF Piece, Backwards
  <1>8. \A i \in 1 .. l : c[i] = q[i]
    <2>1. \A i \in 1 .. l : i = m + 1 \/ i \in 1 .. m
          OBVIOUS
    <2>2. c[m + 1] = limbs[k] /\ \A i \in 1 .. m : c[i] = r[i]
          BY <1>5 DEF Added
    <2>3. n + 1 - (m + 1) = k /\ m + 1 \in 1 .. l
          BY <1>0
    <2>4. q[m + 1] = limbs[k]
          BY <1>6, <2>3
    <2>5. \A i \in 1 .. m : i \in 1 .. l
          BY <1>0
    <2>6. \A i \in 1 .. m : c[i] = q[i]
          BY <1>6, <1>7, <2>2, <2>5, ZenonT(30)
    <2> QED BY <2>1, <2>2, <2>4, <2>6
  <1>9. List(c) /\ List(q) /\ Len(c) = l /\ Len(q) = l
        BY <1>0, <1>4, <1>5 DEF Backwards, Added
  <1>10. c = q
        BY <1>8, <1>9 DEF List
  <1> QED BY <1>10

Acc(x, category, note, taken) == ComputePoolStateOut(x, category, note, taken, "direct")

(* Before the first limb, the accumulator is the base of the fold *)
LEMMA AccNone ==
  ASSUME NEW x, NEW category, ByteString(category), NEW note, NEW c, Mutable(c, category)
  PROVE  Acc(x, category, note, <<>>) = MachineBase(x, c, note)
  <1> PICK h : h = Hash256(Hash256(x \o x) \o x)
      OBVIOUS
  <1>1. Reverse(<<>>) = <<>>
    <2>1. List(<<>>) /\ Len(<<>>) = 0
          BY ShortLists
    <2>2. List(Reverse(<<>>)) /\ Len(Reverse(<<>>)) = 0
          BY <2>1, ReverseIs
    <2> QED BY <2>2 DEF List
  <1> PICK base : base = BaseOf(x, category, note, "direct")
      OBVIOUS
  <1>2. Acc(x, category, note, <<>>) = base
    <2>1. Acc(x, category, note, <<>>) = HashedFrom(base, Reverse(<<>>))
          BY ComputeIs DEF Acc
    <2> QED BY <1>1, <2>1, HashedNothing
  <1>3. base = Hash256(Hash256((h \o category) \o CapByte) \o note)
    <2>1. CategoryBytes(category, "direct") = category
          BY DEF CategoryBytes
    <2> QED BY <2>1, Zenon DEF BaseOf
  <1>4. (h \o category) \o CapByte = h \o (category \o CapByte)
    <2>1. ByteString(h) /\ ByteString(CapByte)
          BY HashesAreHashes, HashIsWord, ByteIsString DEF CapByte
    <2> QED BY <2>1, JoinAssociates
  <1>5. MachineBase(x, c, note) = Hash256(Hash256(h \o c) \o note)
        BY Zenon DEF MachineBase
  <1>6. c = category \o CapByte
        BY Zenon DEF Mutable
  <1> QED BY <1>2, <1>3, <1>4, <1>5, <1>6, Zenon

(* One limb more *)
LEMMA AccMore ==
  ASSUME NEW x, NEW category, NEW note, NEW limbs, List(limbs), NEW k \in 1 .. Len(limbs)
  PROVE  Acc(x, category, note, Rest(limbs, k)) = Hash256(Acc(x, category, note, Rest(limbs, k + 1)) \o limbs[k])
  <1> PICK base : base = BaseOf(x, category, note, "direct")
      OBVIOUS
  <1> PICK r : r = Reverse(Rest(limbs, k + 1))
      OBVIOUS
  <1>1. List(r)
    <2>0. Len(limbs) \in Nat
          BY DEF List
    <2>1. k + 1 \in 1 .. Len(limbs) + 1
          BY <2>0
    <2>2. List(Rest(limbs, k + 1))
      <3> PICK n \in Nat : n = Len(limbs) - k
          BY <2>0
      <3>1. k \in Nat /\ k = k + 1 - 1
            BY <2>0
      <3>2. Piece(Rest(limbs, k + 1), limbs, k, n)
            BY <2>1, <3>1, RestIs
      <3> QED BY <3>2 DEF Piece
    <2> QED BY <2>2, ReverseIs
  <1>2. Acc(x, category, note, Rest(limbs, k)) = HashedFrom(base, Append(r, limbs[k]))
    <2>1. Acc(x, category, note, Rest(limbs, k)) = HashedFrom(base, Reverse(Rest(limbs, k)))
          BY ComputeIs DEF Acc
    <2> QED BY <2>1, RestMore
  <1>3. Acc(x, category, note, Rest(limbs, k + 1)) = HashedFrom(base, r)
        BY ComputeIs DEF Acc
  <1>4. HashedFrom(base, Append(r, limbs[k])) = Hash256(HashedFrom(base, r) \o limbs[k])
        BY <1>1, HashedMore
  <1> QED BY <1>2, <1>3, <1>4

-----------------------------------------------------------------------------
(* What the covenant reads of a transaction that spends a shard *)

Spends(category, fold, spent, made) ==
  /\ CategoryString(category) /\ FoldFits(fold)
  /\ Mutable(TokenCategory(spent), category) /\ spent.commitment = fold.stateIn
  /\ Mutable(TokenCategory(made), category) /\ made.commitment = StateOut(fold, category)
Unlocks(script, fold) == \E blob : HashString(blob) /\ script = Unlocking(fold.limbs, fold.noteHash, blob)
LockToken(lock) == SplitCashTokensPrefix(lock).token

(* What a sealed spend of a shard shows the covenant: the category and     *)
(* commitments of input 0 and output 0, and the pushes                     *)
LEMMA SealedSpends ==
  ASSUME NEW c, CodeFits(c), NEW p, p # NoPool, NEW ch, NEW b, Sealed(c, p, ch, b)
  PROVE  /\ Spends(p.category, b.fold, LockToken(b.spent[1].lock), LockToken(ParseTx(b.raw).outputs[1].lock))
         /\ Unlocks(b.tx.inputs[1].scriptSig, b.fold)
         /\ ParseTx(b.raw).inputs[1].scriptSig = b.tx.inputs[1].scriptSig
  <1> PICK tx : tx = b.tx
      OBVIOUS
  <1> PICK coins : coins = b.spent
      OBVIOUS
  <1> PICK unlocking : /\ Orderly(c, p, coins, unlocking, tx.outputs, b.fold, b.next)
                       /\ tx = Spend(tx.outputs, SignedInputs(tx, coins, unlocking))
      BY DEF Sealed
  <1> PICK read : read = [i \in 1 .. Len(tx.inputs) |-> InputRead(tx.inputs[i])]
      OBVIOUS
  <1> PICK parsed : parsed = ParseTx(b.raw)
      OBVIOUS
  <1>1. parsed = [ok |-> Yes, inputs |-> read, outputs |-> tx.outputs]
        BY ParseTxIs DEF Sealed
  <1>2. parsed.inputs = read /\ parsed.outputs = tx.outputs
        BY <1>1
  <1>3. Spending(c, p, coins, unlocking, tx.outputs, b.fold, b.next) /\ CategoryString(b.next.category)
        BY DEF Orderly, Founding
  <1>4. /\ b.next.category = p.category /\ coins[1].key = "covenant" /\ coins[1].lock = LockOf(c, p.category, b.fold.stateIn)
        /\ FoldFits(b.fold) /\ tx.outputs[1].lock = LockOf(c, p.category, StateOut(b.fold, p.category))
        /\ \E blob : HashString(blob) /\ unlocking = Unlocking(b.fold.limbs, b.fold.noteHash, blob)
        BY <1>3 DEF Spending
  <1>5. Word(p.category) /\ Word(b.fold.stateIn) /\ Word(StateOut(b.fold, p.category))
    <2>1. List(b.fold.limbs)
          BY <1>4, LimbsAreFit DEF FoldFits, LimbsFit
    <2>2. HashString(StateOut(b.fold, p.category))
          BY <2>1, StateOutIsHash DEF StateOut
    <2>3. HashString(b.fold.stateIn)
          BY <1>4 DEF FoldFits
    <2> QED BY <1>3, <1>4, <2>2, <2>3, HashIsWord, CategoryIs
  <1>6. Spends(p.category, b.fold, LockToken(coins[1].lock), LockToken(tx.outputs[1].lock))
        BY <1>3, <1>4, <1>5, ShardToken DEF Spends, LockToken
  <1>7. tx.inputs[1].scriptSig = unlocking /\ read[1].scriptSig = unlocking
    <2>1. tx.inputs = SignedInputs(tx, coins, unlocking)
          BY SpendParts
    <2>2. 1 \in 1 .. Len(coins) /\ Len(coins) \in Nat
          BY NumberIsNat DEF Orderly, CoinsFit
    <2>3. tx.inputs[1] = InputOf(coins[1], ScriptOf(tx, coins, unlocking, 1)) /\ Len(tx.inputs) = Len(coins)
          BY <2>1, <2>2 DEF SignedInputs
    <2>4. ScriptOf(tx, coins, unlocking, 1) = unlocking
          BY <1>4 DEF ScriptOf
    <2>5. tx.inputs[1].scriptSig = unlocking
          BY <2>3, <2>4 DEF InputOf
    <2>6. read[1] = InputRead(tx.inputs[1])
          BY <2>2, <2>3
    <2>7. InputRead(tx.inputs[1]).scriptSig = tx.inputs[1].scriptSig
          BY DEF InputRead
    <2> QED BY <2>5, <2>6, <2>7
  <1> QED BY <1>2, <1>4, <1>6, <1>7 DEF Unlocks

-----------------------------------------------------------------------------
(* The covenant's machine between two of its functions *)

CapOf(category) == category \o CapByte
Folded(category, fold, left) == Acc(fold.stateIn, category, fold.noteHash, Rest(fold.limbs, left + 1))
NoteOn(fold) == Put(fold.limbs, fold.noteHash)
Held(category, top) == Put(Put(<<>>, CapOf(category)), top)
Short(fold) == Len(fold.limbs) <= 63
Folds(fold) == fold.mode = "direct" /\ Len(fold.limbs) <= 63

AtProof(fold, m) == \E blob : HashString(blob) /\ m = St(Put(NoteOn(fold), blob), <<>>)
AtCell(fold, m) == m = St(NoteOn(fold), <<>>)
AtHash(category, fold, m) == m = St(NoteOn(fold), Held(category, fold.stateIn))
AtFold(category, fold, m) ==
  /\ Short(fold)
  /\ \E left \in 0 .. Len(fold.limbs) : m = St(First(fold.limbs, left), Held(category, Folded(category, fold, left)))
AtAssert(category, fold, m) ==
  Short(fold) /\ m = St(Put(<<>>, Folded(category, fold, 0)), Put(<<>>, CapOf(category)))
AtEnd(fold, m) == Folds(fold) /\ m = St(Put(<<>>, MinimalScriptNumber(1)), <<>>)

(* The stacks of a machine *)
LEMMA MachineParts == \A main, alt : St(main, alt).ok /\ St(main, alt).main = main /\ St(main, alt).alt = alt
  BY DEF St, Yes

(* A fold that a builder has written *)
LEMMA FoldParts ==
  ASSUME NEW fold, FoldFits(fold)
  PROVE  /\ LimbsFit(fold.limbs) /\ List(fold.limbs) /\ Len(fold.limbs) \in Nat
         /\ \A i \in 1 .. Len(fold.limbs) : List(fold.limbs[i])
         /\ Word(fold.noteHash) /\ Length(fold.noteHash) = 32 /\ List(fold.noteHash)
         /\ Word(fold.stateIn) /\ Length(fold.stateIn) = 32
         /\ List(NoteOn(fold)) /\ Len(NoteOn(fold)) = Len(fold.limbs) + 1 /\ Len(NoteOn(fold)) \in Number
  <1>1. LimbsFit(fold.limbs) /\ HashString(fold.noteHash) /\ HashString(fold.stateIn)
        BY LimbsAreFit DEF FoldFits
  <1>2. List(fold.limbs) /\ Len(fold.limbs) \in Nat /\ Len(fold.limbs) + 1 \in Number
        BY <1>1 DEF LimbsFit, List
  <1>3. \A i \in 1 .. Len(fold.limbs) : List(fold.limbs[i])
        BY <1>1, StringLists DEF LimbsFit
  <1>4. Word(fold.noteHash) /\ Length(fold.noteHash) = 32 /\ Word(fold.stateIn) /\ Length(fold.stateIn) = 32 /\ List(fold.noteHash)
        BY <1>1, HashIsWord, HashLists
  <1>5. Added(Append(fold.limbs, fold.noteHash), fold.limbs, fold.noteHash, Len(fold.limbs))
        BY <1>2, AddedTo
  <1>6. List(NoteOn(fold)) /\ Len(NoteOn(fold)) = Len(fold.limbs) + 1
        BY <1>5 DEF Added, NoteOn, Put
  <1> QED BY <1>1, <1>2, <1>3, <1>4, <1>6

(* The machine drops the proof ... *)
LEMMA ProofStep ==
  ASSUME NEW fold, FoldFits(fold), NEW spent, NEW made, NEW m, AtProof(fold, m), NEW r, r = Exec(m, DropProof, spent, made)
  PROVE  r.ok /\ AtCell(fold, r)
  <1>1. PICK blob : HashString(blob) /\ m = St(Put(NoteOn(fold), blob), <<>>)
        BY DEF AtProof
  <1>2. List(NoteOn(fold)) /\ Length(blob) = 32
        BY <1>1, FoldParts, HashIsWord
  <1>3. Execs(spent, made, m, DropProof) = St(NoteOn(fold), <<>>)
        BY <1>1, <1>2, DropProofIs
  <1> QED BY <1>3, ExecIs, MachineParts DEF AtCell

(* ... reads the state ... *)
LEMMA CellStep ==
  ASSUME NEW category, NEW fold, NEW spent, NEW made, Spends(category, fold, spent, made),
         NEW m, AtCell(fold, m), NEW r, r = Exec(m, ReadStateIn, spent, made)
  PROVE  r.ok /\ AtHash(category, fold, r)
  <1> PICK a : a = TokenCategory(spent)
      OBVIOUS
  <1>1. /\ List(NoteOn(fold)) /\ Length(fold.stateIn) = 32 /\ Word(category)
        /\ Mutable(a, category) /\ spent.commitment = fold.stateIn
        BY FoldParts, CategoryIs DEF Spends
  <1>2. Execs(spent, made, m, ReadStateIn) = St(NoteOn(fold), Put(Put(<<>>, a), fold.stateIn))
        BY <1>1, ReadStateInIs DEF AtCell
  <1>3. a = CapOf(category)
        BY <1>1 DEF Mutable, CapOf
  <1> QED BY <1>2, <1>3, ExecIs, MachineParts DEF AtHash, Held

(* ... goes on to the loop, if there are at most 63 limbs, and no further  *)
(* otherwise ...                                                           *)
LEMMA HashStep ==
  ASSUME NEW category, NEW fold, NEW spent, NEW made, Spends(category, fold, spent, made),
         NEW m, AtHash(category, fold, m), NEW r, r = Exec(m, PreHash, spent, made)
  PROVE  /\ Short(fold) => r.ok /\ AtFold(category, fold, r)
         /\ r.ok => Short(fold)
  <1> PICK limbs : limbs = fold.limbs
      OBVIOUS
  <1> PICK note : note = fold.noteHash
      OBVIOUS
  <1> PICK x : x = fold.stateIn
      OBVIOUS
  <1> PICK c : c = CapOf(category)
      OBVIOUS
  <1>1. /\ List(limbs) /\ Length(note) = 32 /\ List(Put(limbs, note)) /\ Len(Put(limbs, note)) = Len(limbs) + 1
        /\ Len(Put(limbs, note)) \in Number /\ Len(limbs) \in Nat /\ ByteString(category)
        BY FoldParts, CategoryIs DEF Spends, NoteOn, Word
  <1>2. m = St(Put(limbs, note), Put(Put(<<>>, c), x))
        BY DEF AtHash, NoteOn, Held
  <1>3. ASSUME Short(fold) PROVE r.ok /\ AtFold(category, fold, r)
    <2>1. Len(Put(limbs, note)) <= 64
          BY <1>1, <1>3 DEF Short
    <2>2. Execs(spent, made, m, PreHash) = St(limbs, Put(Put(<<>>, c), MachineBase(x, c, note)))
          BY <1>1, <1>2, <2>1, PreHashIs
    <2>3. MachineBase(x, c, note) = Acc(x, category, note, <<>>)
      <3>1. Mutable(c, category)
            BY DEF Mutable, CapOf
      <3> QED BY <1>1, <3>1, AccNone
    <2> PICK n \in Nat : n = Len(limbs)
        BY <1>1
    <2>4. limbs = First(limbs, n) /\ <<>> = Rest(limbs, n + 1)
          BY <1>1, Ends
    <2>5. r = St(First(limbs, n), Put(Put(<<>>, c), Acc(x, category, note, Rest(limbs, n + 1))))
          BY <2>2, <2>3, <2>4, ExecIs
    <2>6. r = St(First(fold.limbs, n), Held(category, Folded(category, fold, n)))
          BY <2>5, Zenon DEF Held, Folded
    <2>7. n \in 0 .. Len(fold.limbs)
          OBVIOUS
    <2> QED BY <1>3, <2>6, <2>7, MachineParts DEF AtFold
  <1>4. ASSUME ~Short(fold) PROVE ~r.ok
    <2>1. Len(Put(limbs, note)) > 64
          BY <1>1, <1>4 DEF Short
    <2>2. ~Execs(spent, made, m, PreHash).ok
          BY <1>1, <1>2, <2>1, PreHashStops
    <2> QED BY <2>2, ExecIs
  <1> QED BY <1>3, <1>4

(* ... folds the limbs one by one, the last first ... *)
LEMMA LimbStep ==
  ASSUME NEW category, NEW fold, FoldFits(fold), NEW spent, NEW made,
         NEW m, AtFold(category, fold, m), m.main # <<>>, NEW r, r = Exec(m, FoldLimb, spent, made)
  PROVE  r.ok /\ AtFold(category, fold, r)
  <1> PICK limbs : limbs = fold.limbs
      OBVIOUS
  <1> PICK c : c = CapOf(category)
      OBVIOUS
  <1>1. List(limbs) /\ Len(limbs) \in Nat
        BY FoldParts
  <1>2. PICK left \in 0 .. Len(limbs) : m = St(First(limbs, left), Held(category, Folded(category, fold, left)))
        BY DEF AtFold
  <1>3. First(limbs, left) # <<>>
        BY <1>2, MachineParts
  <1>4. left # 0
        BY <1>1, <1>3, Ends
  <1> PICK k : k = left - 1
      OBVIOUS
  <1>5. left \in 1 .. Len(limbs) /\ k \in 0 .. Len(limbs) /\ k + 1 = left
        BY <1>1, <1>4
  <1> PICK acc : acc = Folded(category, fold, left)
      OBVIOUS
  <1> PICK s : s = First(limbs, k)
      OBVIOUS
  <1>6. First(limbs, left) = Put(s, limbs[left])
        BY <1>1, <1>5, FirstMore
  <1>7. List(s)
        BY <1>1, <1>5, FirstIs DEF Piece
  <1>8. Folded(category, fold, k) = Hash256(acc \o limbs[left])
    <2>1. Acc(fold.stateIn, category, fold.noteHash, Rest(limbs, left))
          = Hash256(Acc(fold.stateIn, category, fold.noteHash, Rest(limbs, left + 1)) \o limbs[left])
          BY <1>1, <1>5, AccMore
    <2>2. Folded(category, fold, k) = Acc(fold.stateIn, category, fold.noteHash, Rest(limbs, left))
          BY <1>5 DEF Folded
    <2>3. acc = Acc(fold.stateIn, category, fold.noteHash, Rest(limbs, left + 1))
          BY DEF Folded
    <2> QED BY <2>1, <2>2, <2>3
  <1> PICK alt : alt = Put(<<>>, c)
      OBVIOUS
  <1>9. List(alt)
        BY ShortLists, AppendIs DEF Put
  <1>10. m = St(Put(s, limbs[left]), Put(alt, acc))
         BY <1>2, <1>6 DEF Held
  <1>11. Execs(spent, made, m, FoldLimb) = St(s, Put(alt, Hash256(acc \o limbs[left])))
         BY <1>7, <1>9, <1>10, FoldLimbIs
  <1>12. r = St(First(limbs, k), Held(category, Folded(category, fold, k)))
         BY <1>8, <1>11, ExecIs DEF Held
  <1> QED BY <1>5, <1>12, MachineParts DEF AtFold

(* ... and ends with the fold of them all ... *)
LEMMA FoldEndStep ==
  ASSUME NEW category, NEW fold, FoldFits(fold), NEW spent, NEW made,
         NEW m, AtFold(category, fold, m), m.main = <<>>, NEW r, r = Exec(m, FoldEnd, spent, made)
  PROVE  r.ok /\ AtAssert(category, fold, r)
  <1> PICK limbs : limbs = fold.limbs
      OBVIOUS
  <1> PICK c : c = CapOf(category)
      OBVIOUS
  <1>1. List(limbs) /\ Len(limbs) \in Nat
        BY FoldParts
  <1>2. PICK left \in 0 .. Len(limbs) : m = St(First(limbs, left), Held(category, Folded(category, fold, left)))
        BY DEF AtFold
  <1>3. First(limbs, left) = <<>>
        BY <1>2, MachineParts
  <1>4. left = 0
    <2>1. Piece(First(limbs, left), limbs, 0, left)
          BY <1>1, FirstIs
    <2> QED BY <1>3, <2>1, ShortLists DEF Piece
  <1> PICK acc : acc = Folded(category, fold, 0)
      OBVIOUS
  <1> PICK alt : alt = Put(<<>>, c)
      OBVIOUS
  <1>5. List(alt)
        BY ShortLists, AppendIs DEF Put
  <1>6. m = St(<<>>, Put(alt, acc))
        BY <1>2, <1>3, <1>4 DEF Held
  <1>7. Execs(spent, made, m, FoldEnd) = St(Put(<<>>, acc), alt)
        BY <1>5, <1>6, FoldEndIs
  <1> QED BY <1>7, ExecIs, MachineParts DEF AtAssert, AtFold

(* ... which is the commitment made, if the category was taken as it is,   *)
(* and never otherwise                                                     *)
LEMMA AssertStep ==
  ASSUME NEW category, NEW fold, NEW spent, NEW made, Spends(category, fold, spent, made),
         NEW m, AtAssert(category, fold, m), NEW r, r = Exec(m, AssertStateOut, spent, made)
  PROVE  /\ Folds(fold) => r.ok /\ AtEnd(fold, r)
         /\ r.ok => Folds(fold)
  <1> PICK acc : acc = Folded(category, fold, 0)
      OBVIOUS
  <1> PICK c : c = CapOf(category)
      OBVIOUS
  <1>1. m = St(Put(<<>>, acc), Put(<<>>, c)) /\ Len(fold.limbs) <= 63
        BY DEF AtAssert, Short
  <1>2. /\ List(fold.limbs) /\ List(fold.noteHash) /\ \A i \in 1 .. Len(fold.limbs) : List(fold.limbs[i])
        /\ fold.mode \in {"direct", "reverse"} /\ CategoryString(category) /\ Word(category)
        BY FoldParts, CategoryIs DEF Spends, FoldFits, Mode
  <1>3. acc = ComputePoolStateOut(fold.stateIn, category, fold.noteHash, fold.limbs, "direct")
    <2>1. Rest(fold.limbs, 1) = fold.limbs
          BY <1>2, Ends
    <2>2. acc = Acc(fold.stateIn, category, fold.noteHash, Rest(fold.limbs, 1))
          BY DEF Folded
    <2> QED BY <2>1, <2>2 DEF Acc
  <1>4. made.commitment = ComputePoolStateOut(fold.stateIn, category, fold.noteHash, fold.limbs, fold.mode)
        BY DEF Spends, StateOut
  <1> PICK t : t = TokenCategory(made)
      OBVIOUS
  <1>5. t = c /\ Mutable(c, category)
        BY DEF Spends, Mutable, CapOf
  <1>6. ASSUME Folds(fold) PROVE r.ok /\ AtEnd(fold, r)
    <2>1. made.commitment = acc
          BY <1>3, <1>4, <1>6 DEF Folds
    <2>2. Execs(spent, made, m, AssertStateOut) = St(Put(<<>>, MinimalScriptNumber(1)), <<>>)
          BY <1>1, <1>2, <1>5, <2>1, AssertHolds
    <2> QED BY <1>6, <2>2, ExecIs, MachineParts DEF AtEnd
  <1>7. ASSUME ~Folds(fold) PROVE ~r.ok
    <2>1. fold.mode = "reverse"
          BY <1>1, <1>2, <1>7 DEF Folds
    <2>2. made.commitment # acc
          BY <1>2, <1>3, <1>4, <2>1, ModesApart
    <2>3. ~Execs(spent, made, m, AssertStateOut).ok
          BY <1>1, <1>2, <1>5, <2>2, AssertStops
    <2> QED BY <2>3, ExecIs
  <1> QED BY <1>6, <1>7

-----------------------------------------------------------------------------
(* The inductive invariant *)

(* The last transaction on the chain is one of this pool's *)
LastIs(c, ch) ==
  \E tx, category : /\ TxFits(tx) /\ ch[Len(ch)] = BuildRawTx(tx)
                    /\ Word(category) /\ OutputsOfPool(c, category, tx.outputs)
PoolInv(c, p, ch) ==
  /\ c \in CodeWidth /\ List(ch) /\ (ch # <<>> => LastIs(c, ch))
  /\ IF p = NoPool THEN ch = <<>> ELSE PoolHolds(c, p, ch)
BuiltInv(c, p, ch, b, at) == at # "idle" => Sealed(c, p, ch, b)
InCovenant == {"proof", "cell", "hash", "fold", "assert", "end"}
MachineInv(p, b, m, at) ==
  /\ at \in {"idle", "node", "accepted", "refused"} \cup InCovenant
  /\ at \in InCovenant => p # NoPool
  /\ at = "proof" => AtProof(b.fold, m)
  /\ at = "cell" => AtCell(b.fold, m)
  /\ at = "hash" => AtHash(p.category, b.fold, m)
  /\ at = "fold" => AtFold(p.category, b.fold, m)
  /\ at = "assert" => AtAssert(p.category, b.fold, m)
  /\ at = "end" => AtEnd(b.fold, m)
  /\ at = "accepted" => Folds(b.fold)
  /\ at = "refused" => ~Folds(b.fold)
Inv == PoolInv(code, pool, chain) /\ BuiltInv(code, pool, chain, built, stage) /\ MachineInv(pool, built, machine, stage)

(* ByteAssumption: a covenant fits its lock *)
LEMMA WidthFits ==
  ASSUME code \in CodeWidth
  PROVE  CodeFits(code)
  BY ByteAssumption, Zenon DEF CodeFits

(* The invariant holds at the start *)
LEMMA InvInit ==
  ASSUME Init
  PROVE  Inv
  <1>1. PoolInv(code, pool, chain)
        BY ShortLists DEF Init, PoolInv
  <1>2. BuiltInv(code, pool, chain, built, stage)
        BY DEF Init, BuiltInv
  <1>3. MachineInv(pool, built, machine, stage)
        BY DEF Init, MachineInv, InCovenant
  <1> QED BY <1>1, <1>2, <1>3 DEF Inv

(* A transaction that was built is sealed, and the machine has not started *)
LEMMA InvBuilt ==
  ASSUME Inv, Built
  PROVE  Inv'
  <1>1. UNCHANGED <<code, pool, chain, machine>> /\ stage' = "node"
        BY DEF Built
  <1>2. PoolInv(code, pool, chain)'
        BY <1>1 DEF Inv, PoolInv, LastIs
  <1>3. BuiltInv(code, pool, chain, built, stage)'
        BY DEF Built, BuiltInv
  <1>4. MachineInv(pool, built, machine, stage)'
        BY <1>1 DEF MachineInv, InCovenant
  <1> QED BY <1>2, <1>3, <1>4 DEF Inv

(* A step of the node or of its machine keeps the pool and what was built *)
Kept == UNCHANGED <<code, pool, chain, built>> /\ stage # "idle"
(* Such a step keeps the invariant if it keeps its part about the machine *)
LEMMA InvKept ==
  ASSUME Inv, Kept, MachineInv(pool, built, machine, stage)'
  PROVE  Inv'
  <1>1. PoolInv(code, pool, chain)'
        BY DEF Inv, PoolInv, Kept, LastIs
  <1>2. BuiltInv(code, pool, chain, built, stage)'
    <2>1. Sealed(code, pool, chain, built)
          BY DEF Inv, BuiltInv, Kept
    <2>2. Sealed(code, pool, chain, built)'
          BY <2>1 DEF Kept, Sealed
    <2> QED BY <2>2 DEF BuiltInv
  <1> QED BY <1>1, <1>2 DEF Inv

(* The commands keep the invariant *)
LEMMA InvBuilders ==
  ASSUME Inv, InitShards \/ ImportDepositToShard \/ WithdrawFromShard \/ FoldLimbs
  PROVE  Inv'
  <1>1. CodeFits(code) /\ List(chain) /\ (pool = NoPool => chain = <<>>) /\ (pool # NoPool => PoolHolds(code, pool, chain))
        BY WidthFits DEF Inv, PoolInv
  <1>2. CASE InitShards
    <2>1. pool = NoPool
          BY <1>2 DEF InitShards
    <2> QED BY <1>1, <1>2, <2>1, InitSeals, InvBuilt
  <1>3. CASE ImportDepositToShard
    <2>1. pool # NoPool
          BY <1>3 DEF ImportDepositToShard, Ready
    <2> QED BY <1>1, <1>3, <2>1, ImportSeals, InvBuilt
  <1>4. CASE WithdrawFromShard
    <2>1. pool # NoPool
          BY <1>4 DEF WithdrawFromShard, Ready
    <2> QED BY <1>1, <1>4, <2>1, WithdrawSeals, InvBuilt
  <1>5. CASE FoldLimbs
    <2>1. pool # NoPool
          BY <1>5 DEF FoldLimbs, Ready
    <2> QED BY <1>1, <1>5, <2>1, FoldSeals, InvBuilt
  <1> QED BY <1>2, <1>3, <1>4, <1>5

(* What the covenant sees while it runs *)
LEMMA InvSpends ==
  ASSUME Inv, stage # "idle", pool # NoPool
  PROVE  /\ Spends(pool.category, built.fold, SpentToken, MadeToken) /\ FoldFits(built.fold)
         /\ Unlocks(built.tx.inputs[1].scriptSig, built.fold)
         /\ ParseTx(built.raw).inputs[1].scriptSig = built.tx.inputs[1].scriptSig
  <1>1. CodeFits(code) /\ Sealed(code, pool, chain, built)
        BY WidthFits DEF Inv, PoolInv, BuiltInv
  <1>2. /\ Spends(pool.category, built.fold, LockToken(built.spent[1].lock), LockToken(ParseTx(built.raw).outputs[1].lock))
        /\ Unlocks(built.tx.inputs[1].scriptSig, built.fold)
        /\ ParseTx(built.raw).inputs[1].scriptSig = built.tx.inputs[1].scriptSig
        BY <1>1, SealedSpends
  <1>3. SpentToken = LockToken(built.spent[1].lock) /\ MadeToken = LockToken(ParseTx(built.raw).outputs[1].lock)
        BY DEF SpentToken, MadeToken, LockToken
  <1> QED BY <1>2, <1>3 DEF Spends

(* What the unlocking data pushes *)
LEMMA UnlocksPushes ==
  ASSUME NEW fold, FoldFits(fold), NEW script, Unlocks(script, fold)
  PROVE  \E blob : /\ HashString(blob)
                   /\ ParseScriptPushes(script) = [ok |-> Yes, pushes |-> Put(NoteOn(fold), blob)]
  <1>1. PICK blob : HashString(blob) /\ script = Unlocking(fold.limbs, fold.noteHash, blob)
        BY DEF Unlocks
  <1>2. LimbsFit(fold.limbs) /\ Word(fold.noteHash) /\ Word(blob)
        BY <1>1, FoldParts, HashIsWord
  <1>3. ParseScriptPushes(script) = [ok |-> Yes, pushes |-> Append(Append(fold.limbs, fold.noteHash), blob)]
        BY <1>1, <1>2, UnlockingIs
  <1>4. ParseScriptPushes(script) = [ok |-> Yes, pushes |-> Put(NoteOn(fold), blob)]
        BY <1>3, Zenon DEF NoteOn, Put
  <1> QED BY <1>1, <1>4

(* The node finds the transaction valid, and its machine starts with the   *)
(* pushes                                                                  *)
LEMMA InvNodeReads ==
  ASSUME Inv, NodeReads
  PROVE  Inv'
  <1>1. Kept /\ stage = "node" /\ Sealed(code, pool, chain, built) /\ CodeFits(code)
        BY WidthFits DEF NodeReads, Kept, Inv, BuiltInv, PoolInv
  <1>2. Valid(ParseTx(built.raw))
        BY <1>1, SealedIsValid
  <1>3. /\ stage' = IF pool = NoPool THEN "accepted" ELSE "proof"
        /\ pool # NoPool => machine' = Machine(ParseScriptPushes(ParseTx(built.raw).inputs[1].scriptSig).pushes)
        BY <1>2 DEF NodeReads
  <1>4. CASE pool = NoPool
    <2>1. built.fold = NoFold
          BY <1>1, <1>4 DEF Sealed, Orderly, Founding, Spending
    <2>2. Folds(built.fold)
          BY <2>1, ShortLists DEF Folds, NoFold
    <2>3. MachineInv(pool, built, machine, stage)'
      <3>1. stage' = "accepted" /\ built' = built
            BY <1>1, <1>3, <1>4 DEF Kept
      <3> QED BY <2>2, <3>1 DEF MachineInv, InCovenant
    <2> QED BY <1>1, <2>3, InvKept
  <1>5. CASE pool # NoPool
    <2>1. /\ FoldFits(built.fold) /\ Unlocks(built.tx.inputs[1].scriptSig, built.fold)
          /\ ParseTx(built.raw).inputs[1].scriptSig = built.tx.inputs[1].scriptSig
          BY <1>1, <1>5, InvSpends
    <2> PICK script : script = built.tx.inputs[1].scriptSig
        OBVIOUS
    <2>2. PICK blob : HashString(blob) /\ ParseScriptPushes(script) = [ok |-> Yes, pushes |-> Put(NoteOn(built.fold), blob)]
          BY <2>1, UnlocksPushes
    <2>3. machine' = Machine(Put(NoteOn(built.fold), blob))
      <3>1. machine' = Machine(ParseScriptPushes(script).pushes)
            BY <1>3, <1>5, <2>1
      <3> QED BY <2>2, <3>1
    <2>4. machine' = St(Put(NoteOn(built.fold), blob), <<>>)
          BY <2>3 DEF Machine, St, Yes
    <2>5. AtProof(built.fold, machine')
          BY <2>2, <2>4 DEF AtProof
    <2>6. MachineInv(pool, built, machine, stage)'
      <3>1. stage' = "proof" /\ built' = built /\ pool' = pool
            BY <1>1, <1>3, <1>5 DEF Kept
      <3> QED BY <1>5, <2>5, <3>1 DEF MachineInv, InCovenant
    <2> QED BY <1>1, <2>6, InvKept
  <1> QED BY <1>4, <1>5

(* The machine after one of the programs *)
LEMMA RunsMachine ==
  ASSUME NEW at, NEW program, NEW next, Runs(at, program, next)
  PROVE  /\ machine' = Exec(machine, program, SpentToken, MadeToken)
         /\ machine'.ok => stage' = next
         /\ ~machine'.ok => stage' = "refused"
         /\ stage = at /\ UNCHANGED <<code, pool, chain, built>>
  BY DEF Runs

(* Each run of the machine keeps the invariant: the proof is dropped, ... *)
LEMMA InvProof ==
  ASSUME Inv, RunDropProof
  PROVE  Inv'
  <1>1. /\ machine' = Exec(machine, DropProof, SpentToken, MadeToken) /\ (machine'.ok => stage' = "cell")
        /\ stage = "proof" /\ UNCHANGED <<code, pool, chain, built>>
        BY RunsMachine DEF RunDropProof
  <1>2. pool # NoPool /\ AtProof(built.fold, machine)
        BY <1>1 DEF Inv, MachineInv, InCovenant
  <1>3. FoldFits(built.fold)
        BY <1>1, <1>2, InvSpends
  <1>4. machine'.ok /\ AtCell(built.fold, machine')
        BY <1>1, <1>2, <1>3, ProofStep
  <1>5. MachineInv(pool, built, machine, stage)'
        BY <1>1, <1>2, <1>4 DEF MachineInv, InCovenant
  <1> QED BY <1>1, <1>5, InvKept DEF Kept

(* ... the state is read, ... *)
LEMMA InvCell ==
  ASSUME Inv, RunReadStateIn
  PROVE  Inv'
  <1>1. /\ machine' = Exec(machine, ReadStateIn, SpentToken, MadeToken) /\ (machine'.ok => stage' = "hash")
        /\ stage = "cell" /\ UNCHANGED <<code, pool, chain, built>>
        BY RunsMachine DEF RunReadStateIn
  <1>2. pool # NoPool /\ AtCell(built.fold, machine)
        BY <1>1 DEF Inv, MachineInv, InCovenant
  <1>3. Spends(pool.category, built.fold, SpentToken, MadeToken)
        BY <1>1, <1>2, InvSpends
  <1>4. machine'.ok /\ AtHash(pool.category, built.fold, machine')
        BY <1>1, <1>2, <1>3, CellStep
  <1>5. MachineInv(pool, built, machine, stage)'
        BY <1>1, <1>2, <1>4 DEF MachineInv, InCovenant
  <1> QED BY <1>1, <1>5, InvKept DEF Kept

(* ... hashed, ... *)
LEMMA InvHash ==
  ASSUME Inv, RunPreHash
  PROVE  Inv'
  <1>1. /\ machine' = Exec(machine, PreHash, SpentToken, MadeToken)
        /\ (machine'.ok => stage' = "fold") /\ (~machine'.ok => stage' = "refused")
        /\ stage = "hash" /\ UNCHANGED <<code, pool, chain, built>>
        BY RunsMachine DEF RunPreHash
  <1>2. pool # NoPool /\ AtHash(pool.category, built.fold, machine)
        BY <1>1 DEF Inv, MachineInv, InCovenant
  <1>3. Spends(pool.category, built.fold, SpentToken, MadeToken)
        BY <1>1, <1>2, InvSpends
  <1>4. /\ Short(built.fold) => machine'.ok /\ AtFold(pool.category, built.fold, machine')
        /\ machine'.ok => Short(built.fold)
        BY <1>1, <1>2, <1>3, HashStep
  <1>5. MachineInv(pool, built, machine, stage)'
    <2>1. CASE Short(built.fold)
          BY <1>1, <1>2, <1>4, <2>1 DEF MachineInv, InCovenant
    <2>2. CASE ~Short(built.fold)
      <3>1. stage' = "refused" /\ ~Folds(built.fold)
            BY <1>1, <1>4, <2>2 DEF Short, Folds
      <3> QED BY <1>1, <3>1 DEF MachineInv, InCovenant
    <2> QED BY <2>1, <2>2
  <1> QED BY <1>1, <1>5, InvKept DEF Kept

(* ... a limb is folded, ... *)
LEMMA InvLimb ==
  ASSUME Inv, RunFoldLimb
  PROVE  Inv'
  <1>1. /\ machine' = Exec(machine, FoldLimb, SpentToken, MadeToken) /\ (machine'.ok => stage' = "fold")
        /\ stage = "fold" /\ UNCHANGED <<code, pool, chain, built>> /\ machine.main # <<>>
        BY RunsMachine DEF RunFoldLimb
  <1>2. pool # NoPool /\ AtFold(pool.category, built.fold, machine)
        BY <1>1 DEF Inv, MachineInv, InCovenant
  <1>3. FoldFits(built.fold)
        BY <1>1, <1>2, InvSpends
  <1>4. machine'.ok /\ AtFold(pool.category, built.fold, machine')
        BY <1>1, <1>2, <1>3, LimbStep
  <1>5. MachineInv(pool, built, machine, stage)'
        BY <1>1, <1>2, <1>4 DEF MachineInv, InCovenant
  <1> QED BY <1>1, <1>5, InvKept DEF Kept

(* ... the fold ends, ... *)
LEMMA InvFoldEnd ==
  ASSUME Inv, RunFoldEnd
  PROVE  Inv'
  <1>1. /\ machine' = Exec(machine, FoldEnd, SpentToken, MadeToken) /\ (machine'.ok => stage' = "assert")
        /\ stage = "fold" /\ UNCHANGED <<code, pool, chain, built>> /\ machine.main = <<>>
        BY RunsMachine DEF RunFoldEnd
  <1>2. pool # NoPool /\ AtFold(pool.category, built.fold, machine)
        BY <1>1 DEF Inv, MachineInv, InCovenant
  <1>3. FoldFits(built.fold)
        BY <1>1, <1>2, InvSpends
  <1>4. machine'.ok /\ AtAssert(pool.category, built.fold, machine')
        BY <1>1, <1>2, <1>3, FoldEndStep
  <1>5. MachineInv(pool, built, machine, stage)'
        BY <1>1, <1>2, <1>4 DEF MachineInv, InCovenant
  <1> QED BY <1>1, <1>5, InvKept DEF Kept

(* ... the commitment is compared, ... *)
LEMMA InvAssert ==
  ASSUME Inv, RunAssertStateOut
  PROVE  Inv'
  <1>1. /\ machine' = Exec(machine, AssertStateOut, SpentToken, MadeToken)
        /\ (machine'.ok => stage' = "end") /\ (~machine'.ok => stage' = "refused")
        /\ stage = "assert" /\ UNCHANGED <<code, pool, chain, built>>
        BY RunsMachine DEF RunAssertStateOut
  <1>2. pool # NoPool /\ AtAssert(pool.category, built.fold, machine)
        BY <1>1 DEF Inv, MachineInv, InCovenant
  <1>3. Spends(pool.category, built.fold, SpentToken, MadeToken)
        BY <1>1, <1>2, InvSpends
  <1>4. /\ Folds(built.fold) => machine'.ok /\ AtEnd(built.fold, machine')
        /\ machine'.ok => Folds(built.fold)
        BY <1>1, <1>2, <1>3, AssertStep
  <1>5. MachineInv(pool, built, machine, stage)'
    <2>1. CASE Folds(built.fold)
          BY <1>1, <1>2, <1>4, <2>1 DEF MachineInv, InCovenant
    <2>2. CASE ~Folds(built.fold)
      <3>1. stage' = "refused"
            BY <1>1, <1>4, <2>2
      <3> QED BY <1>1, <2>2, <3>1 DEF MachineInv, InCovenant
    <2> QED BY <2>1, <2>2
  <1> QED BY <1>1, <1>5, InvKept DEF Kept

(* ... and a true item is left *)
LEMMA InvEnds ==
  ASSUME Inv, RunEnds
  PROVE  Inv'
  <1>1. stage = "end" /\ UNCHANGED <<code, pool, chain, built, machine>>
        BY DEF RunEnds
  <1>2. AtEnd(built.fold, machine)
        BY <1>1 DEF Inv, MachineInv
  <1>3. machine.main = Put(<<>>, <<Byte(1)>>)
        BY <1>2, MachineParts, MinimalOne DEF AtEnd
  <1>4. machine.main = <<Truth(TRUE)>>
    <2> PICK one : one = <<Byte(1)>>
        OBVIOUS
    <2>1. Put(<<>>, one) = <<one>>
          BY DEF Put
    <2>2. Truth(TRUE) = one
          BY DEF Truth
    <2> QED BY <1>3, <2>1, <2>2
  <1>5. stage' = "accepted" /\ Folds(built.fold)
        BY <1>2, <1>4 DEF RunEnds, AtEnd
  <1>6. MachineInv(pool, built, machine, stage)'
        BY <1>1, <1>5 DEF MachineInv, InCovenant
  <1> QED BY <1>1, <1>6, InvKept DEF Kept

(* An accepted transaction goes to the chain, and the pool state built     *)
(* with it is true of the chain                                            *)
LEMMA InvAccepted ==
  ASSUME Inv, Accepted
  PROVE  Inv'
  <1>1. Sealed(code, pool, chain, built) /\ List(chain) /\ code \in CodeWidth
        BY DEF Accepted, Inv, BuiltInv, PoolInv
  <1>2. PoolHolds(code, built.next, Append(chain, built.raw))
        BY <1>1 DEF Sealed
  <1>3. chain' = Append(chain, built.raw) /\ pool' = built.next /\ code' = code /\ stage' = "idle"
        BY DEF Accepted, Idle
  <1>4. built.next # NoPool
    <2>1. CategoryString(built.next.category)
          BY <1>2 DEF PoolHolds
    <2>2. built.next.category # <<>>
          BY <2>1, CategoryIs
    <2> QED BY <2>2 DEF NoPool
  <1>5. List(chain')
        BY <1>1, <1>3, AppendIs
  <1>6. PoolHolds(code', pool', chain')
        BY <1>2, <1>3
  <1>7. LastIs(code', chain')
    <2>1. TxFits(built.tx) /\ built.raw = BuildRawTx(built.tx)
          BY <1>1 DEF Sealed
    <2> PICK category : category = built.next.category
        OBVIOUS
    <2>2. OutputsOfPool(code, category, built.tx.outputs) /\ CategoryString(category)
          BY <1>1 DEF Sealed, Orderly
    <2>3. Word(category)
          BY <2>2, CategoryIs
    <2> PICK raw : raw = built.raw
        OBVIOUS
    <2> PICK after : after = Append(chain, raw)
        OBVIOUS
    <2>4. after[Len(after)] = raw
          BY <1>1, AppendIs
    <2>5. chain' = after /\ code' = code
          BY <1>3
    <2>6. chain'[Len(chain')] = BuildRawTx(built.tx)
          BY <2>1, <2>4, <2>5
    <2> QED BY <2>1, <2>2, <2>3, <2>5, <2>6 DEF LastIs
  <1>9. PoolInv(code, pool, chain)'
        BY <1>1, <1>3, <1>4, <1>5, <1>6, <1>7 DEF PoolInv
  <1>8. BuiltInv(code, pool, chain, built, stage)' /\ MachineInv(pool, built, machine, stage)'
        BY <1>3 DEF BuiltInv, MachineInv, InCovenant
  <1> QED BY <1>8, <1>9 DEF Inv

(* A refused one leaves the pool as it was *)
LEMMA InvRefusal ==
  ASSUME Inv, Refusal
  PROVE  Inv'
  <1>1. UNCHANGED <<code, pool, chain>> /\ stage' = "idle"
        BY DEF Refusal, Idle
  <1>2. PoolInv(code, pool, chain)'
        BY <1>1 DEF Inv, PoolInv, LastIs
  <1>3. BuiltInv(code, pool, chain, built, stage)' /\ MachineInv(pool, built, machine, stage)'
        BY <1>1 DEF BuiltInv, MachineInv, InCovenant
  <1> QED BY <1>2, <1>3 DEF Inv

(* A step that changes nothing keeps the invariant *)
LEMMA InvStutters ==
  ASSUME Inv, UNCHANGED vars
  PROVE  Inv'
  <1>1. UNCHANGED <<code, pool, chain, built, machine, stage>>
        BY DEF vars
  <1>2. PoolInv(code, pool, chain)'
        BY <1>1 DEF Inv, PoolInv, LastIs
  <1>3. BuiltInv(code, pool, chain, built, stage)'
        BY <1>1 DEF Inv, BuiltInv, Sealed
  <1>4. MachineInv(pool, built, machine, stage)'
        BY <1>1 DEF Inv, MachineInv
  <1> QED BY <1>2, <1>3, <1>4 DEF Inv

(* The invariant is kept by every step: the pool state is true of the      *)
(* chain, whatever is built is sealed, and the machine holds what its      *)
(* stage says                                                              *)
THEOREM PoolIsSealed == Spec => []Inv
  <1>1. Init => Inv
        BY InvInit
  <1>2. Inv /\ [Next]_vars => Inv'
    <2> SUFFICES ASSUME Inv, [Next]_vars PROVE Inv'
        OBVIOUS
    <2>1. ASSUME InitShards \/ ImportDepositToShard \/ WithdrawFromShard \/ FoldLimbs PROVE Inv'
          BY <2>1, InvBuilders
    <2>2. ASSUME NodeReads PROVE Inv'
          BY <2>2, InvNodeReads
    <2>3. ASSUME RunDropProof PROVE Inv'
          BY <2>3, InvProof
    <2>4. ASSUME RunReadStateIn PROVE Inv'
          BY <2>4, InvCell
    <2>5. ASSUME RunPreHash PROVE Inv'
          BY <2>5, InvHash
    <2>6. ASSUME RunFoldLimb PROVE Inv'
          BY <2>6, InvLimb
    <2>7. ASSUME RunFoldEnd PROVE Inv'
          BY <2>7, InvFoldEnd
    <2>8. ASSUME RunAssertStateOut PROVE Inv'
          BY <2>8, InvAssert
    <2>9. ASSUME RunEnds PROVE Inv'
          BY <2>9, InvEnds
    <2>10. ASSUME Accepted PROVE Inv'
           BY <2>10, InvAccepted
    <2>11. ASSUME Refusal PROVE Inv'
           BY <2>11, InvRefusal
    <2>12. ASSUME UNCHANGED vars PROVE Inv'
           BY <2>12, InvStutters
    <2> QED BY <2>1, <2>2, <2>3, <2>4, <2>5, <2>6, <2>7, <2>8, <2>9, <2>10, <2>11, <2>12, Zenon DEF Next
  <1> QED BY <1>1, <1>2, PTL DEF Spec

(* The builders and the covenant agree (NodeAgrees): for any limbs and any *)
(* length of the covenant, the node accepts the pool's first transaction   *)
(* and each spend that takes the category bytes as they are and folds at   *)
(* most 63 limbs, and refuses every other                                  *)
THEOREM BuildersAndCovenantAgree == Spec => []NodeAgrees
  <1>1. Inv => NodeAgrees
        BY DEF Inv, MachineInv, Folds, NodeAgrees, Foldable
  <1> QED BY <1>1, PoolIsSealed, PTL

(* What tx-builder writes is what the scanner and the Electrum client read *)
(* back (ReadBack), for every transaction that a command of the pool       *)
(* builds                                                                  *)
THEOREM WireIsReadBack == Spec => []ReadBack
  <1>1. Inv => ReadBack
    <2>1. CASE stage = "node"
      <3> SUFFICES ASSUME Inv PROVE ReadBack
          OBVIOUS
      <3>1. Sealed(code, pool, chain, built)
            BY <2>1 DEF Inv, BuiltInv
      <3> QED BY <3>1, ReadsBack DEF Sealed
    <2>2. CASE stage # "node"
          BY <2>2 DEF ReadBack
    <2> QED BY <2>1, <2>2
  <1> QED BY <1>1, PoolIsSealed, PTL

(* A stack of one item, and of two *)
LEMMA PutTwo ==
  ASSUME NEW a, NEW b
  PROVE  Put(<<>>, a) = <<a>> /\ Put(Put(<<>>, a), b) = <<a, b>>
  <1>1. Put(<<>>, a) = <<a>>
        BY DEF Put
  <1>2. Append(<<a>>, b) = <<a, b>>
    <2> PICK s : s = <<a>>
        OBVIOUS
    <2> PICK w : w = Append(s, b)
        OBVIOUS
    <2> PICK v : v = <<a, b>>
        OBVIOUS
    <2>1. List(s) /\ Len(s) = 1 /\ s[1] = a
          BY ShortLists
    <2>2. List(w) /\ Len(w) = Len(s) + 1 /\ w[Len(s) + 1] = b /\ \A i \in 1 .. Len(s) : w[i] = s[i]
          BY <2>1, AppendIs
    <2>3. Len(w) = 2 /\ w[1] = a /\ w[2] = b
          BY <2>1, <2>2
    <2>4. List(v) /\ Len(v) = 2 /\ v[1] = a /\ v[2] = b
      <3>1. v \in Seq({a, b})
            OBVIOUS
      <3> QED BY <3>1, SeqIsList
    <2>5. \A i \in 1 .. 2 : w[i] = v[i]
      <3>1. \A i \in 1 .. 2 : i = 1 \/ i = 2
            OBVIOUS
      <3> QED BY <2>3, <2>4, <3>1
    <2> QED BY <2>2, <2>3, <2>4, <2>5 DEF List
  <1> QED BY <1>1, <1>2 DEF Put

(* The stacks of the machine are those of the comments *)
LEMMA StacksAre ==
  ASSUME Inv
  PROVE  StackContract
  <1> PICK fold : fold = built.fold
      OBVIOUS
  <1> PICK limbs : limbs = fold.limbs
      OBVIOUS
  <1> PICK c : c = CategoryAndCap
      OBVIOUS
  <1>1. c = CapOf(pool.category)
        BY DEF CategoryAndCap, CapOf
  <1>2. \A taken : AccumulatorAfter(taken) = Acc(fold.stateIn, pool.category, fold.noteHash, taken)
        BY DEF AccumulatorAfter, Acc
  <1>3. stage \in {"cell", "hash"} => machine.main = Append(limbs, fold.noteHash)
    <2>1. stage = "cell" => AtCell(fold, machine)
          BY DEF Inv, MachineInv
    <2>2. stage = "hash" => AtHash(pool.category, fold, machine)
          BY DEF Inv, MachineInv
    <2>3. NoteOn(fold) = Append(limbs, fold.noteHash)
          BY DEF NoteOn, Put
    <2>4. stage = "cell" => machine.main = NoteOn(fold)
          BY <2>1, MachineParts DEF AtCell
    <2>5. stage = "hash" => machine.main = NoteOn(fold)
          BY <2>2, MachineParts DEF AtHash
    <2> QED BY <2>3, <2>4, <2>5
  <1>4. stage = "hash" => machine.alt = <<c, fold.stateIn>>
    <2>1. stage = "hash" => AtHash(pool.category, fold, machine)
          BY DEF Inv, MachineInv
    <2>2. stage = "hash" => machine.alt = Put(Put(<<>>, c), fold.stateIn)
          BY <1>1, <2>1, MachineParts DEF AtHash, Held
    <2> QED BY <2>2, PutTwo
  <1>5. ASSUME stage = "fold"
        PROVE  /\ machine.main = SubSeq(limbs, 1, Len(machine.main))
               /\ machine.alt = <<c, AccumulatorAfter(SubSeq(limbs, Len(machine.main) + 1, Len(limbs)))>>
    <2>1. AtFold(pool.category, fold, machine) /\ pool # NoPool
          BY <1>5 DEF Inv, MachineInv, InCovenant
    <2>2. FoldFits(fold)
          BY <1>5, <2>1, InvSpends
    <2>3. List(limbs)
          BY <2>2, FoldParts
    <2>4. PICK left \in 0 .. Len(limbs) : machine = St(First(limbs, left), Held(pool.category, Folded(pool.category, fold, left)))
          BY <2>1 DEF AtFold
    <2>5. Piece(First(limbs, left), limbs, 0, left)
          BY <2>3, FirstIs
    <2>6. Len(First(limbs, left)) = left
          BY <2>5 DEF Piece
    <2>7. machine.main = First(limbs, left) /\ machine.alt = Held(pool.category, Folded(pool.category, fold, left))
          BY <2>4, MachineParts
    <2>8. machine.alt = <<c, Folded(pool.category, fold, left)>>
          BY <1>1, <2>7, PutTwo DEF Held
    <2>9. Folded(pool.category, fold, left) = AccumulatorAfter(SubSeq(limbs, left + 1, Len(limbs)))
          BY <1>2 DEF Folded, Rest
    <2> QED BY <2>6, <2>7, <2>8, <2>9 DEF First
  <1>6. ASSUME stage = "assert" PROVE machine.main = <<AccumulatorAfter(limbs)>>
    <2>1. AtAssert(pool.category, fold, machine) /\ pool # NoPool
          BY <1>6 DEF Inv, MachineInv, InCovenant
    <2>2. FoldFits(fold)
          BY <1>6, <2>1, InvSpends
    <2>3. Rest(limbs, 1) = limbs
          BY <2>2, FoldParts, Ends
    <2>4. Folded(pool.category, fold, 0) = AccumulatorAfter(limbs)
      <3>1. Folded(pool.category, fold, 0) = Acc(fold.stateIn, pool.category, fold.noteHash, Rest(limbs, 1))
            BY DEF Folded
      <3> QED BY <1>2, <2>3, <3>1
    <2>5. machine.main = Put(<<>>, Folded(pool.category, fold, 0))
          BY <2>1, MachineParts DEF AtAssert
    <2> QED BY <2>4, <2>5, PutTwo
  <1>7. ASSUME stage = "proof", limbs = <<>> PROVE TwoPushesOf32(built.tx.inputs[1].scriptSig)
    <2> PICK script : script = built.tx.inputs[1].scriptSig
        OBVIOUS
    <2>1. pool # NoPool
          BY <1>7 DEF Inv, MachineInv, InCovenant
    <2>2. FoldFits(fold) /\ Unlocks(script, fold)
          BY <1>7, <2>1, InvSpends
    <2>3. PICK blob : HashString(blob) /\ ParseScriptPushes(script) = [ok |-> Yes, pushes |-> Put(NoteOn(fold), blob)]
          BY <2>2, UnlocksPushes
    <2> PICK note : note = fold.noteHash
        OBVIOUS
    <2>4. Put(NoteOn(fold), blob) = <<note, blob>>
          BY <1>7, PutTwo DEF NoteOn
    <2>5. Length(note) = 32 /\ Length(blob) = 32
          BY <2>2, <2>3, FoldParts, HashIsWord
    <2> PICK pushes : pushes = <<note, blob>>
        OBVIOUS
    <2>6. Len(pushes) = 2 /\ pushes[1] = note /\ pushes[2] = blob
          OBVIOUS
    <2>7. ParseScriptPushes(script) = [ok |-> Yes, pushes |-> pushes]
          BY <2>3, <2>4
    <2>8. ParseScriptPushes(script).ok /\ ParseScriptPushes(script).pushes = pushes
          BY <2>7 DEF Yes
    <2> QED BY <2>5, <2>6, <2>8 DEF TwoPushesOf32
  <1> QED BY <1>3, <1>4, <1>5, <1>6, <1>7 DEF StackContract

(* The covenant's functions find on the two stacks what their comments say *)
(* (StackContract), at every round of the loop and for any limbs           *)
THEOREM StacksOfTheCovenant == Spec => []StackContract
  <1>1. Inv => StackContract
        BY StacksAre
  <1> QED BY <1>1, PoolIsSealed, PTL

-----------------------------------------------------------------------------
(* The bits of an address *)

IsBits(t, bits) ==
  /\ Steps(t, Len(bits)) /\ t[0] = 0
  /\ \A i \in 1 .. Len(bits) : t[i] \in Nat /\ t[i] = 2 * t[i - 1] + bits[i]

(* Bits read from the first to the last make a number: the last item of    *)
(* the trace of the reading                                                *)
LEMMA BitsTrace ==
  ASSUME NEW bits, Len(bits) \in Nat, NEW t, IsBits(t, bits)
  PROVE  FromBits(bits) = t[Len(bits)]
  <1> DEFINE Step(i, r) == CHOOSE v \in {2 * q + bits[i] : q \in {r}} : TRUE
             Trace(g) == g = [i \in 0 .. Len(bits) |-> IF i = 0 THEN 0 ELSE Step(i, g[i - 1])]
             Result == CHOOSE g : Trace(g)
  <1>1. \A i, r : Step(i, r) = 2 * r + bits[i]
        BY Zenon
  <1>2. \A i \in 1 .. Len(bits) : t[i] = Step(i, t[i - 1])
        BY <1>1 DEF IsBits
  <1>3. FromBits(bits) = Result[Len(bits)]
        BY Zenon DEF FromBits, Fold
  <1> HIDE DEF Step
  <1>4. Trace(t)
    <2>1. \A i \in 0 .. Len(bits) : t[i] = IF i = 0 THEN 0 ELSE Step(i, t[i - 1])
          BY <1>2 DEF IsBits
    <2>2. t = [i \in 0 .. Len(bits) |-> t[i]]
          BY DEF IsBits, Steps
    <2> QED BY <2>1, <2>2, Zenon
  <1>5. Trace(Result)
        BY <1>4, Zenon
  <1> HIDE DEF Result
  <1>6. \A i \in 0 .. Len(bits) : Result[i] = IF i = 0 THEN 0 ELSE Step(i, Result[i - 1])
        BY <1>5
  <1> HIDE DEF Trace
  <1>7. Alike(Result, t, Len(bits))
        BY <1>2, <1>6 DEF Alike, IsBits
  <1> QED BY <1>3, <1>7, SameTrace

(* Such a number is a natural number *)
LEMMA BitsAreNat ==
  ASSUME NEW bits, Len(bits) \in Nat, \A i \in 1 .. Len(bits) : bits[i] \in {0, 1}
  PROVE  FromBits(bits) \in Nat
  <1> DEFINE Good(n) == \E t \in [0 .. n -> Nat] : t[0] = 0 /\ \A i \in 1 .. n : t[i] = 2 * t[i - 1] + bits[i]
             Bad == {n \in 0 .. Len(bits) : ~Good(n)}
  <1> HIDE DEF Good
  <1>1. Bad = {}
    <2> SUFFICES ASSUME Bad # {} PROVE FALSE
        OBVIOUS
    <2>1. Bad \in SUBSET Nat
          OBVIOUS
    <2> HIDE DEF Bad
    <2>2. PICK m \in Bad : \A l \in Bad : m <= l
          BY <2>1, LeastNatural
    <2> USE DEF Bad
    <2>3. CASE m = 0
      <3> DEFINE u == [i \in 0 .. m |-> 0]
      <3>1. u \in [0 .. m -> Nat] /\ u[0] = 0 /\ 1 .. m = {}
            BY <2>3
      <3> HIDE DEF u
      <3>2. Good(m)
            BY <3>1 DEF Good
      <3> QED BY <3>2
    <2>4. CASE m # 0
      <3>1. m \in 1 .. Len(bits) /\ m - 1 \in 0 .. Len(bits) /\ m - 1 \notin Bad
            BY <2>2, <2>4
      <3>2. PICK t \in [0 .. m - 1 -> Nat] : t[0] = 0 /\ \A i \in 1 .. m - 1 : t[i] = 2 * t[i - 1] + bits[i]
            BY <3>1 DEF Good
      <3> DEFINE u == [i \in 0 .. m |-> IF i = m THEN 2 * t[m - 1] + bits[m] ELSE t[i]]
      <3>0. 2 * t[m - 1] + bits[m] \in Nat
        <4>1. t[m - 1] \in Nat /\ bits[m] \in Nat
              BY <3>1, <3>2
        <4> QED BY <4>1
      <3>3. u \in [0 .. m -> Nat]
            BY <3>0, <3>1, <3>2
      <3>4. u[0] = 0 /\ \A i \in 1 .. m : u[i] = 2 * u[i - 1] + bits[i]
            BY <3>1, <3>2
      <3> HIDE DEF u
      <3>5. Good(m)
            BY <3>3, <3>4 DEF Good
      <3> QED BY <3>5
    <2> QED BY <2>3, <2>4
  <1>2. Good(Len(bits))
        BY <1>1
  <1>3. PICK t \in [0 .. Len(bits) -> Nat] : t[0] = 0 /\ \A i \in 1 .. Len(bits) : t[i] = 2 * t[i - 1] + bits[i]
        BY <1>2 DEF Good
  <1>4. IsBits(t, bits)
        BY <1>3 DEF IsBits, Steps
  <1> QED BY <1>3, <1>4, BitsTrace

LEMMA PowersOfTwo == 2 ^ 0 = 1 /\ 2 ^ 1 = 2 /\ 2 ^ 2 = 4 /\ 2 ^ 3 = 8 /\ 2 ^ 4 = 16
  <1>1. 2 ^ 0 = 1
        BY SMT
  <1>2. 2 ^ 1 = 2
        BY SMT
  <1>3. 2 ^ 2 = 4
        BY SMT
  <1>4. 2 ^ 3 = 8
        BY SMT
  <1>5. 2 ^ 4 = 16
        BY SMT
  <1> QED BY <1>1, <1>2, <1>3, <1>4, <1>5, SMT

(* The five bits of a symbol *)
LEMMA BitIs ==
  ASSUME NEW n \in Symbol
  PROVE  /\ Bit(n, 0) = n % 2 /\ Bit(n, 1) = (n \div 2) % 2 /\ Bit(n, 2) = (n \div 4) % 2
         /\ Bit(n, 3) = (n \div 8) % 2 /\ Bit(n, 4) = (n \div 16) % 2
         /\ \A i \in 0 .. 4 : Bit(n, i) \in {0, 1}
  <1>1. n \div 1 = n
        BY DEF Symbol
  <1>2. /\ Bit(n, 0) = n % 2 /\ Bit(n, 1) = (n \div 2) % 2 /\ Bit(n, 2) = (n \div 4) % 2
        /\ Bit(n, 3) = (n \div 8) % 2 /\ Bit(n, 4) = (n \div 16) % 2
        BY <1>1, PowersOfTwo DEF Bit
  <1>3. \A m \in Int : m % 2 \in {0, 1}
        OBVIOUS
  <1>4. n \in Int /\ n \div 2 \in Int /\ n \div 4 \in Int /\ n \div 8 \in Int /\ n \div 16 \in Int
        BY DEF Symbol
  <1>5. /\ n % 2 \in {0, 1} /\ (n \div 2) % 2 \in {0, 1} /\ (n \div 4) % 2 \in {0, 1}
        /\ (n \div 8) % 2 \in {0, 1} /\ (n \div 16) % 2 \in {0, 1}
        BY <1>3, <1>4
  <1>6. \A i \in 0 .. 4 : i = 0 \/ i = 1 \/ i = 2 \/ i = 3 \/ i = 4
        OBVIOUS
  <1> QED BY <1>2, <1>5, <1>6

(* A symbol is the number of its bits *)
LEMMA SymbolOfBits ==
  ASSUME NEW n \in Symbol
  PROVE  n = 16 * Bit(n, 4) + 8 * Bit(n, 3) + 4 * Bit(n, 2) + 2 * Bit(n, 1) + Bit(n, 0)
  <1> PICK h \in 0 .. 15 : h = n \div 2
      BY DEF Symbol
  <1> PICK q \in 0 .. 7 : q = n \div 4
      BY DEF Symbol
  <1> PICK e \in 0 .. 3 : e = n \div 8
      BY DEF Symbol
  <1> PICK s \in 0 .. 1 : s = n \div 16
      BY DEF Symbol
  <1>1. n = 2 * h + (n % 2)
        BY SMT DEF Symbol
  <1>2. h = 2 * q + (h % 2)
        BY SMT DEF Symbol
  <1>3. q = 2 * e + (q % 2)
        BY SMT DEF Symbol
  <1>4. e = 2 * s + (e % 2) /\ s % 2 = s
        BY SMT DEF Symbol
  <1>5. /\ Bit(n, 0) = n % 2 /\ Bit(n, 1) = h % 2 /\ Bit(n, 2) = q % 2
        /\ Bit(n, 3) = e % 2 /\ Bit(n, 4) = s % 2
        BY BitIs
  <1>6. n % 2 \in Int /\ h % 2 \in Int /\ q % 2 \in Int /\ e % 2 \in Int
        BY DEF Symbol
  <1> QED BY <1>1, <1>2, <1>3, <1>4, <1>5, <1>6, SMT

(* Five bits make a symbol *)
LEMMA FiveBits ==
  ASSUME NEW b, Len(b) = 5, \A i \in 1 .. 5 : b[i] \in {0, 1}
  PROVE  FromBits(b) = 16 * b[1] + 8 * b[2] + 4 * b[3] + 2 * b[4] + b[5]
  <1> PICK b1 \in Nat : b1 = b[1]
      OBVIOUS
  <1> PICK b2 \in Nat : b2 = b[2]
      OBVIOUS
  <1> PICK b3 \in Nat : b3 = b[3]
      OBVIOUS
  <1> PICK b4 \in Nat : b4 = b[4]
      OBVIOUS
  <1> PICK b5 \in Nat : b5 = b[5]
      OBVIOUS
  <1> DEFINE t == [i \in 0 .. 5 |->
                     CASE i = 0 -> 0 [] i = 1 -> b1 [] i = 2 -> 2 * b1 + b2 [] i = 3 -> 4 * b1 + 2 * b2 + b3
                       [] i = 4 -> 8 * b1 + 4 * b2 + 2 * b3 + b4
                       [] i = 5 -> 16 * b1 + 8 * b2 + 4 * b3 + 2 * b4 + b5]
  <1>1. /\ t[0] = 0 /\ t[1] = b1 /\ t[2] = 2 * b1 + b2 /\ t[3] = 4 * b1 + 2 * b2 + b3
        /\ t[4] = 8 * b1 + 4 * b2 + 2 * b3 + b4 /\ t[5] = 16 * b1 + 8 * b2 + 4 * b3 + 2 * b4 + b5
        OBVIOUS
  <1>2. Steps(t, 5)
        BY DEF Steps
  <1> HIDE DEF t
  <1>3. \A i \in 1 .. 5 : i = 1 \/ i = 2 \/ i = 3 \/ i = 4 \/ i = 5
        OBVIOUS
  <1>4. ASSUME NEW i \in 1 .. 5 PROVE t[i] \in Nat /\ t[i] = 2 * t[i - 1] + b[i]
    <2>0. t[0] = 0 /\ t[1] = b1 /\ t[2] = 2 * b1 + b2
          BY <1>1
    <2>1. t[1] = 2 * t[0] + b1
          BY <2>0
    <2>2. t[2] = 2 * t[1] + b2
          BY <2>0
    <2>3. t[3] = 2 * t[2] + b3
          BY <1>1
    <2>4. t[4] = 2 * t[3] + b4
          BY <1>1
    <2>5. t[5] = 2 * t[4] + b5
          BY <1>1
    <2>6. t[1] \in Nat /\ t[2] \in Nat /\ t[3] \in Nat /\ t[4] \in Nat /\ t[5] \in Nat
      <3>1. t[1] \in Nat
            BY <1>1
      <3>2. t[2] \in Nat
            BY <2>2, <3>1
      <3>3. t[3] \in Nat
            BY <2>3, <3>2
      <3>4. t[4] \in Nat
            BY <2>4, <3>3
      <3>5. t[5] \in Nat
            BY <2>5, <3>4
      <3> QED BY <3>1, <3>2, <3>3, <3>4, <3>5
    <2>7. b[1] = b1 /\ b[2] = b2 /\ b[3] = b3 /\ b[4] = b4 /\ b[5] = b5
          OBVIOUS
    <2>8. CASE i = 1
          BY <2>1, <2>6, <2>7, <2>8
    <2>9. CASE i = 2
          BY <2>2, <2>6, <2>7, <2>9
    <2>10. CASE i = 3
          BY <2>3, <2>6, <2>7, <2>10
    <2>11. CASE i = 4
          BY <2>4, <2>6, <2>7, <2>11
    <2>12. CASE i = 5
          BY <2>5, <2>6, <2>7, <2>12
    <2> QED BY <1>3, <2>8, <2>9, <2>10, <2>11, <2>12
  <1>5. IsBits(t, b)
        BY <1>1, <1>2, <1>4 DEF IsBits
  <1>6. FromBits(b) = t[5]
    <2>1. Len(b) \in Nat
          OBVIOUS
    <2> QED BY <1>5, <2>1, BitsTrace
  <1> QED BY <1>1, <1>6

(* Xor, bit by bit *)
XorBit(a, b, i) == (Bit(a, i) + Bit(b, i)) % 2
LEMMA XorIs ==
  ASSUME NEW a \in Symbol, NEW b \in Symbol
  PROVE  /\ Xor[a][b] = 16 * XorBit(a, b, 4) + 8 * XorBit(a, b, 3) + 4 * XorBit(a, b, 2)
                          + 2 * XorBit(a, b, 1) + XorBit(a, b, 0)
         /\ \A i \in 0 .. 4 : XorBit(a, b, i) \in {0, 1}
         /\ Xor[a][b] \in Symbol
  <1>1. \A i \in 0 .. 4 : XorBit(a, b, i) \in {0, 1}
    <2> TAKE i \in 0 .. 4
    <2>1. Bit(a, i) \in {0, 1} /\ Bit(b, i) \in {0, 1}
          BY BitIs
    <2> QED BY <2>1 DEF XorBit
  <1> DEFINE x == [i \in 1 .. 5 |-> (Bits(a, 5)[i] + Bits(b, 5)[i]) % 2]
  <1>2. Xor[a][b] = FromBits(x)
    <2>1. Xor[a][b] = FromBits([i \in 1 .. 5 |-> (Bits(a, 5)[i] + Bits(b, 5)[i]) % 2])
          BY DEF Xor
    <2> QED BY <2>1
  <1>3. \A i \in 1 .. 5 : x[i] = XorBit(a, b, 5 - i)
        BY DEF Bits, XorBit
  <1>4. Len(x) = 5
        OBVIOUS
  <1> HIDE DEF x
  <1>5. x[1] = XorBit(a, b, 4) /\ x[2] = XorBit(a, b, 3) /\ x[3] = XorBit(a, b, 2) /\ x[4] = XorBit(a, b, 1)
        /\ x[5] = XorBit(a, b, 0)
        BY <1>3
  <1>6. \A i \in 1 .. 5 : x[i] \in {0, 1}
        BY <1>1, <1>3
  <1>7. FromBits(x) = 16 * x[1] + 8 * x[2] + 4 * x[3] + 2 * x[4] + x[5]
        BY <1>4, <1>6, FiveBits
  <1>8. Xor[a][b] = 16 * XorBit(a, b, 4) + 8 * XorBit(a, b, 3) + 4 * XorBit(a, b, 2) + 2 * XorBit(a, b, 1) + XorBit(a, b, 0)
        BY <1>2, <1>5, <1>7
  <1>9. Xor[a][b] \in Symbol
        BY <1>1, <1>8 DEF Symbol
  <1> QED BY <1>1, <1>8, <1>9

(* Xor with a symbol can be undone, on either side *)
LEMMA XorCancels ==
  ASSUME NEW a \in Symbol, NEW b \in Symbol, NEW c \in Symbol
  PROVE  /\ Xor[a][c] = Xor[b][c] => a = b
         /\ Xor[c][a] = Xor[c][b] => a = b
  <1>0. \A i \in 0 .. 4 : Bit(a, i) \in {0, 1} /\ Bit(b, i) \in {0, 1} /\ Bit(c, i) \in {0, 1}
        BY BitIs
  <1>1. ASSUME NEW i \in 0 .. 4 PROVE (XorBit(a, c, i) = XorBit(b, c, i) \/ XorBit(c, a, i) = XorBit(c, b, i)) => Bit(a, i) = Bit(b, i)
        BY <1>0 DEF XorBit
  <1>2. (\A i \in 0 .. 4 : Bit(a, i) = Bit(b, i)) => a = b
        BY SymbolOfBits
  <1>3. \A u1, u2, u3, u4, u5, v1, v2, v3, v4, v5 \in {0, 1} :
           16 * u1 + 8 * u2 + 4 * u3 + 2 * u4 + u5 = 16 * v1 + 8 * v2 + 4 * v3 + 2 * v4 + v5
             => u1 = v1 /\ u2 = v2 /\ u3 = v3 /\ u4 = v4 /\ u5 = v5
        OBVIOUS
  <1>4. \A i \in 0 .. 4 : i = 0 \/ i = 1 \/ i = 2 \/ i = 3 \/ i = 4
        OBVIOUS
  <1>5. ASSUME Xor[a][c] = Xor[b][c] PROVE \A i \in 0 .. 4 : XorBit(a, c, i) = XorBit(b, c, i)
    <2>1. /\ XorBit(a, c, 4) = XorBit(b, c, 4) /\ XorBit(a, c, 3) = XorBit(b, c, 3) /\ XorBit(a, c, 2) = XorBit(b, c, 2)
          /\ XorBit(a, c, 1) = XorBit(b, c, 1) /\ XorBit(a, c, 0) = XorBit(b, c, 0)
          BY <1>3, <1>5, XorIs
    <2> QED BY <1>4, <2>1
  <1>6. ASSUME Xor[c][a] = Xor[c][b] PROVE \A i \in 0 .. 4 : XorBit(c, a, i) = XorBit(c, b, i)
    <2>1. /\ XorBit(c, a, 4) = XorBit(c, b, 4) /\ XorBit(c, a, 3) = XorBit(c, b, 3) /\ XorBit(c, a, 2) = XorBit(c, b, 2)
          /\ XorBit(c, a, 1) = XorBit(c, b, 1) /\ XorBit(c, a, 0) = XorBit(c, b, 0)
          BY <1>3, <1>6, XorIs
    <2> QED BY <1>4, <2>1
  <1> QED BY <1>1, <1>2, <1>5, <1>6

-----------------------------------------------------------------------------
(* The checksum's register *)

Registers == [1 .. 8 -> Symbol]

LEMMA RegistersAre ==
  ASSUME NEW r \in Registers
  PROVE  /\ r \in Seq(Symbol) /\ Len(r) = 8 /\ \A i \in 1 .. 8 : r[i] \in Symbol
  <1>1. r \in [1 .. 8 -> Symbol]
        BY DEF Registers
  <1> HIDE DEF Symbol
  <1>2. r \in Seq(Symbol)
    <2> PICK n \in Nat : n = 8
        OBVIOUS
    <2>1. r \in [1 .. n -> Symbol]
          BY <1>1
    <2> QED BY <2>1, SeqDef
  <1>3. DOMAIN r = 1 .. Len(r) /\ DOMAIN r = 1 .. 8 /\ Len(r) \in Nat
        BY <1>1, <1>2, LenProperties
  <1> QED BY <1>1, <1>2, <1>3

(* Eight symbols of a row, or seven *)
LEMMA SliceIs ==
  ASSUME NEW s \in Seq(Symbol), NEW m \in 1 .. Len(s), NEW n \in m .. Len(s)
  PROVE  /\ SubSeq(s, m, n) \in Seq(Symbol) /\ Len(SubSeq(s, m, n)) = n - m + 1
         /\ \A i \in 1 .. n - m + 1 : SubSeq(s, m, n)[i] = s[m + i - 1]
  <1>1. s \in [1 .. Len(s) -> Symbol] /\ Len(s) \in Nat
        BY LenProperties
  <1>2. m \in Int /\ n \in Int /\ m <= n /\ \A i \in m .. n : s[i] \in Symbol
        BY <1>1
  <1> QED BY <1>2, SubSeqProperties

LEMMA RowOfEight ==
  ASSUME NEW s \in Seq(Symbol), Len(s) = 8
  PROVE  s \in Registers
  BY LenProperties DEF Registers

(* Two registers, digit by digit *)
LEMMA XorAllIs ==
  ASSUME NEW r \in Registers, NEW q \in Registers
  PROVE  XorAll(r, q) \in Registers /\ \A i \in 1 .. 8 : XorAll(r, q)[i] = Xor[r[i]][q[i]]
  <1> DEFINE f == [i \in 1 .. 8 |-> Xor[r[i]][q[i]]]
  <1>1. \A i \in 1 .. 8 : f[i] = Xor[r[i]][q[i]] /\ f[i] \in Symbol
    <2> TAKE i \in 1 .. 8
    <2>1. r[i] \in Symbol /\ q[i] \in Symbol
          BY RegistersAre
    <2> QED BY <2>1, XorIs
  <1>2. f \in Registers
        BY <1>1 DEF Registers
  <1>3. f \in Seq(Symbol) /\ Len(f) = 8
        BY <1>2, RegistersAre
  <1>4. XorAll(r, q) = SubSeq(f, 1, 8)
        BY DEF XorAll
  <1> HIDE DEF f
  <1>5. SubSeq(f, 1, 8) \in [1 .. 8 -> Symbol] /\ \A i \in 1 .. 8 : SubSeq(f, 1, 8)[i] = f[i]
    <2> PICK p : p = SubSeq(f, 1, 8)
        OBVIOUS
    <2>1. 1 \in 1 .. Len(f) /\ 8 \in 1 .. Len(f) /\ \A i \in 1 .. 8 : 1 + i - 1 = i
          BY <1>3
    <2>2. p \in Seq(Symbol) /\ Len(p) = 8 - 1 + 1 /\ \A i \in 1 .. 8 - 1 + 1 : p[i] = f[1 + i - 1]
          BY <1>3, <2>1, SliceIs
    <2>3. p \in Registers
      <3>1. Len(p) = 8
            BY <2>2
      <3> QED BY <2>2, <3>1, RowOfEight
    <2> QED BY <2>1, <2>2, <2>3 DEF Registers
  <1> QED BY <1>1, <1>4, <1>5 DEF Registers

LEMMA GeneratorIs ==
  /\ \A i \in 1 .. 5 : Generator[i] \in Registers
  /\ Generator[1][8] = 1 /\ Generator[2][8] = 2 /\ Generator[3][8] = 4 /\ Generator[4][8] = 8 /\ Generator[5][8] = 16
  <1>1. /\ Generator[1] \in Registers /\ Generator[2] \in Registers /\ Generator[3] \in Registers
        /\ Generator[4] \in Registers /\ Generator[5] \in Registers
        BY DEF Generator, Registers, Symbol
  <1>2. \A i \in 1 .. 5 : i = 1 \/ i = 2 \/ i = 3 \/ i = 4 \/ i = 5
        OBVIOUS
  <1>3. \A i \in 1 .. 5 : Generator[i] \in Registers
        BY <1>1, <1>2
  <1> QED BY <1>3 DEF Generator

LEMMA ZerosIs == Zeros \in Registers /\ One \in Registers /\ \A i \in 1 .. 8 : Zeros[i] = 0
  <1>1. Zeros \in Registers /\ One \in Registers
        BY DEF Zeros, One, Registers, Symbol
  <1>2. \A i \in 1 .. 8 : Zeros[i] = 0
    <2>1. \A i \in 1 .. 8 : i = 1 \/ i = 2 \/ i = 3 \/ i = 4 \/ i = 5 \/ i = 6 \/ i = 7 \/ i = 8
          OBVIOUS
    <2> QED BY <2>1 DEF Zeros
  <1> QED BY <1>1, <1>2

(* A power of two is added by Xor to what is below it *)
LEMMA XorAdds ==
  /\ Xor[0][1] = 1
  /\ \A x \in 0 .. 1 : Xor[x][2] = x + 2
  /\ \A x \in 0 .. 3 : Xor[x][4] = x + 4
  /\ \A x \in 0 .. 7 : Xor[x][8] = x + 8
  /\ \A x \in 0 .. 15 : Xor[x][16] = x + 16
  <1>1. /\ 0 \in Symbol /\ 1 \in Symbol /\ 2 \in Symbol /\ 4 \in Symbol /\ 8 \in Symbol /\ 16 \in Symbol
        BY DEF Symbol
  <1>2. Bit(0, 0) = 0 /\ Bit(0, 1) = 0 /\ Bit(0, 2) = 0 /\ Bit(0, 3) = 0 /\ Bit(0, 4) = 0
        BY <1>1, BitIs
  <1>3. Bit(1, 0) = 1 /\ Bit(1, 1) = 0 /\ Bit(1, 2) = 0 /\ Bit(1, 3) = 0 /\ Bit(1, 4) = 0
        BY <1>1, BitIs
  <1>4. Bit(2, 0) = 0 /\ Bit(2, 1) = 1 /\ Bit(2, 2) = 0 /\ Bit(2, 3) = 0 /\ Bit(2, 4) = 0
        BY <1>1, BitIs
  <1>5. Bit(4, 0) = 0 /\ Bit(4, 1) = 0 /\ Bit(4, 2) = 1 /\ Bit(4, 3) = 0 /\ Bit(4, 4) = 0
        BY <1>1, BitIs
  <1>6. Bit(8, 0) = 0 /\ Bit(8, 1) = 0 /\ Bit(8, 2) = 0 /\ Bit(8, 3) = 1 /\ Bit(8, 4) = 0
        BY <1>1, BitIs
  <1>7. Bit(16, 0) = 0 /\ Bit(16, 1) = 0 /\ Bit(16, 2) = 0 /\ Bit(16, 3) = 0 /\ Bit(16, 4) = 1
        BY <1>1, BitIs
  <1>8. Xor[0][1] = 1
        BY <1>1, <1>2, <1>3, XorIs DEF XorBit
  <1>9. ASSUME NEW x \in 0 .. 1 PROVE Xor[x][2] = x + 2
    <2>1. x \in Symbol
          BY DEF Symbol
    <2>2. Bit(x, 1) = 0 /\ Bit(x, 2) = 0 /\ Bit(x, 3) = 0 /\ Bit(x, 4) = 0 /\ Bit(x, 0) \in {0, 1}
          BY <2>1, BitIs, SMT
    <2> QED BY <1>1, <1>4, <2>1, <2>2, XorIs, SymbolOfBits DEF XorBit
  <1>10. ASSUME NEW x \in 0 .. 3 PROVE Xor[x][4] = x + 4
    <2>1. x \in Symbol
          BY DEF Symbol
    <2>2. Bit(x, 2) = 0 /\ Bit(x, 3) = 0 /\ Bit(x, 4) = 0 /\ Bit(x, 0) \in {0, 1} /\ Bit(x, 1) \in {0, 1}
          BY <2>1, BitIs, SMT
    <2> QED BY <1>1, <1>5, <2>1, <2>2, XorIs, SymbolOfBits DEF XorBit
  <1>11. ASSUME NEW x \in 0 .. 7 PROVE Xor[x][8] = x + 8
    <2>1. x \in Symbol
          BY DEF Symbol
    <2>2. Bit(x, 3) = 0 /\ Bit(x, 4) = 0 /\ Bit(x, 0) \in {0, 1} /\ Bit(x, 1) \in {0, 1} /\ Bit(x, 2) \in {0, 1}
          BY <2>1, BitIs, SMT
    <2> QED BY <1>1, <1>6, <2>1, <2>2, XorIs, SymbolOfBits DEF XorBit
  <1>12. ASSUME NEW x \in 0 .. 15 PROVE Xor[x][16] = x + 16
    <2>1. x \in Symbol
          BY DEF Symbol
    <2>2. Bit(x, 4) = 0 /\ Bit(x, 0) \in {0, 1} /\ Bit(x, 1) \in {0, 1} /\ Bit(x, 2) \in {0, 1} /\ Bit(x, 3) \in {0, 1}
          BY <2>1, BitIs, SMT
    <2> QED BY <1>1, <1>7, <2>1, <2>2, XorIs, SymbolOfBits DEF XorBit
  <1> QED BY <1>8, <1>9, <1>10, <1>11, <1>12

(* The feedback of a digit *)
Folding(top, c, i) == IF Bit(top, i - 1) = 1 THEN XorAll(c, Generator[i]) ELSE c
Five == <<1, 2, 3, 4, 5>>

LEMMA FeedbackTrace ==
  ASSUME NEW top \in Symbol, NEW t, Steps(t, 5), t[0] = Zeros,
         \A i \in 1 .. 5 : t[i] = Folding(top, t[i - 1], i)
  PROVE  Feedback[top] = t[5]
  <1> DEFINE Step(i, r) == CHOOSE v \in {Folding(top, q, Five[i]) : q \in {r}} : TRUE
             Trace(g) == g = [i \in 0 .. Len(Five) |-> IF i = 0 THEN Zeros ELSE Step(i, g[i - 1])]
             Result == CHOOSE g : Trace(g)
  <1>0. Len(Five) = 5 /\ \A i \in 1 .. 5 : Five[i] = i
    <2>1. \A i \in 1 .. 5 : i = 1 \/ i = 2 \/ i = 3 \/ i = 4 \/ i = 5
          OBVIOUS
    <2> QED BY <2>1 DEF Five
  <1>1. \A i, r : Step(i, r) = Folding(top, r, Five[i])
        BY Zenon
  <1>2. \A i \in 1 .. 5 : t[i] = Step(i, t[i - 1])
        BY <1>0, <1>1
  <1>3. Feedback[top] = Result[Len(Five)]
    <2>1. Feedback[top] = Fold(LAMBDA c, i : IF Bit(top, i - 1) = 1 THEN XorAll(c, Generator[i]) ELSE c, Zeros, Five)
          BY Zenon DEF Feedback, Five
    <2> QED BY <2>1, Zenon DEF Fold, Folding
  <1> HIDE DEF Step
  <1>4. Trace(t)
    <2>1. \A i \in 0 .. 5 : t[i] = IF i = 0 THEN Zeros ELSE Step(i, t[i - 1])
          BY <1>2
    <2>2. t = [i \in 0 .. 5 |-> t[i]]
          BY DEF Steps
    <2> QED BY <1>0, <2>1, <2>2, Zenon
  <1>5. Trace(Result)
        BY <1>4, Zenon
  <1> HIDE DEF Result
  <1>6. \A i \in 0 .. 5 : Result[i] = IF i = 0 THEN Zeros ELSE Step(i, Result[i - 1])
        BY <1>0, <1>5
  <1> HIDE DEF Trace
  <1>7. Alike(Result, t, 5)
        BY <1>2, <1>6 DEF Alike
  <1>8. Result[5] = t[5]
        BY <1>7, SameTrace
  <1> QED BY <1>0, <1>3, <1>8

(* Each step folds one generator in, and the last digit gains its bit *)
LEMMA FoldingIs ==
  ASSUME NEW top \in Symbol, NEW c \in Registers, NEW i \in 1 .. 5
  PROVE  /\ Folding(top, c, i) \in Registers
         /\ Folding(top, c, i)[8] = IF Bit(top, i - 1) = 1 THEN Xor[c[8]][Generator[i][8]] ELSE c[8]
  <1>1. Generator[i] \in Registers
        BY GeneratorIs
  <1> QED BY <1>1, XorAllIs DEF Folding

(* The last digit of a feedback is the digit it is the feedback of *)
LEMMA FeedbackIs ==
  ASSUME NEW top \in Symbol
  PROVE  Feedback[top] \in Registers /\ Feedback[top][8] = top
  <1> PICK c1 : c1 = Folding(top, Zeros, 1)
      OBVIOUS
  <1> PICK c2 : c2 = Folding(top, c1, 2)
      OBVIOUS
  <1> PICK c3 : c3 = Folding(top, c2, 3)
      OBVIOUS
  <1> PICK c4 : c4 = Folding(top, c3, 4)
      OBVIOUS
  <1> PICK c5 : c5 = Folding(top, c4, 5)
      OBVIOUS
  <1> DEFINE t == [i \in 0 .. 5 |-> CASE i = 0 -> Zeros [] i = 1 -> c1 [] i = 2 -> c2 [] i = 3 -> c3
                                      [] i = 4 -> c4 [] i = 5 -> c5]
  <1>1. t[0] = Zeros /\ t[1] = c1 /\ t[2] = c2 /\ t[3] = c3 /\ t[4] = c4 /\ t[5] = c5
        OBVIOUS
  <1>2. Steps(t, 5)
        BY DEF Steps
  <1> HIDE DEF t
  <1>3. \A i \in 1 .. 5 : t[i] = Folding(top, t[i - 1], i)
    <2>1. \A i \in 1 .. 5 : i = 1 \/ i = 2 \/ i = 3 \/ i = 4 \/ i = 5
          OBVIOUS
    <2> QED BY <1>1, <2>1
  <1>4. Feedback[top] = c5
        BY <1>1, <1>2, <1>3, FeedbackTrace
  <1>5. \A i \in 0 .. 4 : Bit(top, i) \in {0, 1}
        BY BitIs
  <1>6. c1 \in Registers /\ c1[8] = Bit(top, 0)
    <2>1. c1 \in Registers /\ c1[8] = IF Bit(top, 0) = 1 THEN Xor[0][1] ELSE 0
          BY ZerosIs, FoldingIs, GeneratorIs
    <2> QED BY <1>5, <2>1, XorAdds
  <1>7. c2 \in Registers /\ c2[8] = 2 * Bit(top, 1) + Bit(top, 0)
    <2>1. c2 \in Registers /\ c2[8] = IF Bit(top, 1) = 1 THEN Xor[c1[8]][2] ELSE c1[8]
          BY <1>6, FoldingIs, GeneratorIs
    <2>2. c1[8] \in 0 .. 1
          BY <1>5, <1>6
    <2> QED BY <1>5, <1>6, <2>1, <2>2, XorAdds
  <1>8. c3 \in Registers /\ c3[8] = 4 * Bit(top, 2) + 2 * Bit(top, 1) + Bit(top, 0)
    <2>1. c3 \in Registers /\ c3[8] = IF Bit(top, 2) = 1 THEN Xor[c2[8]][4] ELSE c2[8]
          BY <1>7, FoldingIs, GeneratorIs
    <2>2. c2[8] \in 0 .. 3
          BY <1>5, <1>7
    <2> QED BY <1>5, <1>7, <2>1, <2>2, XorAdds
  <1>9. c4 \in Registers /\ c4[8] = 8 * Bit(top, 3) + 4 * Bit(top, 2) + 2 * Bit(top, 1) + Bit(top, 0)
    <2>1. c4 \in Registers /\ c4[8] = IF Bit(top, 3) = 1 THEN Xor[c3[8]][8] ELSE c3[8]
          BY <1>8, FoldingIs, GeneratorIs
    <2>2. c3[8] \in 0 .. 7
          BY <1>5, <1>8
    <2> QED BY <1>5, <1>8, <2>1, <2>2, XorAdds
  <1>10. c5 \in Registers /\ c5[8] = 16 * Bit(top, 4) + 8 * Bit(top, 3) + 4 * Bit(top, 2) + 2 * Bit(top, 1) + Bit(top, 0)
    <2>1. c5 \in Registers /\ c5[8] = IF Bit(top, 4) = 1 THEN Xor[c4[8]][16] ELSE c4[8]
          BY <1>9, FoldingIs, GeneratorIs
    <2>2. c4[8] \in 0 .. 15
          BY <1>5, <1>9
    <2> QED BY <1>5, <1>9, <2>1, <2>2, XorAdds
  <1> QED BY <1>4, <1>10, SymbolOfBits

(* One round of the checksum *)
LEMMA RoundIs ==
  ASSUME NEW r \in Registers, NEW s \in Symbol
  PROVE  /\ PolymodStep(r, s) \in Registers
         /\ \A i \in 1 .. 7 : PolymodStep(r, s)[i] = Xor[r[i + 1]][Feedback[r[1]][i]]
         /\ PolymodStep(r, s)[8] = Xor[s][r[1]]
  <1> PICK shifted : shifted = Append(SubSeq(r, 2, 8), s)
      OBVIOUS
  <1> PICK back : back = Feedback[r[1]]
      OBVIOUS
  <1>1. r \in Seq(Symbol) /\ Len(r) = 8 /\ r[1] \in Symbol
        BY RegistersAre
  <1>2. back \in Registers /\ back[8] = r[1]
        BY <1>1, FeedbackIs
  <1> PICK rest : rest = SubSeq(r, 2, 8)
      OBVIOUS
  <1>3. rest \in Seq(Symbol) /\ Len(rest) = 7 /\ \A i \in 1 .. 7 : rest[i] = r[i + 1]
    <2>1. 2 \in 1 .. Len(r) /\ 8 \in 2 .. Len(r) /\ \A i \in 1 .. 7 : 2 + i - 1 = i + 1
          BY <1>1
    <2>2. rest \in Seq(Symbol) /\ Len(rest) = 8 - 2 + 1 /\ \A i \in 1 .. 8 - 2 + 1 : rest[i] = r[2 + i - 1]
          BY <1>1, <2>1, SliceIs
    <2> QED BY <2>1, <2>2
  <1>4. shifted \in Seq(Symbol) /\ Len(shifted) = 8 /\ shifted[8] = s /\ \A i \in 1 .. 7 : shifted[i] = r[i + 1]
        BY <1>3, AppendProperties
  <1>5. shifted \in Registers
        BY <1>4, RowOfEight
  <1>6. PolymodStep(r, s) = XorAll(shifted, back)
        BY DEF PolymodStep
  <1>7. /\ XorAll(shifted, back) \in Registers
        /\ \A i \in 1 .. 8 : XorAll(shifted, back)[i] = Xor[shifted[i]][back[i]]
        BY <1>2, <1>5, XorAllIs
  <1>8. \A i \in 1 .. 7 : i \in 1 .. 8
        OBVIOUS
  <1>9. 8 \in 1 .. 8
        OBVIOUS
  <1> QED BY <1>2, <1>4, <1>6, <1>7, <1>8, <1>9

(* Two registers that differ still do when the same symbol is shifted into *)
(* both                                                                    *)
LEMMA RoundKeepsApart ==
  ASSUME NEW r \in Registers, NEW q \in Registers, NEW s \in Symbol, PolymodStep(r, s) = PolymodStep(q, s)
  PROVE  r = q
  <1>1. \A i \in 1 .. 8 : r[i] \in Symbol /\ q[i] \in Symbol
        BY RegistersAre
  <1>2. r[1] = q[1]
    <2>1. Xor[s][r[1]] = Xor[s][q[1]]
          BY RoundIs
    <2> QED BY <1>1, <2>1, XorCancels
  <1>3. ASSUME NEW i \in 1 .. 7 PROVE r[i + 1] = q[i + 1]
    <2>1. Xor[r[i + 1]][Feedback[r[1]][i]] = Xor[q[i + 1]][Feedback[r[1]][i]]
      <3>1. PolymodStep(r, s)[i] = Xor[r[i + 1]][Feedback[r[1]][i]]
            BY RoundIs
      <3>2. PolymodStep(q, s)[i] = Xor[q[i + 1]][Feedback[q[1]][i]]
            BY RoundIs
      <3> QED BY <1>2, <3>1, <3>2
    <2>2. Feedback[r[1]][i] \in Symbol
          BY <1>1, FeedbackIs, RegistersAre
    <2>3. r[i + 1] \in Symbol /\ q[i + 1] \in Symbol
          BY <1>1
    <2> QED BY <2>1, <2>2, <2>3, XorCancels
  <1>4. \A i \in 1 .. 8 : r[i] = q[i]
    <2> TAKE i \in 1 .. 8
    <2>1. CASE i = 1
          BY <1>2, <2>1
    <2>2. CASE i # 1
      <3>1. i - 1 \in 1 .. 7 /\ (i - 1) + 1 = i
            BY <2>2
      <3> QED BY <1>3, <3>1
    <2> QED BY <2>1, <2>2
  <1> QED BY <1>4 DEF Registers

(* Two symbols that differ leave registers that differ in the last digit   *)
(* only, and, when they are exchanged, in the last but one                 *)
LEMMA RoundTellsApart ==
  ASSUME NEW r \in Registers, NEW s \in Symbol, NEW u \in Symbol, s # u
  PROVE  /\ PolymodStep(r, s) # PolymodStep(r, u)
         /\ PolymodStep(PolymodStep(r, s), u) # PolymodStep(PolymodStep(r, u), s)
  <1> PICK a : a = PolymodStep(r, s)
      OBVIOUS
  <1> PICK b : b = PolymodStep(r, u)
      OBVIOUS
  <1>1. /\ a \in Registers /\ b \in Registers /\ a[8] = Xor[s][r[1]] /\ b[8] = Xor[u][r[1]]
        /\ a[1] = b[1] /\ r[1] \in Symbol
        BY RoundIs, RegistersAre
  <1>2. a[8] # b[8]
        BY <1>1, XorCancels
  <1>3. a[8] \in Symbol /\ b[8] \in Symbol /\ a[1] \in Symbol
        BY <1>1, RegistersAre
  <1>4. Feedback[a[1]][7] \in Symbol
        BY <1>3, FeedbackIs, RegistersAre
  <1>5. Xor[a[8]][Feedback[a[1]][7]] # Xor[b[8]][Feedback[a[1]][7]]
        BY <1>2, <1>3, <1>4, XorCancels
  <1>6. PolymodStep(a, u)[7] = Xor[a[8]][Feedback[a[1]][7]] /\ PolymodStep(b, s)[7] = Xor[b[8]][Feedback[b[1]][7]]
    <2>1. 7 \in 1 .. 7 /\ 7 + 1 = 8
          OBVIOUS
    <2>2. PolymodStep(a, u)[7] = Xor[a[7 + 1]][Feedback[a[1]][7]]
          BY <1>1, <2>1, RoundIs
    <2>3. PolymodStep(b, s)[7] = Xor[b[7 + 1]][Feedback[b[1]][7]]
          BY <1>1, <2>1, RoundIs
    <2> QED BY <2>1, <2>2, <2>3
  <1> QED BY <1>1, <1>2, <1>5, <1>6

-----------------------------------------------------------------------------
(* Rows of symbols through the register *)

IsRow(t, base, s) ==
  Steps(t, Len(s)) /\ t[0] = base /\ \A i \in 1 .. Len(s) : t[i] = PolymodStep(t[i - 1], s[i])

(* The register after a row is the last item of the trace of its rounds *)
LEMMA RowTrace ==
  ASSUME NEW s \in Seq(Symbol), NEW t, IsRow(t, One, s)
  PROVE  Register(s) = t[Len(s)]
  <1> DEFINE Step(i, r) == CHOOSE v \in {PolymodStep(q, s[i]) : q \in {r}} : TRUE
             Trace(g) == g = [i \in 0 .. Len(s) |-> IF i = 0 THEN One ELSE Step(i, g[i - 1])]
             Result == CHOOSE g : Trace(g)
  <1>0. Len(s) \in Nat
        BY LenProperties
  <1>1. \A i, r : Step(i, r) = PolymodStep(r, s[i])
        BY Zenon
  <1>2. \A i \in 1 .. Len(s) : t[i] = Step(i, t[i - 1])
        BY <1>1 DEF IsRow
  <1>3. Register(s) = Result[Len(s)]
        BY Zenon DEF Register, Fold
  <1> HIDE DEF Step
  <1>4. Trace(t)
    <2>1. \A i \in 0 .. Len(s) : t[i] = IF i = 0 THEN One ELSE Step(i, t[i - 1])
          BY <1>0, <1>2 DEF IsRow
    <2>2. t = [i \in 0 .. Len(s) |-> t[i]]
          BY DEF IsRow, Steps
    <2> QED BY <2>1, <2>2, Zenon
  <1>5. Trace(Result)
        BY <1>4, Zenon
  <1> HIDE DEF Result
  <1>6. \A i \in 0 .. Len(s) : Result[i] = IF i = 0 THEN One ELSE Step(i, Result[i - 1])
        BY <1>5
  <1> HIDE DEF Trace
  <1>7. Alike(Result, t, Len(s))
        BY <1>0, <1>2, <1>6 DEF Alike, IsRow
  <1> QED BY <1>0, <1>3, <1>7, SameTrace

(* Every row has a trace, of registers *)
LEMMA RowsExist ==
  ASSUME NEW s \in Seq(Symbol), NEW base \in Registers
  PROVE  \E t \in [0 .. Len(s) -> Registers] : IsRow(t, base, s)
  <1> DEFINE Good(n) == \E t \in [0 .. n -> Registers] :
                           t[0] = base /\ \A i \in 1 .. n : t[i] = PolymodStep(t[i - 1], s[i])
             Bad == {n \in 0 .. Len(s) : ~Good(n)}
  <1>0. Len(s) \in Nat /\ \A i \in 1 .. Len(s) : s[i] \in Symbol
        BY LenProperties
  <1> HIDE DEF Good
  <1>1. Bad = {}
    <2> SUFFICES ASSUME Bad # {} PROVE FALSE
        OBVIOUS
    <2>1. Bad \in SUBSET Nat
          OBVIOUS
    <2> HIDE DEF Bad
    <2>2. PICK m \in Bad : \A l \in Bad : m <= l
          BY <2>1, LeastNatural
    <2> USE DEF Bad
    <2>3. CASE m = 0
      <3> DEFINE u == [i \in 0 .. m |-> base]
      <3>1. u \in [0 .. m -> Registers] /\ u[0] = base /\ 1 .. m = {}
            BY <2>3
      <3> HIDE DEF u
      <3>2. Good(m)
            BY <3>1 DEF Good
      <3> QED BY <3>2
    <2>4. CASE m # 0
      <3>1. m \in 1 .. Len(s) /\ m - 1 \in 0 .. Len(s) /\ m - 1 \notin Bad
            BY <1>0, <2>2, <2>4
      <3>2. PICK t \in [0 .. m - 1 -> Registers] : t[0] = base /\ \A i \in 1 .. m - 1 : t[i] = PolymodStep(t[i - 1], s[i])
            BY <3>1 DEF Good
      <3> PICK last : last = PolymodStep(t[m - 1], s[m])
          OBVIOUS
      <3> DEFINE u == [i \in 0 .. m |-> IF i = m THEN last ELSE t[i]]
      <3>3. last \in Registers
        <4>1. t[m - 1] \in Registers /\ s[m] \in Symbol
              BY <1>0, <3>1, <3>2
        <4> QED BY <4>1, RoundIs
      <3>4. u \in [0 .. m -> Registers]
            BY <3>1, <3>2, <3>3
      <3>5. u[m] = last /\ \A i \in 0 .. m - 1 : u[i] = t[i]
            BY <3>1
      <3> HIDE DEF u
      <3>6. u[0] = base
            BY <3>1, <3>2, <3>5
      <3>7. ASSUME NEW i \in 1 .. m PROVE u[i] = PolymodStep(u[i - 1], s[i])
        <4>1. CASE i = m
          <5>1. m - 1 \in 0 .. m - 1
                BY <3>1
          <5> QED BY <3>5, <4>1, <5>1
        <4>2. CASE i # m
          <5>1. i \in 1 .. m - 1 /\ i \in 0 .. m - 1 /\ i - 1 \in 0 .. m - 1
                BY <3>1, <4>2
          <5> QED BY <3>2, <3>5, <5>1
        <4> QED BY <4>1, <4>2
      <3>8. Good(m)
            BY <3>4, <3>6, <3>7 DEF Good
      <3> QED BY <3>8
    <2> QED BY <2>3, <2>4
  <1>2. Good(Len(s))
        BY <1>0, <1>1
  <1>3. PICK t \in [0 .. Len(s) -> Registers] : t[0] = base /\ \A i \in 1 .. Len(s) : t[i] = PolymodStep(t[i - 1], s[i])
        BY <1>2 DEF Good
  <1>4. IsRow(t, base, s)
        BY <1>3 DEF IsRow, Steps
  <1> QED BY <1>4

(* The register after a row *)
LEMMA RegisterIs ==
  ASSUME NEW s \in Seq(Symbol)
  PROVE  Register(s) \in Registers
  <1>1. PICK t \in [0 .. Len(s) -> Registers] : IsRow(t, One, s)
        BY ZerosIs, RowsExist
  <1>2. Len(s) \in Nat
        BY LenProperties
  <1> QED BY <1>1, <1>2, RowTrace

(* The register after two rows is that of the second, from where the first *)
(* leaves it                                                               *)
LEMMA RegisterJoin ==
  ASSUME NEW h \in Seq(Symbol), NEW s \in Seq(Symbol), NEW u, IsRow(u, Register(h), s)
  PROVE  Register(h \o s) = u[Len(s)]
  <1> PICK j \in Nat : j = Len(h)
      BY LenProperties
  <1> PICK k \in Nat : k = Len(s)
      BY LenProperties
  <1> PICK all : all = h \o s
      OBVIOUS
  <1>1. /\ all \in Seq(Symbol) /\ Len(all) = j + k
        /\ \A i \in 1 .. j : all[i] = h[i]
        /\ \A i \in 1 .. k : all[j + i] = s[i]
    <2>1. List(h) /\ List(s)
          BY SeqIsList
    <2>2. all \in Seq(Symbol)
          BY ConcatProperties
    <2> QED BY <2>1, <2>2, JoinedLists
  <1>2. PICK t \in [0 .. j -> Registers] : IsRow(t, One, h)
        BY ZerosIs, RowsExist
  <1>3. t[j] = Register(h)
        BY <1>2, RowTrace
  <1> DEFINE w == [i \in 0 .. j + k |-> IF i <= j THEN t[i] ELSE u[i - j]]
  <1>4. Steps(w, j + k)
        BY DEF Steps
  <1>5. /\ \A i \in 0 .. j : w[i] = t[i]
        /\ \A i \in 0 .. k : w[j + i] = u[i]
    <2>1. \A i \in 0 .. j : i \in 0 .. j + k /\ i <= j
          OBVIOUS
    <2>2. ASSUME NEW i \in 0 .. k PROVE w[j + i] = u[i]
      <3>1. CASE i = 0
        <4>1. w[j] = t[j]
              OBVIOUS
        <4>2. u[0] = Register(h)
              BY DEF IsRow
        <4> QED BY <1>3, <3>1, <4>1, <4>2
      <3>2. CASE i # 0
        <4>1. j + i \in 0 .. j + k /\ ~(j + i <= j) /\ j + i - j = i
              BY <3>2
        <4> PICK l : l = j + i
            OBVIOUS
        <4>2. w[l] = u[l - j]
              BY <4>1
        <4> QED BY <4>1, <4>2
      <3> QED BY <3>1, <3>2
    <2> QED BY <2>1, <2>2
  <1> HIDE DEF w
  <1>6. ASSUME NEW i \in 1 .. j + k PROVE w[i] = PolymodStep(w[i - 1], all[i])
    <2>1. CASE i <= j
      <3>1. i \in 1 .. j /\ i \in 0 .. j /\ i - 1 \in 0 .. j
            BY <2>1
      <3>2. t[i] = PolymodStep(t[i - 1], h[i])
            BY <1>2, <3>1 DEF IsRow
      <3> QED BY <1>1, <1>5, <3>1, <3>2
    <2>2. CASE ~(i <= j)
      <3>1. i - j \in 1 .. k /\ j + (i - j) = i /\ j + (i - j - 1) = i - 1 /\ i - j - 1 \in 0 .. k /\ i - j \in 0 .. k
            BY <2>2
      <3> PICK l \in 1 .. k : l = i - j
          BY <3>1
      <3>2. u[l] = PolymodStep(u[l - 1], s[l])
            BY DEF IsRow
      <3>3. w[j + l] = u[l] /\ j + l = i
            BY <1>5, <3>1
      <3>4. w[j + (l - 1)] = u[l - 1] /\ j + (l - 1) = i - 1
            BY <1>5, <3>1
      <3>5. all[j + l] = s[l]
            BY <1>1
      <3> QED BY <3>2, <3>3, <3>4, <3>5
    <2> QED BY <2>1, <2>2
  <1>7. w[0] = One /\ w[j + k] = u[k]
    <2>1. 0 \in 0 .. j /\ t[0] = One
          BY <1>2 DEF IsRow
    <2>2. k \in 0 .. k
          OBVIOUS
    <2> QED BY <1>5, <2>1, <2>2
  <1>8. IsRow(w, One, all)
        BY <1>1, <1>4, <1>6, <1>7 DEF IsRow
  <1>9. Register(all) = w[j + k]
        BY <1>1, <1>8, RowTrace
  <1> QED BY <1>7, <1>9

(* Two rows whose registers differ at some symbol, and which are alike     *)
(* after it, end in registers that differ                                  *)
LEMMA RowsStayApart ==
  ASSUME NEW s \in Seq(Symbol), NEW v \in Seq(Symbol), Len(v) = Len(s),
         NEW a, NEW b,
         NEW t \in [0 .. Len(s) -> Registers], IsRow(t, a, s),
         NEW u \in [0 .. Len(s) -> Registers], IsRow(u, b, v),
         NEW k \in 0 .. Len(s), t[k] # u[k], \A i \in k + 1 .. Len(s) : s[i] = v[i]
  PROVE  t[Len(s)] # u[Len(s)]
  <1> PICK n \in Nat : n = Len(s)
      BY LenProperties
  <1> DEFINE Bad == {i \in k .. n : t[i] = u[i]}
  <1>1. Bad = {}
    <2> SUFFICES ASSUME Bad # {} PROVE FALSE
        OBVIOUS
    <2>1. Bad \in SUBSET Nat
          OBVIOUS
    <2> HIDE DEF Bad
    <2>2. PICK m \in Bad : \A l \in Bad : m <= l
          BY <2>1, LeastNatural
    <2> USE DEF Bad
    <2>3. m \in k + 1 .. n /\ m \in 1 .. n /\ m - 1 \in k .. n /\ m - 1 \notin Bad /\ m - 1 \in 0 .. n
          BY <2>2
    <2>4. t[m] = PolymodStep(t[m - 1], s[m]) /\ u[m] = PolymodStep(u[m - 1], v[m])
          BY <2>3 DEF IsRow
    <2>5. t[m - 1] # u[m - 1] /\ t[m] = u[m] /\ s[m] = v[m]
          BY <2>2, <2>3
    <2>6. t[m - 1] \in Registers /\ u[m - 1] \in Registers /\ s[m] \in Symbol
          BY <2>3, LenProperties
    <2> QED BY <2>4, <2>5, <2>6, RoundKeepsApart
  <1>2. n \in k .. n
        OBVIOUS
  <1> QED BY <1>1, <1>2

(* Rows that are alike up to a symbol have had the same registers *)
LEMMA RowsStartAlike ==
  ASSUME NEW s, NEW v, NEW a, Len(s) \in Nat, Len(v) = Len(s),
         NEW t, IsRow(t, a, s), NEW u, IsRow(u, a, v),
         NEW k \in 0 .. Len(s), \A i \in 1 .. k : s[i] = v[i]
  PROVE  t[k] = u[k]
  <1>1. \A i \in 1 .. k : t[i] = PolymodStep(t[i - 1], s[i]) /\ u[i] = PolymodStep(u[i - 1], s[i])
        BY DEF IsRow
  <1>2. Alike(t, u, k) /\ k \in Nat
        BY <1>1 DEF Alike, IsRow
  <1> QED BY <1>2, SameTrace

(* Two registers with the same check are the same *)
LEMMA ChecksAlike ==
  ASSUME NEW r \in Registers, NEW q \in Registers, XorAll(r, One) = XorAll(q, One)
  PROVE  r = q
  <1>1. One \in Registers
        BY ZerosIs
  <1>2. \A i \in 1 .. 8 : XorAll(r, One)[i] = Xor[r[i]][One[i]]
        BY <1>1, XorAllIs
  <1>3. \A i \in 1 .. 8 : XorAll(q, One)[i] = Xor[q[i]][One[i]]
        BY <1>1, XorAllIs
  <1>4. ASSUME NEW i \in 1 .. 8 PROVE r[i] = q[i]
    <2>1. r[i] \in Symbol /\ q[i] \in Symbol /\ One[i] \in Symbol
          BY <1>1, RegistersAre
    <2>2. Xor[r[i]][One[i]] = Xor[q[i]][One[i]]
          BY <1>2, <1>3
    <2> QED BY <2>1, <2>2, XorCancels
  <1>5. r = [i \in 1 .. 8 |-> r[i]] /\ q = [i \in 1 .. 8 |-> q[i]]
        BY DEF Registers
  <1> QED BY <1>4, <1>5

(* All rows that pass the check leave the same register *)
LEMMA CheckedRegister ==
  ASSUME NEW n1 \in Seq(Symbol), NEW s1 \in Seq(Symbol), VerifyChecksum(n1, s1),
         NEW n2 \in Seq(Symbol), NEW s2 \in Seq(Symbol), VerifyChecksum(n2, s2)
  PROVE  Register(HrpExpand(n1) \o s1) = Register(HrpExpand(n2) \o s2)
  <1>1. 0 \in Symbol
        BY DEF Symbol
  <1> PICK w1 : w1 = HrpExpand(n1) \o s1
      OBVIOUS
  <1> PICK w2 : w2 = HrpExpand(n2) \o s2
      OBVIOUS
  <1>2. w1 \in Seq(Symbol) /\ w2 \in Seq(Symbol)
        BY <1>1, AppendProperties, ConcatProperties DEF HrpExpand
  <1> PICK r : r = Register(w1)
      OBVIOUS
  <1> PICK q : q = Register(w2)
      OBVIOUS
  <1>3. r \in Registers /\ q \in Registers
        BY <1>2, RegisterIs
  <1>4. XorAll(r, One) = XorAll(q, One)
        BY DEF VerifyChecksum, Polymod
  <1>5. r = q
        BY <1>3, <1>4, ChecksAlike
  <1> QED BY <1>5

(* One symbol wrong: a row that differs in one place only *)
WrongIn(typed, right, i) ==
  i \in DOMAIN right /\ typed[i] # right[i] /\ \A k \in DOMAIN right \ {i} : typed[k] = right[k]
(* Two neighbours exchanged, which are not the same symbol *)
ExchangedAt(typed, right, i) ==
  /\ i \in DOMAIN right /\ i + 1 \in DOMAIN right /\ right[i] # right[i + 1]
  /\ typed[i] = right[i + 1] /\ typed[i + 1] = right[i]
  /\ \A k \in DOMAIN right \ {i, i + 1} : typed[k] = right[k]

(* The checksum of an address sees one wrong symbol and one exchange of    *)
(* neighbours, wherever in a row of any length, payload or checksum, and   *)
(* whatever the network: decodeCashAddress refuses it.  It rests on each   *)
(* generator ending in the digit of its own bit, so that no round forgets. *)
THEOREM OneSlipIsSeen ==
  ASSUME NEW network \in Seq(Symbol), NEW right \in Seq(Symbol), VerifyChecksum(network, right),
         NEW typed \in Seq(Symbol), Len(typed) = Len(right),
         NEW i, WrongIn(typed, right, i) \/ ExchangedAt(typed, right, i)
  PROVE  ~VerifyChecksum(network, typed)
  <1> SUFFICES ASSUME VerifyChecksum(network, typed) PROVE FALSE
      OBVIOUS
  <1> PICK h : h = HrpExpand(network)
      OBVIOUS
  <1> PICK base : base = Register(h)
      OBVIOUS
  <1> PICK n \in Nat : n = Len(right)
      BY LenProperties
  <1>1. h \in Seq(Symbol) /\ base \in Registers
    <2>1. 0 \in Symbol
          BY DEF Symbol
    <2>2. h \in Seq(Symbol)
          BY <2>1, AppendProperties DEF HrpExpand
    <2> QED BY <2>2, RegisterIs
  <1>2. /\ DOMAIN right = 1 .. n /\ DOMAIN typed = 1 .. n
        /\ \A k \in 1 .. n : right[k] \in Symbol /\ typed[k] \in Symbol
        BY LenProperties
  <1>3. PICK t \in [0 .. n -> Registers] : IsRow(t, base, typed)
        BY <1>1, RowsExist
  <1>4. PICK u \in [0 .. n -> Registers] : IsRow(u, base, right)
        BY <1>1, RowsExist
  <1>5. t[n] = u[n]
    <2>1. Register(h \o typed) = t[n] /\ Register(h \o right) = u[n]
          BY <1>1, <1>3, <1>4, RegisterJoin
    <2>2. Register(h \o typed) = Register(h \o right)
          BY CheckedRegister
    <2> QED BY <2>1, <2>2
  <1>6. i \in 1 .. n /\ i \in Nat /\ i - 1 \in 0 .. n /\ i \in 0 .. n
        BY <1>2 DEF WrongIn, ExchangedAt
  <1>7. t[i - 1] = u[i - 1]
    <2>1. \A k \in 1 .. i - 1 : typed[k] = right[k]
      <3> TAKE k \in 1 .. i - 1
      <3>1. k \in 1 .. n /\ k # i /\ k # i + 1
            BY <1>6
      <3> QED BY <1>2, <3>1 DEF WrongIn, ExchangedAt
    <2> QED BY <1>3, <1>4, <1>6, <2>1, RowsStartAlike
  <1>8. t[i] = PolymodStep(t[i - 1], typed[i]) /\ u[i] = PolymodStep(u[i - 1], right[i]) /\ t[i - 1] \in Registers
        BY <1>3, <1>4, <1>6 DEF IsRow
  <1>9. CASE WrongIn(typed, right, i)
    <2>1. t[i] # u[i]
          BY <1>2, <1>6, <1>7, <1>8, <1>9, RoundTellsApart DEF WrongIn
    <2>2. \A k \in i + 1 .. n : typed[k] = right[k]
      <3> TAKE k \in i + 1 .. n
      <3>1. k \in 1 .. n /\ k # i
            BY <1>6
      <3> QED BY <1>2, <1>9, <3>1 DEF WrongIn
    <2> QED BY <1>3, <1>4, <1>5, <1>6, <2>1, <2>2, RowsStayApart
  <1>10. CASE ExchangedAt(typed, right, i)
    <2>1. i + 1 \in 1 .. n /\ i + 1 \in 0 .. n /\ (i + 1) - 1 = i
          BY <1>2, <1>6, <1>10 DEF ExchangedAt
    <2> PICK l \in 1 .. n : l = i + 1
        BY <2>1
    <2>2. t[l] = PolymodStep(t[i], typed[l]) /\ u[l] = PolymodStep(u[i], right[l])
      <3>1. t[l] = PolymodStep(t[l - 1], typed[l]) /\ u[l] = PolymodStep(u[l - 1], right[l])
            BY <1>3, <1>4 DEF IsRow
      <3> QED BY <2>1, <3>1
    <2>3. typed[i] = right[l] /\ typed[l] = right[i] /\ right[i] # right[l]
          BY <1>10 DEF ExchangedAt
    <2>4. right[i] \in Symbol /\ right[l] \in Symbol
          BY <1>2, <1>6
    <2>5. t[l] # u[l]
          BY <1>7, <1>8, <2>2, <2>3, <2>4, RoundTellsApart
    <2>6. \A k \in l + 1 .. n : typed[k] = right[k]
      <3> TAKE k \in l + 1 .. n
      <3>1. k \in 1 .. n /\ k # i /\ k # i + 1
            BY <1>6
      <3> QED BY <1>2, <1>10, <3>1 DEF ExchangedAt
    <2>7. l \in 0 .. n
          BY <2>1
    <2> QED BY <1>3, <1>4, <1>5, <2>5, <2>6, <2>7, RowsStayApart
  <1> QED BY <1>9, <1>10

(* A row that passes the check for one network does not for another whose  *)
(* name leaves another register                                            *)
LEMMA OneNetworkOnly ==
  ASSUME NEW network \in Seq(Symbol), NEW other \in Seq(Symbol), NEW s \in Seq(Symbol),
         VerifyChecksum(other, s), Register(HrpExpand(other)) # Register(HrpExpand(network))
  PROVE  ~VerifyChecksum(network, s)
  <1> SUFFICES ASSUME VerifyChecksum(network, s) PROVE FALSE
      OBVIOUS
  <1> PICK h : h = HrpExpand(network)
      OBVIOUS
  <1> PICK g : g = HrpExpand(other)
      OBVIOUS
  <1>1. h \in Seq(Symbol) /\ g \in Seq(Symbol)
    <2>1. 0 \in Symbol
          BY DEF Symbol
    <2> QED BY <2>1, AppendProperties DEF HrpExpand
  <1>2. Register(h) \in Registers /\ Register(g) \in Registers
        BY <1>1, RegisterIs
  <1>3. PICK t \in [0 .. Len(s) -> Registers] : IsRow(t, Register(h), s)
        BY <1>2, RowsExist
  <1>4. PICK u \in [0 .. Len(s) -> Registers] : IsRow(u, Register(g), s)
        BY <1>2, RowsExist
  <1>5. t[0] # u[0]
        BY <1>3, <1>4 DEF IsRow
  <1>6. Len(s) \in Nat /\ 0 \in 0 .. Len(s)
        BY LenProperties
  <1>7. t[Len(s)] # u[Len(s)]
        BY <1>3, <1>4, <1>5, <1>6, RowsStayApart
  <1>8. Register(h \o s) = t[Len(s)] /\ Register(g \o s) = u[Len(s)]
        BY <1>1, <1>3, <1>4, RegisterJoin
  <1>9. Register(h \o s) = Register(g \o s)
        BY CheckedRegister
  <1> QED BY <1>7, <1>8, <1>9

-----------------------------------------------------------------------------
(* What a slip decodes to *)

(* A function on 1 .. n is a sequence of n items *)
LEMMA RowIsSeq ==
  ASSUME NEW S, NEW n \in Nat, NEW f \in [1 .. n -> S]
  PROVE  f \in Seq(S) /\ Len(f) = n
  <1>1. f \in Seq(S)
        BY SeqDef
  <1> PICK m \in Nat : m = Len(f)
      BY <1>1, LenProperties
  <1>2. 1 .. m = 1 .. n
        BY <1>1, LenProperties
  <1>3. \A i \in Nat : i \in 1 .. m <=> i \in 1 .. n
        BY <1>2
  <1>4. m = n
    <2>1. CASE m < n
      <3>1. n \in 1 .. n /\ n \notin 1 .. m
            BY <2>1
      <3> QED BY <1>3, <3>1
    <2>2. CASE n < m
      <3>1. m \in 1 .. m /\ m \notin 1 .. n
            BY <2>2
      <3> QED BY <1>3, <3>1
    <2> QED BY <2>1, <2>2
  <1> QED BY <1>1, <1>4

LEMMA SameRow ==
  ASSUME NEW S, NEW n, NEW s \in [1 .. n -> S], NEW r \in [1 .. n -> S], \A k \in 1 .. n : s[k] = r[k]
  PROVE  s = r
  <1>1. s = [k \in 1 .. n |-> s[k]] /\ r = [k \in 1 .. n |-> r[k]]
        OBVIOUS
  <1> QED BY <1>1

(* An address that decodes has passed the check *)
LEMMA DecodesChecked ==
  ASSUME NEW addr, DecodeCashAddress(addr).ok
  PROVE  VerifyChecksum(addr.network, addr.symbols) /\ DecodeCashAddress(addr).network = addr.network
  <1>1. VerifyChecksum(addr.network, addr.symbols)
    <2> SUFFICES ASSUME ~VerifyChecksum(addr.network, addr.symbols) PROVE FALSE
        OBVIOUS
    <2>1. DecodeCashAddress(addr) = Refused
          BY Zenon DEF DecodeCashAddress
    <2> QED BY <2>1 DEF Refused
  <1>2. DecodeCashAddress(addr).network = addr.network
        BY DEF DecodeCashAddress, Refused
  <1> QED BY <1>1, <1>2

(* The bits of a row of symbols, and the bytes they are grouped into *)
LEMMA BitsOfRow ==
  ASSUME NEW data \in Seq(Symbol)
  PROVE  BitsOf(data, 5) \in Seq({0, 1}) /\ Len(BitsOf(data, 5)) = Len(data) * 5
  <1> PICK size \in Nat : size = Len(data)
      BY LenProperties
  <1> PICK many \in Nat : many = size * 5
      OBVIOUS
  <1> PICK bits : bits = BitsOf(data, 5)
      OBVIOUS
  <1>1. bits = [i \in 1 .. many |-> Bit(data[1 + ((i - 1) \div 5)], 5 - 1 - ((i - 1) % 5))]
        BY Zenon DEF BitsOf
  <1>2. ASSUME NEW i \in 1 .. many PROVE bits[i] \in {0, 1}
    <2> PICK j \in Nat : j = i - 1
        OBVIOUS
    <2> PICK k : k = 1 + (j \div 5)
        OBVIOUS
    <2> PICK e : e = 5 - 1 - (j % 5)
        OBVIOUS
    <2>1. k \in 1 .. size
          BY SMT
    <2>2. e \in 0 .. 4
          BY SMT
    <2>3. bits[i] = Bit(data[k], e)
          BY <1>1
    <2>4. data[k] \in Symbol
          BY <2>1, LenProperties
    <2> QED BY <2>2, <2>3, <2>4, BitIs
  <1>3. bits \in [1 .. many -> {0, 1}]
        BY <1>1, <1>2
  <1> QED BY <1>3, RowIsSeq

LEMMA BytesOfBits ==
  ASSUME NEW bits \in Seq({0, 1}), NEW whole \in Nat, whole = Len(bits) \div 8, whole > 0
  PROVE  /\ Len(Tail(Group(bits, 8))) = whole - 1
         /\ Group(bits, 8)[1] \in Nat /\ (Group(bits, 8)[1] % 8) + 1 \in 1 .. 8
  <1> PICK bytes : bytes = Group(bits, 8)
      OBVIOUS
  <1>1. bytes = [i \in 1 .. whole |-> FromBits(SubSeq(bits, (i - 1) * 8 + 1, i * 8))]
        BY Zenon DEF Group
  <1>2. bytes[1] \in Nat
    <2> PICK b : b = SubSeq(bits, 1, 8)
        OBVIOUS
    <2>1. Len(bits) \in Nat /\ 8 <= Len(bits)
      <3> PICK many \in Nat : many = Len(bits)
          BY LenProperties
      <3> QED BY SMT
    <2>2. \A i \in 1 .. 8 : i \in 1 .. Len(bits)
          BY <2>1
    <2>3. \A i \in 1 .. 8 : bits[i] \in {0, 1}
          BY <2>2, LenProperties
    <2>4. b \in Seq({0, 1}) /\ Len(b) = 8
          BY <2>3, SubSeqProperties
    <2>5. FromBits(b) \in Nat
      <3>1. \A i \in 1 .. Len(b) : b[i] \in {0, 1}
            BY <2>4, LenProperties
      <3>2. Len(b) \in Nat
            BY <2>4
      <3> QED BY <3>1, <3>2, BitsAreNat
    <2>6. bytes[1] = FromBits(SubSeq(bits, (1 - 1) * 8 + 1, 1 * 8)) /\ (1 - 1) * 8 + 1 = 1 /\ 1 * 8 = 8
          BY <1>1
    <2> QED BY <2>5, <2>6
  <1>3. Len(Tail(bytes)) = whole - 1
    <2> DEFINE S == {bytes[i] : i \in 1 .. whole}
    <2>1. bytes \in [1 .. whole -> S]
          BY <1>1
    <2> HIDE DEF S
    <2>2. bytes \in Seq(S) /\ Len(bytes) = whole
          BY <2>1, RowIsSeq
    <2>3. bytes # <<>>
          BY <2>2
    <2> QED BY <2>2, <2>3, HeadTailProperties
  <1>4. (bytes[1] % 8) + 1 \in 1 .. 8
    <2> PICK v \in Nat : v = bytes[1]
        BY <1>2
    <2>1. (v % 8) + 1 \in 1 .. 8
          BY SMT
    <2> QED BY <2>1
  <1> QED BY <1>2, <1>3, <1>4

(* A row of 41 symbols holds 20 whole bytes, and its hash is of 19: no     *)
(* size of a hash                                                          *)
LEMMA ShortIsRefused ==
  ASSUME NEW addr, addr.symbols \in Seq(Symbol), Len(addr.symbols) = 41
  PROVE  ~DecodeCashAddress(addr).ok
  <1> PICK s \in Seq(Symbol) : s = addr.symbols
      OBVIOUS
  <1> PICK data : data = SubSeq(s, 1, 33)
      OBVIOUS
  <1> PICK bits : bits = BitsOf(data, 5)
      OBVIOUS
  <1> PICK bytes : bytes = Group(bits, 8)
      OBVIOUS
  <1>1. data \in Seq(Symbol) /\ Len(data) = 33
    <2>1. Len(s) = 41
          OBVIOUS
    <2>2. 1 \in 1 .. 41 /\ 33 \in 1 .. 41
          OBVIOUS
    <2>3. 1 \in 1 .. Len(s) /\ 33 \in 1 .. Len(s)
          BY <2>1, <2>2, Zenon
    <2>4. data \in Seq(Symbol) /\ Len(data) = 33 - 1 + 1
          BY <2>3, SliceIs
    <2> QED BY <2>4
  <1>2. bits \in Seq({0, 1}) /\ Len(bits) = 165
    <2>1. 33 * 5 = 165
          OBVIOUS
    <2>2. bits \in Seq({0, 1}) /\ Len(bits) = Len(data) * 5
          BY <1>1, BitsOfRow
    <2> PICK n : n = Len(data)
        OBVIOUS
    <2>3. n = 33 /\ Len(bits) = n * 5
          BY <1>1, <2>2
    <2> QED BY <2>1, <2>2, <2>3
  <1>3. Len(Tail(bytes)) = 19 /\ (bytes[1] % 8) + 1 \in 1 .. 8
    <2>1. Len(bits) \div 8 = 20
      <3>1. 165 \div 8 = 20
            BY SMT
      <3> QED BY <1>2, <3>1, Zenon
    <2>2. 20 \in Nat /\ 20 > 0 /\ 20 - 1 = 19
          OBVIOUS
    <2> QED BY <1>2, <2>1, <2>2, BytesOfBits
  <1>4. \A k \in 1 .. 8 : HashSizes[k] # 19
    <2>1. \A k \in 1 .. 8 : k = 1 \/ k = 2 \/ k = 3 \/ k = 4 \/ k = 5 \/ k = 6 \/ k = 7 \/ k = 8
          OBVIOUS
    <2> QED BY <2>1 DEF HashSizes
  <1>5. Len(Tail(bytes)) # HashSizes[(bytes[1] % 8) + 1]
        BY <1>3, <1>4
  <1>6. bytes = Group(BitsOf(SubSeq(addr.symbols, 1, Len(addr.symbols) - 8), 5), 8)
    <2>1. Len(addr.symbols) - 8 = 33
          OBVIOUS
    <2> QED BY <2>1
  <1>7. DecodeCashAddress(addr) = Refused
        BY <1>5, <1>6, Zenon DEF DecodeCashAddress
  <1> QED BY <1>7 DEF Refused

(* The three slips of the hand, on rows of any length *)
LEMMA WrongRow ==
  ASSUME NEW n \in Nat, NEW right \in [1 .. n -> Symbol], NEW s \in [1 .. n -> Symbol],
         NEW i \in 1 .. n, \A k \in (1 .. n) \ {i} : s[k] = right[k]
  PROVE  s = right \/ WrongIn(s, right, i)
  <1>1. CASE s[i] = right[i]
    <2>1. \A k \in 1 .. n : s[k] = right[k]
          BY <1>1
    <2> QED BY <2>1, SameRow
  <1>2. CASE s[i] # right[i]
        BY <1>2 DEF WrongIn
  <1> QED BY <1>1, <1>2

LEMMA ExchangedRow ==
  ASSUME NEW n \in Nat, NEW right \in [1 .. n -> Symbol], NEW i \in 1 .. n - 1,
         NEW s, s = [right EXCEPT ![i] = right[i + 1], ![i + 1] = right[i]]
  PROVE  s \in [1 .. n -> Symbol] /\ (s = right \/ ExchangedAt(s, right, i))
  <1>1. i \in 1 .. n /\ i + 1 \in 1 .. n /\ i # i + 1
        OBVIOUS
  <1>2. right[i] \in Symbol /\ right[i + 1] \in Symbol
        BY <1>1
  <1>3. s \in [1 .. n -> Symbol]
        BY <1>2
  <1>4. s[i] = right[i + 1] /\ s[i + 1] = right[i] /\ \A k \in (1 .. n) \ {i, i + 1} : s[k] = right[k]
        BY <1>1
  <1>5. CASE right[i] = right[i + 1]
    <2>1. \A k \in 1 .. n : s[k] = right[k]
          BY <1>4, <1>5
    <2> QED BY <1>3, <2>1, SameRow
  <1>6. CASE right[i] # right[i + 1]
        BY <1>1, <1>3, <1>4, <1>6 DEF ExchangedAt
  <1> QED BY <1>3, <1>5, <1>6

LEMMA MissingRow ==
  ASSUME NEW n \in Nat, NEW right \in Seq(Symbol), Len(right) = n, NEW i \in 1 .. n,
         NEW s, s = RemoveAt(right, i)
  PROVE  s \in Seq(Symbol) /\ Len(s) = n - 1
  <1> PICK a : a = SubSeq(right, 1, i - 1)
      OBVIOUS
  <1> PICK b : b = SubSeq(right, i + 1, n)
      OBVIOUS
  <1>1. \A k \in 1 .. n : right[k] \in Symbol
        BY LenProperties
  <1>2. a \in Seq(Symbol) /\ Len(a) = i - 1
    <2>1. \A k \in 1 .. i - 1 : right[k] \in Symbol
          BY <1>1
    <2> QED BY <2>1, SubSeqProperties
  <1>3. b \in Seq(Symbol) /\ Len(b) = n - i
    <2>1. \A k \in i + 1 .. n : right[k] \in Symbol
          BY <1>1
    <2> QED BY <2>1, SubSeqProperties
  <1>4. s = a \o b
        BY Zenon DEF RemoveAt
  <1>5. s \in Seq(Symbol) /\ Len(s) = Len(a) + Len(b)
        BY <1>2, <1>3, <1>4, ConcatProperties
  <1> QED BY <1>2, <1>3, <1>5

LEMMA MeantIs ==
  /\ Meant = [network |-> Network, symbols |-> Meant.symbols] /\ Named(Meant) = Meant
  /\ Meant.symbols \in [1 .. Len(Meant.symbols) -> Symbol] /\ Meant.symbols \in Seq(Symbol)
  /\ Len(Meant.symbols) = 42
  /\ VerifyChecksum(Network, Meant.symbols)
  <1>1. Meant = [network |-> Network, symbols |-> Meant.symbols] /\ Meant.symbols \in [1 .. 42 -> Symbol]
        BY AddressAssumption
  <1>2. Meant.symbols \in Seq(Symbol) /\ Len(Meant.symbols) = 42
    <2> PICK n \in Nat : n = 42
        OBVIOUS
    <2>1. Meant.symbols \in [1 .. n -> Symbol]
          BY <1>1
    <2>2. Meant.symbols \in Seq(Symbol) /\ Len(Meant.symbols) = n
          BY <2>1, RowIsSeq
    <2> QED BY <2>2
  <1>3. Named(Meant) = Meant
        BY <1>1 DEF Named
  <1>4. VerifyChecksum(Network, Meant.symbols)
    <2>1. Payee # <<>>
      <3>1. DOMAIN Payee = 1 .. 20
            BY AddressAssumption
      <3> QED BY <3>1
    <2>2. DecodeCashAddress(Meant).ok
          BY <1>3, <2>1 DEF Payee, DecodeCashAddrToHash160
    <2> QED BY <1>1, <2>2, DecodesChecked
  <1> QED BY <1>1, <1>2, <1>3, <1>4

(* Whatever is typed for the address meant is taken for its hash, for no   *)
(* address at all, or for a hash that no builder takes                     *)
LEMMA SlipsDecode ==
  ASSUME NEW addr \in Typed
  PROVE  \/ DecodeCashAddrToHash160(addr) \in {Payee, <<>>}
         \/ Len(DecodeCashAddrToHash160(addr)) # 20
  <1> PICK decoded : decoded = DecodeCashAddress(Named(addr))
      OBVIOUS
  <1> PICK s : s = addr.symbols
      OBVIOUS
  <1> PICK right \in Seq(Symbol) : right = Meant.symbols
      BY MeantIs
  <1> PICK n \in Nat : n = Len(right)
      BY LenProperties
  <1>0. DecodeCashAddrToHash160(addr)
        = IF decoded.ok /\ decoded.network = Network /\ decoded.type = "P2PKH" THEN decoded.hash ELSE <<>>
        BY DEF DecodeCashAddrToHash160
  <1>1. Slip(addr)
        BY AddressAssumption
  <1>2. right \in [1 .. n -> Symbol] /\ right \in Seq(Symbol) /\ Len(right) = n /\ VerifyChecksum(Network, right)
        BY MeantIs
  <1>3. Network \in Seq(Symbol)
        BY NetworkAssumption
  <1>4. CASE Named(addr).network # Network
        BY <1>0, <1>4, DecodesChecked
  <1>5. CASE Named(addr) = [network |-> Network, symbols |-> s]
    <2>0. Named(addr).network = Network /\ Named(addr).symbols = s
          BY <1>5
    <2>1. ASSUME s = right PROVE DecodeCashAddrToHash160(addr) = Payee
      <3>1. Named(addr) = Named(Meant)
            BY <1>5, <2>1, MeantIs
      <3> QED BY <3>1 DEF Payee, DecodeCashAddrToHash160
    <2>2. ASSUME ~VerifyChecksum(Network, s) PROVE DecodeCashAddrToHash160(addr) = <<>>
      <3>1. ~decoded.ok
            BY <2>0, <2>2, DecodesChecked
      <3> QED BY <1>0, <3>1
    <2>3. ASSUME s \in Seq(Symbol), Len(s) = n, NEW i, WrongIn(s, right, i) \/ ExchangedAt(s, right, i)
          PROVE  ~VerifyChecksum(Network, s)
          BY <1>2, <1>3, <2>3, OneSlipIsSeen
    <2>4. ASSUME s \in [1 .. n -> Symbol] PROVE s \in Seq(Symbol) /\ Len(s) = n
          BY <2>4, RowIsSeq
    <2>5. CASE OneWrong(s)
      <3>1. s \in [1 .. n -> Symbol] /\ \E i \in 1 .. n : \A k \in (1 .. n) \ {i} : s[k] = right[k]
            BY <1>2, <2>5 DEF OneWrong
      <3>2. \E i : s = right \/ WrongIn(s, right, i)
            BY <1>2, <3>1, WrongRow
      <3> QED BY <2>1, <2>2, <2>3, <2>4, <3>1, <3>2
    <2>6. CASE Exchanged(s)
      <3>1. \E i \in 1 .. Len(right) - 1 : s = [right EXCEPT ![i] = right[i + 1], ![i + 1] = right[i]]
            BY <2>6, Zenon DEF Exchanged
      <3>2. PICK i \in 1 .. n - 1 : s = [right EXCEPT ![i] = right[i + 1], ![i + 1] = right[i]]
            BY <1>2, <3>1
      <3>3. s \in [1 .. n -> Symbol] /\ (s = right \/ ExchangedAt(s, right, i))
            BY <1>2, <3>2, ExchangedRow
      <3> QED BY <2>1, <2>2, <2>3, <2>4, <3>3
    <2>7. CASE OneMissing(s)
      <3>1. PICK i \in 1 .. n : s = RemoveAt(right, i)
            BY <1>2, <2>7 DEF OneMissing
      <3>2. s \in Seq(Symbol) /\ Len(s) = n - 1
            BY <1>2, <3>1, MissingRow
      <3>3. ~decoded.ok
        <4>1. n = 42
              BY MeantIs
        <4>2. Len(s) = 41
              BY <3>2, <4>1
        <4> QED BY <2>0, <3>2, <4>2, ShortIsRefused
      <3> QED BY <1>0, <3>3
    <2>8. CASE OfAnotherNetwork(s)
      <3>1. s \in Seq(Symbol)
            BY <2>8 DEF OfAnotherNetwork
      <3>2. PICK other \in OtherNetwork : VerifyChecksum(other, s)
            BY <2>8 DEF OfAnotherNetwork
      <3>3. other \in Seq(Symbol) /\ Register(HrpExpand(other)) # Register(HrpExpand(Network))
            BY NetworkAssumption
      <3>4. ~VerifyChecksum(Network, s)
            BY <1>3, <3>1, <3>2, <3>3, OneNetworkOnly
      <3> QED BY <2>2, <3>4
    <2>9. CASE OfAnotherKind(Named(addr))
          BY <1>0, <2>9 DEF OfAnotherKind
    <2> QED BY <1>1, <1>5, <2>0, <2>5, <2>6, <2>7, <2>8, <2>9 DEF Slip
  <1> QED BY <1>1, <1>4, <1>5 DEF Slip

-----------------------------------------------------------------------------
(* Whom the last transaction pays *)

PayeeBytes == [b \in 1 .. 20 |-> Byte(Payee[b])]
MayGet == {<<>>, PayeeBytes} \cup {Hash160(PublicKey(key)) : key \in {"owner", "fee"}}

(* A shard's lock is longer than a P2PKH lock, and pays no key *)
LEMMA ShardPaysNone ==
  ASSUME NEW c, CodeFits(c), NEW category, Word(category), NEW commitment, Word(commitment)
  PROVE  P2PKHHash(LockOf(c, category, commitment)) = <<>>
  <1> PICK lock : lock = LockOf(c, category, commitment)
      OBVIOUS
  <1>1. ByteString(Programmed(c)) /\ Length(Programmed(c)) = c /\ c \in Nat
        BY ProgramIs DEF CodeFits
  <1>2. Length(lock) = c + 67
    <2>1. lock = AddTokenToScript(MakeShardTokenOut(category, commitment), Programmed(c))
          BY Zenon DEF LockOf
    <2> QED BY <1>1, <2>1, TokenLockIs
  <1>3. Length(lock) # 25
        BY <1>1, <1>2
  <1> QED BY <1>3, Zenon DEF P2PKHHash

(* Each lock of the pool pays the payee, a key of the wallet or no key *)
LEMMA LockPays ==
  ASSUME NEW c, CodeFits(c), NEW category, Word(category),
         NEW lock, PoolLock(c, category, lock)
  PROVE  P2PKHHash(lock) \in MayGet
  <1>1. CASE \E commitment : Word(commitment) /\ lock = LockOf(c, category, commitment)
        BY <1>1, ShardPaysNone DEF MayGet
  <1>2. CASE \E hash : ByteString(hash) /\ Length(hash) = 20 /\ Paid(hash) /\ lock = P2PKH(hash)
    <2> PICK hash : ByteString(hash) /\ Length(hash) = 20 /\ Paid(hash) /\ lock = P2PKH(hash)
        BY <1>2
    <2>1. P2PKHHash(lock) = hash
          BY P2PKHIs
    <2>2. CASE \E key \in {"owner", "fee"} : hash = Hash160(PublicKey(key))
          BY <2>1, <2>2 DEF MayGet
    <2>3. CASE \E decoded \in Payees : Len(decoded) = 20 /\ hash = [k \in 1 .. Len(decoded) |-> Byte(decoded[k])]
      <3>1. PICK decoded \in Payees : Len(decoded) = 20 /\ hash = [k \in 1 .. Len(decoded) |-> Byte(decoded[k])]
            BY <2>3
      <3>2. PICK addr \in Typed : decoded = DecodeCashAddrToHash160(addr)
            BY <3>1 DEF Payees
      <3>3. decoded # <<>>
            BY <3>1 DEF Payees
      <3>4. decoded = Payee
            BY <3>1, <3>2, <3>3, SlipsDecode
      <3>5. hash = PayeeBytes
            BY <3>1, <3>4 DEF PayeeBytes
      <3> QED BY <2>1, <3>5 DEF MayGet
    <2> QED BY <2>2, <2>3 DEF Paid
  <1> QED BY <1>1, <1>2 DEF PoolLock

(* Whatever is typed for the address meant, with any slip that Slip names, *)
(* no transaction on the chain pays another: the last one always pays the  *)
(* hash of that address, a key of the wallet or no key (PaysTheAddress).   *)
(* The checksum sees a wrong symbol and an exchange (OneSlipIsSeen) and    *)
(* the address of another network; one symbol less leaves a hash of no     *)
(* size there is; another kind is refused by the decoder or, when its hash *)
(* is longer, by the builder                                               *)
THEOREM OnlyThePayeeIsPaid == Spec => []PaysTheAddress
  <1>1. Inv => PaysTheAddress
    <2> SUFFICES ASSUME Inv, chain # <<>>
                 PROVE  \A out \in ToSet(ParseTx(chain[Len(chain)]).outputs) : P2PKHHash(out.lock) \in MayGet
        BY DEF PaysTheAddress, MayGet, PayeeBytes
    <2>1. PICK tx, category : /\ TxFits(tx) /\ chain[Len(chain)] = BuildRawTx(tx)
                              /\ Word(category) /\ OutputsOfPool(code, category, tx.outputs)
          BY DEF Inv, PoolInv, LastIs
    <2>2. ParseTx(chain[Len(chain)]).outputs = tx.outputs
          BY <2>1, ParseTxIs
    <2>3. CodeFits(code)
          BY WidthFits DEF Inv, PoolInv
    <2> TAKE out \in ToSet(ParseTx(chain[Len(chain)]).outputs)
    <2>4. tx.outputs = [i \in 1 .. Len(tx.outputs) |-> tx.outputs[i]]
          BY <2>1 DEF OutputsOfPool
    <2>5. PICK i \in 1 .. Len(tx.outputs) : out = tx.outputs[i]
          BY <2>2, <2>4 DEF ToSet
    <2>6. PoolLock(code, category, out.lock)
          BY <2>1, <2>5 DEF OutputsOfPool
    <2> QED BY <2>1, <2>3, <2>6, LockPays
  <1> QED BY <1>1, PoolIsSealed, PTL
=============================================================================
