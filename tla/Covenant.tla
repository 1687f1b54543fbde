------------------------------ MODULE Covenant ------------------------------
(***************************************************************************)
(* The shard covenant, pool_hash_fold v1.1 with the state cell template,   *)
(* executed opcode by opcode, and the builders that write its unlocking    *)
(* data and foretell the commitment it will ask for.                       *)
(*                                                                         *)
(* A program is a sequence of opcodes; a name in lower case stands for the *)
(* OP_INVOKE of the function so named.  The machine has a main stack and   *)
(* an alternative stack, tops last, and stops being ok when an opcode      *)
(* fails.  The only loop, the fold of the limbs, is FoldLimb, run once for *)
(* each item, and FoldEnd.                                                 *)
(***************************************************************************)
EXTENDS TxBytes

-----------------------------------------------------------------------------
(* Builders: pool_hash_fold_ops *)

\* the mode of a command is "direct", or "reverse": computePoolStateOut's own default
CategoryBytes(category, mode) == IF mode = "reverse" THEN ReverseBytes(category) ELSE category
CapByte == <<Byte(1)>>

(* computePoolStateOut, version v1_1 *)
ComputePoolStateOut(stateIn, category, noteHash, limbs, mode) ==
  LET h0 == Hash256(stateIn \o stateIn)
      h1 == Hash256(h0 \o stateIn)
      h2 == Hash256(h1 \o CategoryBytes(category, mode) \o CapByte)
  IN Fold(LAMBDA acc, limb : Hash256(acc \o limb), Hash256(h2 \o noteHash), Reverse(limbs))

(* makeProofBlobV11 *)
MakeProofBlob(noteHash, tag) == Sha256(<<Byte(tag)>> \o noteHash)

(* faulty variant: the proof below the note hash *)
UnlockingSwapped(limbs, noteHash, proofBlob) == Concat(Push, limbs) \o Push(proofBlob) \o Push(noteHash)

(* buildPoolHashFoldUnlockingBytecode, version v1_1 *)
Unlocking(limbs, noteHash, proofBlob) == Concat(Push, limbs) \o Push(noteHash) \o Push(proofBlob)

(* validatePoolHashFoldV11UnlockScriptSig *)
TwoPushesOf32(script) ==
  LET p == ParseScriptPushes(script)
  IN p.ok /\ Len(p.pushes) = 2 /\ Length(p.pushes[1]) = 32 /\ Length(p.pushes[2]) = 32

-----------------------------------------------------------------------------
(* The machine.  spent and made are the tokens of input 0 and output 0:    *)
(* the scripts look at no other.                                           *)

Machine(pushes) == [main |-> pushes, alt |-> <<>>, ok |-> TRUE]
Top(m, k) == m.main[Len(m.main) + 1 - k]
Popped(m, k) == SubSeq(m.main, 1, Len(m.main) - k)
Pops(m, k, items) == [m EXCEPT !.main = Popped(m, k) \o items]
Pushes(m, item) == [m EXCEPT !.main = Append(@, item)]
Check(m, k, holds) == [m EXCEPT !.main = Popped(m, k), !.ok = holds]
Truth(holds) == IF holds THEN <<Byte(1)>> ELSE <<>>
False == <<>>

\* external: a category and its capability byte, in the order of the wire
TokenCategory(token) ==
  token.category \o (IF token.capability > 0 THEN <<Byte(token.capability)>> ELSE <<>>)

Literal == [OP_0 |-> 0, OP_1 |-> 1, x20 |-> 32, x21 |-> 33, x40 |-> 64]
Takes ==
  [OP_SIZE |-> 1, OP_EQUALVERIFY |-> 2, OP_NUMEQUALVERIFY |-> 2, OP_DROP |-> 1, OP_DUP |-> 1, OP_SWAP |-> 2,
   OP_CAT |-> 2, OP_HASH256 |-> 1, OP_TOALTSTACK |-> 1, OP_LESSTHANOREQUAL |-> 2, OP_VERIFY |-> 1,
   OP_SPLIT |-> 2, OP_UTXOTOKENCATEGORY |-> 1, OP_UTXOTOKENCOMMITMENT |-> 1, OP_OUTPUTTOKENCATEGORY |-> 1,
   OP_OUTPUTTOKENCOMMITMENT |-> 1, hashChunk |-> 2]

(* One opcode.  external: the virtual machine of the node *)
Opcode(m, op, spent, made) ==
  LET a == Top(m, 1)   b == Top(m, 2)
      cut == Take(Reader(b), FromLE(a))
  IN CASE op \in DOMAIN Literal -> Pushes(m, MinimalScriptNumber(Literal[op]))
       [] op = "OP_DEPTH" -> Pushes(m, MinimalScriptNumber(Len(m.main)))
       [] op = "OP_SIZE" -> Pushes(m, MinimalScriptNumber(Length(a)))
       [] op \in {"OP_EQUALVERIFY", "OP_NUMEQUALVERIFY"} -> Check(m, 2, Length(a) = Length(b) /\ a = b)
       [] op = "OP_LESSTHANOREQUAL" -> Pops(m, 2, <<Truth(FromLE(b) <= FromLE(a))>>)
       [] op = "OP_VERIFY" -> Check(m, 1, a # False)
       [] op = "OP_DROP" -> Pops(m, 1, <<>>)
       [] op = "OP_DUP" -> Pushes(m, a)
       [] op = "OP_SWAP" -> Pops(m, 2, <<a, b>>)
       [] op = "OP_CAT" -> Pops(m, 2, <<b \o a>>)
       [] op = "OP_HASH256" -> Pops(m, 1, <<Hash256(a)>>)
       [] op = "hashChunk" -> Pops(m, 2, <<Hash256(b \o a)>>)
       [] op = "OP_SPLIT" -> [Pops(m, 2, <<cut.got, cut.rest>>) EXCEPT !.ok = cut.ok]
       [] op = "OP_TOALTSTACK" -> [Pops(m, 1, <<>>) EXCEPT !.alt = Append(@, a)]
       [] op = "OP_FROMALTSTACK" ->
            IF m.alt = <<>> THEN [m EXCEPT !.ok = FALSE]
            ELSE [Pushes(m, m.alt[Len(m.alt)]) EXCEPT !.alt = SubSeq(@, 1, Len(@) - 1)]
       [] op = "OP_UTXOTOKENCATEGORY" -> Pops(m, 1, <<TokenCategory(spent)>>)
       [] op = "OP_UTXOTOKENCOMMITMENT" -> Pops(m, 1, <<spent.commitment>>)
       [] op = "OP_OUTPUTTOKENCATEGORY" -> Pops(m, 1, <<TokenCategory(made)>>)
       [] op = "OP_OUTPUTTOKENCOMMITMENT" -> Pops(m, 1, <<made.commitment>>)

Exec(m, program, spent, made) ==
  Fold(LAMBDA st, op :
             IF ~st.ok THEN st
             ELSE IF op \in DOMAIN Takes /\ Len(st.main) < Takes[op] THEN [st EXCEPT !.ok = FALSE]
             ELSE Opcode(st, op, spent, made),
           m, program)

-----------------------------------------------------------------------------
(* The programs *)

IsSize(n) == <<"OP_SIZE", n, "OP_EQUALVERIFY">>
IsMutable == IsSize("x21") \o <<"OP_DUP", "x20", "OP_SPLIT", "OP_1", "OP_EQUALVERIFY", "OP_DROP">>

(* The main program of v1.1, up to its OP_INVOKE of runStateCell *)
DropProof == IsSize("x20") \o <<"OP_DROP">>

ReadStateIn ==
  <<"OP_0", "OP_UTXOTOKENCATEGORY">> \o IsMutable \o <<"OP_TOALTSTACK", "OP_0", "OP_UTXOTOKENCOMMITMENT">>
    \o IsSize("x20") \o <<"OP_TOALTSTACK">>

(* computeStateOut up to its loop *)
PreHash ==
  <<"OP_DEPTH", "x40", "OP_LESSTHANOREQUAL", "OP_VERIFY">> \o IsSize("x20")
    \o <<"OP_FROMALTSTACK", "OP_DUP", "OP_DUP", "OP_CAT", "OP_HASH256", "OP_SWAP", "hashChunk",
         "OP_FROMALTSTACK", "OP_DUP", "OP_TOALTSTACK", "hashChunk", "OP_SWAP", "hashChunk", "OP_TOALTSTACK">>
FoldLimb == <<"OP_FROMALTSTACK", "OP_SWAP", "hashChunk", "OP_TOALTSTACK">>
FoldEnd == <<"OP_FROMALTSTACK", "OP_DEPTH", "OP_1", "OP_NUMEQUALVERIFY">>

AssertStateOut ==
  <<"OP_0", "OP_OUTPUTTOKENCATEGORY">> \o IsMutable \o <<"OP_FROMALTSTACK", "OP_EQUALVERIFY",
    "OP_0", "OP_OUTPUTTOKENCOMMITMENT", "OP_SWAP", "OP_EQUALVERIFY", "OP_1">>
=============================================================================
