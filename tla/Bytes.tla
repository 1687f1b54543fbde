------------------------------- MODULE Bytes -------------------------------
(***************************************************************************)
(* Byte strings, and the numbers and pushes that packages/utils puts into  *)
(* them and takes out again.                                               *)
(*                                                                         *)
(* A byte string is a sequence of atoms.  An atom is one byte, or a run of *)
(* bytes nobody looks into: a 32-byte word or transaction id, a hash, a    *)
(* public key, a signature, the bytecode of the covenant.  Hashes, keys    *)
(* and signatures are free constructors.  Lengths are lengths in bytes, so *)
(* that every length prefix and every slice is computed as the code does.  *)
(* Numbers are below 2^31; the sequence number 0xffffffff is, as in        *)
(* JavaScript's bit operations, -1.                                        *)
(***************************************************************************)
EXTENDS Integers, Sequences, SequencesExt

(* FoldLeft of SequencesExt; an intermediate result is an element of a set *)
(* so that TLC has it before the next step: strings are long               *)
Fold(Op(_, _), base, s) ==
  LET upTo[i \in 0 .. Len(s)] ==
        IF i = 0 THEN base ELSE CHOOSE v \in {Op(r, s[i]) : r \in {upTo[i - 1]}} : TRUE
  IN upTo[Len(s)]

(* what a loop over n items counts *)
UpTo(n) == [i \in 1 .. n |-> i]

Byte(n) == <<"byte", n>>
Sha256(s) == << <<"hash", s>> >>
Hash256(s) == Sha256(Sha256(s))
Hash160(s) == << <<"hash160", s>> >>

Width(a) ==
  CASE a[1] = "byte" -> 1
    [] a[1] \in {"hash160", "cut"} -> 20
    [] a[1] = "pub" -> 33
    [] a[1] = "sig" -> 64
    [] a[1] = "code" -> a[2]
    [] OTHER -> 32
Length(s) == Fold(LAMBDA n, a : n + Width(a), 0, s)

ByteString(s) == s \in Seq(Range(s)) /\ \A i \in DOMAIN s : Width(s[i]) \in Nat \ {0}

FlipAtom(a) == IF a[1] = "byte" THEN a ELSE IF a[1] = "rev" THEN a[2] ELSE <<"rev", a>>
ReverseBytes(s) == [i \in 1 .. Len(s) |-> FlipAtom(s[Len(s) + 1 - i])]

Concat(Encode(_), items) == FlattenSeq([i \in 1 .. Len(items) |-> Encode(items[i])])

-----------------------------------------------------------------------------
(* Numbers *)

Number == {n \in Nat : n <= 2147483647}

\* uint16le, uint32le, uint64le
LE(n, size) == [i \in 1 .. size |-> Byte(IF i <= 4 THEN (n \div 256 ^ (i - 1)) % 256 ELSE 0)]
AddByte(s, n, i) == IF s[i][2] = 0 THEN n ELSE n + s[i][2] * 256 ^ (i - 1)
FromLE(s) == Fold(LAMBDA n, i : AddByte(s, n, i), 0, UpTo(Len(s)))

(* faulty variant: a length of exactly 0xfd in one byte *)
VarIntTight(n) == IF n <= 253 THEN LE(n, 1) ELSE <<Byte(253)>> \o LE(n, 2)

VarInt(n) ==
  CASE n < 253 -> LE(n, 1)
    [] n >= 253 /\ n <= 65535 -> <<Byte(253)>> \o LE(n, 2)
    [] OTHER -> <<Byte(254)>> \o LE(n, 4)

(* minimalScriptNumber of a number that is not negative *)
ScriptSize(n) == IF n >= 2 ^ 24 THEN 4 ELSE CHOOSE k \in 0 .. 3 : n < 256 ^ k /\ (k = 0 \/ n >= 256 ^ (k - 1))
MinimalScriptNumber(n) ==
  LET size == ScriptSize(n)
      bytes == LE(n, size)
  IN IF n > 0 /\ bytes[size][2] >= 128 THEN bytes \o <<Byte(0)>> ELSE bytes

-----------------------------------------------------------------------------
(* Readers.  A reader is what is left to read, what was read last, and     *)
(* whether every read so far found its bytes.                              *)

Reader(s) == [rest |-> s, got |-> <<>>, ok |-> TRUE]

(* How many atoms hold the first n bytes, and what is then missing of n *)
AddAtom(span, a) ==
  IF span.missing <= 0 THEN span ELSE [atoms |-> span.atoms + 1, missing |-> span.missing - Width(a)]
Span(s, n) == Fold(AddAtom, [atoms |-> 0, missing |-> n], s)
CutAt(r, span) ==
  IF r.ok /\ span.missing = 0
  THEN [r EXCEPT !.rest = SubSeq(@, span.atoms + 1, Len(@)), !.got = SubSeq(r.rest, 1, span.atoms)]
  ELSE [r EXCEPT !.ok = FALSE, !.got = <<>>]
Take(r, n) == CutAt(r, Span(r.rest, n))
TakeCounted(size) == Take(size, size.got)

(* decodeVarInt; the value replaces what was read *)
NumberOf(r) == [r EXCEPT !.got = FromLE(@)]
VarIntFrom(first, byte) ==
  CASE byte < 253 -> NumberOf(first)
    [] byte = 253 -> NumberOf(Take(first, 2))
    [] byte = 254 -> NumberOf(Take(first, 4))
    [] OTHER -> [first EXCEPT !.ok = FALSE, !.got = 0]
VarIntAt(first) == VarIntFrom(first, IF first.ok THEN first.got[1][2] ELSE 255)
ReadVarInt(r) == VarIntAt(Take(r, 1))

-----------------------------------------------------------------------------
(* Script pushes *)

PushPrefix(n) ==
  CASE n < 76 -> LE(n, 1)
    [] n >= 76 /\ n <= 255 -> <<Byte(76)>> \o LE(n, 1)
    [] n >= 256 /\ n <= 65535 -> <<Byte(77)>> \o LE(n, 2)
    [] OTHER -> <<Byte(78)>> \o LE(n, 4)
Push(s) == PushPrefix(Length(s)) \o s

PushSize(first, opcode) ==
  CASE opcode < 76 -> NumberOf(first)
    [] opcode = 76 -> NumberOf(Take(first, 1))
    [] opcode = 77 -> NumberOf(Take(first, 2))
    [] opcode = 78 -> NumberOf(Take(first, 4))
    [] OTHER -> [first EXCEPT !.ok = FALSE]
PushAt(first) ==
  IF first.ok /\ first.got[1][1] = "byte" THEN TakeCounted(PushSize(first, first.got[1][2]))
  ELSE [first EXCEPT !.ok = FALSE]
Pushed(p, data) ==
  [reader |-> data, pushes |-> IF data.ok THEN Append(p.pushes, data.got) ELSE p.pushes]
NextPush(p) ==
  IF p.reader.rest = <<>> \/ ~p.reader.ok THEN p ELSE Pushed(p, PushAt(Take(p.reader, 1)))

(* parseScriptPushes: a push-only script as the strings it pushes *)
ParseScriptPushes(script) ==
  LET p == Fold(LAMBDA st, i : NextPush(st), [reader |-> Reader(script), pushes |-> <<>>], script)
  IN [ok |-> p.reader.ok, pushes |-> p.pushes]
=============================================================================
