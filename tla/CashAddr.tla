------------------------------ MODULE CashAddr ------------------------------
(***************************************************************************)
(* CashAddr: the addresses of packages/utils.  An address is the name of   *)
(* its network and a row of 5-bit symbols, 8 of them a checksum.  The      *)
(* 40-bit checksum register is eight 5-bit digits, most significant first. *)
(***************************************************************************)
EXTENDS Bytes

Symbol == 0 .. 31

Bit(n, i) == (n \div 2 ^ i) % 2
Bits(n, size) == [i \in 1 .. size |-> Bit(n, size - i)]
FromBits(bits) == Fold(LAMBDA n, b : 2 * n + b, 0, bits)
Xor == [a \in Symbol |-> [b \in Symbol |->
          FromBits([i \in 1 .. 5 |-> (Bits(a, 5)[i] + Bits(b, 5)[i]) % 2])]]

Generator ==
  << <<19, 3, 25, 11, 25, 3, 19, 1>>, <<15, 6, 27, 22, 27, 6, 15, 2>>,
     <<30, 12, 31, 5, 31, 12, 30, 4>>, <<21, 24, 23, 10, 23, 24, 21, 8>>,
     <<3, 25, 7, 20, 7, 25, 3, 16>> >>

Zeros == <<0, 0, 0, 0, 0, 0, 0, 0>>
XorAll(digits, others) == SubSeq([i \in 1 .. 8 |-> Xor[digits[i]][others[i]]], 1, 8)
(* faulty variant: the last generator left out *)
FeedbackOfFour ==
  [top \in Symbol |-> Fold(LAMBDA c, i : IF Bit(top, i - 1) = 1 THEN XorAll(c, Generator[i]) ELSE c,
                           Zeros, <<1, 2, 3, 4>>)]

Feedback ==
  [top \in Symbol |-> Fold(LAMBDA c, i : IF Bit(top, i - 1) = 1 THEN XorAll(c, Generator[i]) ELSE c,
                           Zeros, <<1, 2, 3, 4, 5>>)]

(* One round of polymod: shift a symbol in, fold in the digit shifted out *)
PolymodStep(chk, symbol) == XorAll(Append(SubSeq(chk, 2, 8), symbol), Feedback[chk[1]])
One == <<0, 0, 0, 0, 0, 0, 0, 1>>
Register(symbols) == Fold(PolymodStep, One, symbols)
Polymod(symbols) == XorAll(Register(symbols), One)

(* cashHrpExpand, cashCreateChecksum, cashVerifyChecksum; a network is the *)
(* low five bits of the letters of its name                                *)
HrpExpand(network) == Append(network, 0)
CreateChecksum(network, data) == Polymod(HrpExpand(network) \o data \o Zeros)
VerifyChecksum(network, symbols) == Polymod(HrpExpand(network) \o symbols) = Zeros

-----------------------------------------------------------------------------
(* Bytes to symbols and back: convertbits *)

Group(bits, size) ==
  [i \in 1 .. Len(bits) \div size |-> FromBits(SubSeq(bits, (i - 1) * size + 1, i * size))]
BitsOf(values, size) ==
  [i \in 1 .. Len(values) * size |-> Bit(values[1 + ((i - 1) \div size)], size - 1 - ((i - 1) % size))]
Padding(bits) == [i \in 1 .. ((0 - Len(bits)) % 5) |-> 0]
ToSymbols(bytes) == Group(BitsOf(bytes, 8) \o Padding(BitsOf(bytes, 8)), 5)

HashSizes == <<20, 24, 28, 32, 40, 48, 56, 64>>
TypeBits == [P2PKH |-> 0, P2SH |-> 1]

EncodeCashAddr(network, type, hash) ==
  LET size == CHOOSE i \in 1 .. 8 : HashSizes[i] = Len(hash)
      data == ToSymbols(<<(TypeBits[type] * 8) + size - 1>> \o hash)
  IN [network |-> network, symbols |-> data \o CreateChecksum(network, data)]

Refused == [ok |-> FALSE]

(* decodeCashAddress *)
DecodeCashAddress(addr) ==
  LET data == SubSeq(addr.symbols, 1, Len(addr.symbols) - 8)
      bits == BitsOf(data, 5)
      bytes == Group(bits, 8)
      spare == SubSeq(bits, 8 * Len(bytes) + 1, Len(bits))
      hash == Tail(bytes)
  IN IF /\ VerifyChecksum(addr.network, addr.symbols)
        /\ \A i \in DOMAIN spare : spare[i] = 0
        /\ bytes # <<>>
        /\ Len(hash) = HashSizes[(bytes[1] % 8) + 1]
     THEN [ok |-> TRUE, network |-> addr.network,
           type |-> IF (bytes[1] \div 8) % 16 = 0 THEN "P2PKH" ELSE "P2SH", hash |-> hash]
     ELSE Refused
=============================================================================
