---------------------------- MODULE MCShardSpend ---------------------------
(* Two shards, and an address with every slip of one symbol *)
EXTENDS ShardSpend

\* the low five bits of the letters of "bchtest" and of "bitcoincash"
Bchtest == <<2, 3, 8, 20, 5, 19, 20>>
Bitcoincash == <<2, 9, 20, 3, 15, 9, 14, 3, 1, 19, 8>>

Mainnet == {Bitcoincash}

SomeHash == <<118, 160, 64, 83, 189, 160, 168, 139, 218, 81, 119, 184, 106, 21, 195, 178, 159, 85, 152, 115>>
LongHash == [i \in 1 .. 32 |-> i]

Right == EncodeCashAddr(Bchtest, "P2PKH", SomeHash)
AddressMeant == Right
Size == Len(Right.symbols)
WrongSymbol == {[Right EXCEPT !.symbols[i] = s] : i \in 1 .. Size, s \in Symbol}
NeighboursExchanged == {[Right EXCEPT !.symbols[i] = Right.symbols[i + 1], !.symbols[i + 1] = Right.symbols[i]] :
                i \in 1 .. Size - 1}
Missing == {[Right EXCEPT !.symbols = RemoveAt(@, i)] : i \in 1 .. Size}
SlipsOfOneAddress ==
  WrongSymbol \cup NeighboursExchanged \cup Missing
    \cup {[a EXCEPT !.network = <<>>] :
            a \in {Right, EncodeCashAddr(Bitcoincash, "P2PKH", SomeHash)}}
    \cup {EncodeCashAddr(Bitcoincash, "P2PKH", SomeHash), EncodeCashAddr(Bchtest, "P2SH", SomeHash),
          EncodeCashAddr(Bchtest, "P2PKH", LongHash)}

\* 252, 253, 65535 and 65536 bytes with the token's prefix of 67
WidthsAtTheBoundaries == {185, 186, 65468, 65469}

Words(n) == [i \in 1 .. n |-> << <<"word", i>> >>]
Blob(width) == << <<"code", width>> >>
LimbsAtTheBoundaries ==
  {Words(63), Words(64), <<Blob(75), Blob(76), Blob(255), Blob(256)>>}
=============================================================================
