-------------------------- MODULE WireProofs --------------------------
(***************************************************************************)
(* The wire of ShardSpend, for every number and length that fits its       *)
(* field: what the builders of init, import and withdraw write is read     *)
(* back, and the transactions they leave are sealed, that is, in the form  *)
(* the node, the scanner and the next command expect.                      *)
(*                                                                         *)
(* The recursion of the model is in folds. A fold is proved about through  *)
(* the trace of its intermediate results: any function that starts like    *)
(* the fold and steps like it is the fold's (SameTrace, by least           *)
(* counterexample), so that a lemma has only to name the trace.            *)
(***************************************************************************)
EXTENDS ShardSpend, SequenceTheorems, NaturalsInduction, WellFoundedInduction, TLAPS

-----------------------------------------------------------------------------
(* Induction, and traces of folds *)

(* Every non-empty set of naturals has a least element: the induction of   *)
(* this module is by least counterexample                                  *)
LEMMA LeastNatural ==
  ASSUME NEW T \in SUBSET Nat, T # {}
  PROVE  \E n \in T : \A m \in T : n <= m
  <1>1. IsWellFoundedOn(OpToRel(<, Nat), Nat)
        BY NatLessThanWellFounded, Zenon
  <1>2. PICK n \in T : \A m \in T : ~(<<m, n>> \in OpToRel(<, Nat))
        BY <1>1, WFMin, Zenon
  <1>3. \A m \in T : ~(m < n)
        BY <1>2 DEF OpToRel
  <1> QED BY <1>3

(* Two functions that start alike and, as long as they are alike, go on    *)
(* alike are alike                                                         *)
Alike(g, t, n) == g[0] = t[0] /\ \A i \in 1 .. n : g[i - 1] = t[i - 1] => g[i] = t[i]

Steps(t, n) == t = [i \in 0 .. n |-> t[i]]

LEMMA SameTrace ==
  ASSUME NEW n \in Nat, NEW g, NEW t, Alike(g, t, n)
  PROVE  \A i \in 0 .. n : g[i] = t[i]
  <1> DEFINE Bad == {i \in 0 .. n : g[i] # t[i]}
  <1> SUFFICES ASSUME Bad # {} PROVE FALSE
      OBVIOUS
  <1>1. Bad \in SUBSET Nat
        OBVIOUS
  <1> HIDE DEF Bad
  <1>2. PICK m \in Bad : \A l \in Bad : m <= l
        BY <1>1, LeastNatural
  <1> USE DEF Bad
  <1>3. m \in 1 .. n /\ m - 1 \in 0 .. n /\ m - 1 \notin Bad
        BY <1>2 DEF Alike
  <1> QED BY <1>2, <1>3 DEF Alike

(* A trace of the sum of the widths ends in the length of the string *)
LEMMA LengthTrace ==
  ASSUME NEW s, Len(s) \in Nat,
         NEW t, Steps(t, Len(s)), t[0] = 0,
         \A i \in 1 .. Len(s) : t[i] = t[i - 1] + Width(s[i])
  PROVE  Length(s) = t[Len(s)]
  <1> DEFINE Step(i, r) == CHOOSE v \in {q + Width(s[i]) : q \in {r}} : TRUE
             Trace(g) == g = [i \in 0 .. Len(s) |-> IF i = 0 THEN 0 ELSE Step(i, g[i - 1])]
             Result == CHOOSE g : Trace(g)
  <1>1. \A i, r : Step(i, r) = r + Width(s[i])
        BY Zenon
  <1>2. \A i \in 1 .. Len(s) : t[i] = Step(i, t[i - 1])
        BY <1>1
  <1>3. Length(s) = Result[Len(s)]
        BY Zenon DEF Length, Fold
  <1> HIDE DEF Step
  <1>4. Trace(t)
        BY <1>2, SMTT(30) DEF Steps
  <1>5. Trace(Result)
        BY <1>4, Zenon
  <1> HIDE DEF Result
  <1>6. \A i \in 0 .. Len(s) : Result[i] = IF i = 0 THEN 0 ELSE Step(i, Result[i - 1])
        BY <1>5
  <1> HIDE DEF Trace
  <1>7. Alike(Result, t, Len(s))
        BY <1>2, <1>6 DEF Alike
  <1> QED BY <1>3, <1>7, SameTrace

IsLengths(t, s) ==
  Steps(t, Len(s)) /\ t[0] = 0 /\ \A i \in 1 .. Len(s) : t[i] = t[i - 1] + Width(s[i])

Part(s, n) == [i \in 1 .. n |-> s[i]]

(* A string has such a trace *)
LEMMA LengthsExist ==
  ASSUME NEW s, Len(s) \in Nat, \A i \in 1 .. Len(s) : Width(s[i]) \in Nat \ {0}
  PROVE  \E t \in [0 .. Len(s) -> Nat] : IsLengths(t, s)
  <1> DEFINE Good(n) == \E t \in [0 .. n -> Nat] :
                           t[0] = 0 /\ \A i \in 1 .. n : t[i] = t[i - 1] + Width(s[i])
             Bad == {n \in 0 .. Len(s) : ~Good(n)}
  <1> HIDE DEF Good
  <1>1. Bad = {}
    <2> SUFFICES ASSUME Bad # {} PROVE FALSE
        OBVIOUS
    <2>1. Bad \in SUBSET Nat
          OBVIOUS
    <2> HIDE DEF Bad
    <2>2. PICK m \in Bad : \A l \in Bad : m <= l
          BY <2>1, LeastNatural
    <2> USE DEF Bad
    <2>3. CASE m = 0
      <3> DEFINE u == [i \in 0 .. m |-> 0]
      <3>1. u \in [0 .. m -> Nat] /\ u[0] = 0 /\ 1 .. m = {}
            BY <2>3
      <3> HIDE DEF u
      <3>2. Good(m)
            BY <3>1 DEF Good
      <3> QED BY <3>2
    <2>4. CASE m # 0
      <3>1. m \in 1 .. Len(s) /\ m - 1 \in 0 .. Len(s) /\ m - 1 \notin Bad
            BY <2>2, <2>4
      <3>2. PICK t \in [0 .. m - 1 -> Nat] :
               t[0] = 0 /\ \A i \in 1 .. m - 1 : t[i] = t[i - 1] + Width(s[i])
            BY <3>1 DEF Good
      <3> DEFINE u == [i \in 0 .. m |-> IF i = m THEN t[m - 1] + Width(s[m]) ELSE t[i]]
      <3>3. u \in [0 .. m -> Nat]
            BY <3>1, <3>2
      <3>4. u[0] = 0 /\ \A i \in 1 .. m : u[i] = u[i - 1] + Width(s[i])
            BY <3>1, <3>2
      <3> HIDE DEF u
      <3>5. Good(m)
            BY <3>3, <3>4 DEF Good
      <3> QED BY <3>5
    <2> QED BY <2>3, <2>4
  <1>2. Good(Len(s))
        BY <1>1
  <1>3. PICK t \in [0 .. Len(s) -> Nat] :
           t[0] = 0 /\ \A i \in 1 .. Len(s) : t[i] = t[i - 1] + Width(s[i])
        BY <1>2 DEF Good
  <1>4. IsLengths(t, s)
        BY <1>3 DEF IsLengths, Steps
  <1> QED BY <1>4

(* A string is a sequence of atoms, none of them of no bytes *)
LEMMA StringIsSeq ==
  ASSUME NEW s, ByteString(s)
  PROVE  /\ Len(s) \in Nat /\ DOMAIN s = 1 .. Len(s) /\ s \in Seq(Range(s))
         /\ \A i \in 1 .. Len(s) : Width(s[i]) \in Nat \ {0}
  <1>1. s \in Seq(Range(s))
        BY DEF ByteString
  <1>2. Len(s) \in Nat /\ DOMAIN s = 1 .. Len(s)
        BY <1>1, LenProperties
  <1> QED BY <1>1, <1>2 DEF ByteString

(* The length of a string is a natural number *)
LEMMA LengthIsNatural ==
  ASSUME NEW s, ByteString(s)
  PROVE  Length(s) \in Nat
  <1>1. PICK t \in [0 .. Len(s) -> Nat] : IsLengths(t, s)
        BY StringIsSeq, LengthsExist
  <1>2. Length(s) = t[Len(s)]
        BY <1>1, StringIsSeq, LengthTrace DEF IsLengths
  <1> QED BY <1>2, StringIsSeq

-----------------------------------------------------------------------------
(* Strings *)

(* The empty string *)
LEMMA EmptyString ==
  ByteString(<<>>) /\ Length(<<>>) = 0 /\ Len(<<>>) = 0
  <1>1. ByteString(<<>>)
        BY DEF ByteString
  <1>2. PICK t \in [0 .. Len(<<>>) -> Nat] : IsLengths(t, <<>>)
        BY <1>1, StringIsSeq, LengthsExist
  <1>3. Length(<<>>) = t[Len(<<>>)]
        BY <1>2, LengthTrace DEF IsLengths
  <1> QED BY <1>1, <1>2, <1>3 DEF IsLengths

(* A string of one atom is as long as the atom is wide *)
LEMMA AtomString ==
  ASSUME NEW a, Width(a) \in Nat \ {0}
  PROVE  ByteString(<<a>>) /\ Length(<<a>>) = Width(a) /\ Len(<<a>>) = 1 /\ <<a>>[1] = a
  <1>1. <<a>> \in Seq({a}) /\ Len(<<a>>) = 1 /\ <<a>>[1] = a
        OBVIOUS
  <1>2. <<a>> \in Seq(Range(<<a>>))
        BY <1>1, SeqOfRange
  <1>3. ByteString(<<a>>)
        BY <1>1, <1>2 DEF ByteString
  <1> PICK s : s = <<a>>
      OBVIOUS
  <1>4. PICK t \in [0 .. Len(s) -> Nat] : IsLengths(t, s)
        BY <1>3, StringIsSeq, LengthsExist
  <1>5. Length(s) = t[1] /\ t[1] = t[0] + Width(s[1]) /\ t[0] = 0
        BY <1>1, <1>4, LengthTrace DEF IsLengths
  <1> QED BY <1>1, <1>3, <1>5

(* Two strings joined: a string, as long as both, of the atoms of both *)
LEMMA JoinedStrings ==
  ASSUME NEW a, NEW b, ByteString(a), ByteString(b)
  PROVE  /\ ByteString(a \o b) /\ Length(a \o b) = Length(a) + Length(b)
         /\ Len(a \o b) = Len(a) + Len(b)
         /\ \A i \in 1 .. Len(a) : (a \o b)[i] = a[i]
         /\ \A i \in 1 .. Len(b) : (a \o b)[Len(a) + i] = b[i]
  <1> DEFINE S == Range(a) \cup Range(b)
  <1> PICK c : c = a \o b
      OBVIOUS
  <1>1. a \in Seq(S) /\ b \in Seq(S) /\ Len(a) \in Nat /\ Len(b) \in Nat
        BY StringIsSeq, SeqMonotonic
  <1>2. /\ c \in Seq(S) /\ Len(c) = Len(a) + Len(b)
        /\ \A i \in 1 .. Len(a) + Len(b) : c[i] = IF i <= Len(a) THEN a[i] ELSE b[i - Len(a)]
        BY <1>1, ConcatProperties
  <1>3. /\ \A i \in 1 .. Len(a) : c[i] = a[i]
        /\ \A i \in 1 .. Len(b) : c[Len(a) + i] = b[i]
        BY <1>1, <1>2
  <1>4. c \in Seq(Range(c)) /\ DOMAIN c = 1 .. Len(c) /\ Len(c) \in Nat
        BY <1>2, SeqOfRange, LenProperties
  <1>5. \A i \in 1 .. Len(c) : Width(c[i]) \in Nat \ {0}
    <2>1. (\A i \in 1 .. Len(a) : Width(a[i]) \in Nat \ {0}) /\ (\A i \in 1 .. Len(b) : Width(b[i]) \in Nat \ {0})
          BY StringIsSeq
    <2> QED BY <1>1, <1>2, <2>1
  <1>6. ByteString(c)
        BY <1>4, <1>5 DEF ByteString
  <1>7. PICK ta \in [0 .. Len(a) -> Nat] : IsLengths(ta, a)
        BY StringIsSeq, LengthsExist
  <1>8. PICK tb \in [0 .. Len(b) -> Nat] : IsLengths(tb, b)
        BY StringIsSeq, LengthsExist
  <1>9. Length(a) = ta[Len(a)] /\ Length(b) = tb[Len(b)]
        BY <1>1, <1>7, <1>8, LengthTrace DEF IsLengths
  <1>13. ta[Len(a)] \in Nat /\ tb[0] = 0 /\ ta[0] = 0
    <2>1. Len(a) \in 0 .. Len(a)
          BY <1>1
    <2>2. ta[Len(a)] \in Nat
          BY <1>7, <2>1
    <2> QED BY <2>2, <1>7, <1>8 DEF IsLengths
  <1>14. \A i \in 0 .. Len(b) : tb[i] \in Nat
         BY <1>8
  <1>15. \A i \in 1 .. Len(b) : Width(b[i]) \in Nat
         BY StringIsSeq
  <1> DEFINE t == [i \in 0 .. Len(c) |-> IF i <= Len(a) THEN ta[i] ELSE ta[Len(a)] + tb[i - Len(a)]]
  <1>10. Steps(t, Len(c)) /\ t[0] = 0 /\ t[Len(c)] = ta[Len(a)] + tb[Len(b)]
    <2>1. Steps(t, Len(c))
          BY DEF Steps
    <2>2. t[0] = 0
          BY <1>1, <1>2, <1>7 DEF IsLengths
    <2>3. ASSUME Len(b) = 0 PROVE t[Len(c)] = ta[Len(a)] + tb[Len(b)]
      <3>1. Len(c) \in 0 .. Len(c) /\ Len(c) = Len(a)
            BY <2>3, <1>1, <1>2
      <3>2. t[Len(c)] = ta[Len(a)]
            BY <3>1, <1>1
      <3> QED BY <2>3, <3>2, <1>13
    <2>4. ASSUME Len(b) # 0 PROVE t[Len(c)] = ta[Len(a)] + tb[Len(b)]
      <3>1. Len(c) \in 0 .. Len(c) /\ ~(Len(c) <= Len(a)) /\ Len(c) - Len(a) = Len(b)
            BY <2>4, <1>1, <1>2
      <3>2. t[Len(c)] = ta[Len(a)] + tb[Len(c) - Len(a)]
            BY <3>1
      <3> QED BY <3>1, <3>2
    <2> QED BY <2>1, <2>2, <2>3, <2>4, <1>1
  <1>11. \A i \in 1 .. Len(c) : t[i] = t[i - 1] + Width(c[i])
    <2> TAKE i \in 1 .. Len(c)
    <2>1. CASE i <= Len(a)
      <3>1. i \in 1 .. Len(a) /\ ta[i] = ta[i - 1] + Width(a[i]) /\ c[i] = a[i]
            BY <2>1, <1>1, <1>2, <1>3, <1>7 DEF IsLengths
      <3> QED BY <2>1, <3>1, <1>1, <1>2
    <2>2. CASE i = Len(a) + 1
      <3>1. tb[1] = tb[0] + Width(b[1]) /\ tb[0] = 0 /\ c[i] = b[1] /\ 1 \in 1 .. Len(b)
            BY <2>2, <1>1, <1>2, <1>3, <1>8 DEF IsLengths
      <3>2. t[i] = ta[Len(a)] + tb[1] /\ t[i - 1] = ta[Len(a)]
            BY <2>2, <1>1, <1>2
      <3>3. tb[1] \in Nat /\ Width(b[1]) \in Nat
            BY <3>1, <1>14, <1>15
      <3> HIDE DEF t
      <3> QED BY <3>1, <3>2, <3>3, <1>13
    <2>3. CASE i > Len(a) + 1
      <3> DEFINE k == i - Len(a)
      <3>1. k \in 1 .. Len(b) /\ k - 1 \in 1 .. Len(b) /\ c[i] = b[k]
            BY <2>3, <1>1, <1>2
      <3>2. tb[k] = tb[k - 1] + Width(b[k])
            BY <3>1, <1>8 DEF IsLengths
      <3>3. t[i] = ta[Len(a)] + tb[k] /\ t[i - 1] = ta[Len(a)] + tb[k - 1]
            BY <2>3, <1>1, <1>2
      <3>4. ta[Len(a)] \in Nat /\ tb[k] \in Nat /\ tb[k - 1] \in Nat /\ Width(b[k]) \in Nat
      <4>1. k \in 0 .. Len(b) /\ k - 1 \in 0 .. Len(b)
            BY <3>1, <1>1
      <4> HIDE DEF k
      <4> QED BY <3>1, <4>1, <1>13, <1>14, <1>15
      <3> HIDE DEF t, k
      <3> QED BY <3>1, <3>2, <3>3, <3>4
    <2> QED BY <2>1, <2>2, <2>3, <1>1
  <1> HIDE DEF t
  <1>12. Length(c) = t[Len(c)]
        BY <1>4, <1>10, <1>11, LengthTrace
  <1> QED BY <1>2, <1>3, <1>6, <1>9, <1>10, <1>12

(* Joining is associative *)
LEMMA JoinAssociates ==
  ASSUME NEW a, NEW b, NEW c, ByteString(a), ByteString(b), ByteString(c)
  PROVE  (a \o b) \o c = a \o (b \o c)
  <1> DEFINE S == Range(a) \cup Range(b) \cup Range(c)
  <1>1. a \in Seq(S) /\ b \in Seq(S) /\ c \in Seq(S)
        BY StringIsSeq, SeqMonotonic
  <1> QED BY <1>1, ConcatAssociative

(* Joining nothing changes nothing *)
LEMMA JoinNothing ==
  ASSUME NEW a, ByteString(a)
  PROVE  a \o <<>> = a /\ <<>> \o a = a
  BY StringIsSeq, ConcatEmptySeq

(* Only the empty string has no bytes *)
LEMMA ShortString ==
  ASSUME NEW a, ByteString(a), Length(a) = 0
  PROVE  a = <<>>
  <1>1. PICK t \in [0 .. Len(a) -> Nat] : IsLengths(t, a)
        BY StringIsSeq, LengthsExist
  <1>2. Length(a) = t[Len(a)]
        BY <1>1, StringIsSeq, LengthTrace DEF IsLengths
  <1>3. Len(a) \in Nat /\ \A i \in 1 .. Len(a) : Width(a[i]) \in Nat \ {0}
        BY StringIsSeq
  <1>4. Len(a) = 0
    <2> SUFFICES ASSUME Len(a) # 0 PROVE FALSE
        OBVIOUS
    <2>1. t[Len(a)] = t[Len(a) - 1] + Width(a[Len(a)]) /\ Len(a) \in 1 .. Len(a) /\ t[Len(a) - 1] \in Nat
          BY <1>1, <1>3 DEF IsLengths
    <2> QED BY <1>2, <1>3, <2>1
  <1> QED BY <1>4, StringIsSeq, EmptySeq

(* The two parts of a joined string are its subsequences *)
LEMMA PartsOfJoin ==
  ASSUME NEW a, NEW b, ByteString(a), ByteString(b)
  PROVE  /\ SubSeq(a \o b, 1, Len(a)) = a
         /\ SubSeq(a \o b, Len(a) + 1, Len(a \o b)) = b
  <1> DEFINE S == Range(a) \cup Range(b)
  <1> PICK c : c = a \o b
      OBVIOUS
  <1>1. a \in Seq(S) /\ b \in Seq(S) /\ Len(a) \in Nat /\ Len(b) \in Nat
        BY StringIsSeq, SeqMonotonic
  <1>2. /\ c \in Seq(S) /\ Len(c) = Len(a) + Len(b)
        /\ \A i \in 1 .. Len(a) + Len(b) : c[i] = IF i <= Len(a) THEN a[i] ELSE b[i - Len(a)]
        BY <1>1, ConcatProperties
  <1> HIDE DEF S
  <1>3. \A i \in 1 .. Len(c) : c[i] \in S
        BY <1>2, ElementOfSeq
  <1>4. SubSeq(c, 1, Len(a)) = a
    <2>1. \A i \in 1 .. Len(a) : c[i] \in S
          BY <1>1, <1>2, <1>3
    <2>2. /\ SubSeq(c, 1, Len(a)) \in Seq(S)
          /\ Len(SubSeq(c, 1, Len(a))) = IF 1 <= Len(a) THEN Len(a) - 1 + 1 ELSE 0
          /\ \A i \in 1 .. Len(a) - 1 + 1 : SubSeq(c, 1, Len(a))[i] = c[1 + i - 1]
          BY <1>1, <2>1, SubSeqProperties
    <2>3. Len(SubSeq(c, 1, Len(a))) = Len(a) /\ \A i \in 1 .. Len(a) : SubSeq(c, 1, Len(a))[i] = a[i]
          BY <1>1, <1>2, <2>2
    <2> QED BY <1>1, <2>2, <2>3, SeqEqual
  <1>5. SubSeq(c, Len(a) + 1, Len(c)) = b
    <2>1. \A i \in Len(a) + 1 .. Len(c) : c[i] \in S
          BY <1>1, <1>2, <1>3
    <2> DEFINE d == SubSeq(c, Len(a) + 1, Len(c))
    <2>2. /\ d \in Seq(S)
          /\ Len(d) = IF Len(a) + 1 <= Len(c) THEN Len(c) - (Len(a) + 1) + 1 ELSE 0
          /\ \A i \in 1 .. Len(c) - (Len(a) + 1) + 1 : d[i] = c[Len(a) + 1 + i - 1]
          BY <1>1, <1>2, <2>1, SubSeqProperties
    <2> HIDE DEF d
    <2>3. Len(d) = Len(b) /\ \A i \in 1 .. Len(b) : d[i] = b[i]
      <3>1. Len(d) = Len(b)
            BY <1>1, <1>2, <2>2
      <3>2. ASSUME NEW i \in 1 .. Len(b) PROVE d[i] = b[i]
        <4>0. /\ i \in 1 .. Len(c) - (Len(a) + 1) + 1 /\ Len(a) + 1 + i - 1 = Len(a) + i
              /\ Len(a) + i \in 1 .. Len(a) + Len(b) /\ ~(Len(a) + i <= Len(a))
              BY <1>1, <1>2
        <4>1. d[i] = c[Len(a) + i] /\ Len(a) + i \in 1 .. Len(a) + Len(b) /\ ~(Len(a) + i <= Len(a))
              BY <2>2, <4>0
        <4>2. c[Len(a) + i] = b[Len(a) + i - Len(a)]
              BY <1>2, <4>1
        <4> QED BY <1>1, <4>1, <4>2
      <3> QED BY <3>1, <3>2
    <2> QED BY <1>1, <2>2, <2>3, SeqEqual DEF d
  <1> QED BY <1>4, <1>5

(* Each atom makes the string longer *)
LEMMA LengthsGrow ==
  ASSUME NEW s, ByteString(s), NEW t \in [0 .. Len(s) -> Nat], IsLengths(t, s)
  PROVE  \A i \in 0 .. Len(s) - 1 : t[i] < t[Len(s)]
  <1> DEFINE Bad == {d \in 1 .. Len(s) : ~(t[Len(s) - d] < t[Len(s)])}
  <1>1. Len(s) \in Nat /\ \A i \in 1 .. Len(s) : Width(s[i]) \in Nat \ {0}
        BY StringIsSeq
  <1>2. \A i \in 1 .. Len(s) : t[i - 1] < t[i]
    <2> TAKE i \in 1 .. Len(s)
    <2>1. t[i] = t[i - 1] + Width(s[i]) /\ t[i - 1] \in Nat /\ Width(s[i]) \in Nat \ {0}
          BY <1>1 DEF IsLengths
    <2> QED BY <2>1
  <1>3. Bad = {}
    <2> SUFFICES ASSUME Bad # {} PROVE FALSE
        OBVIOUS
    <2>1. Bad \in SUBSET Nat
          OBVIOUS
    <2> HIDE DEF Bad
    <2>2. PICK m \in Bad : \A l \in Bad : m <= l
          BY <2>1, LeastNatural
    <2> USE DEF Bad
    <2>3. m \in 1 .. Len(s) /\ ~(t[Len(s) - m] < t[Len(s)])
          BY <2>2
    <2>4. Len(s) - m + 1 \in 1 .. Len(s) /\ Len(s) - m + 1 - 1 = Len(s) - m
          BY <1>1, <2>3
    <2>5. t[Len(s) - m] < t[Len(s) - m + 1]
      <3> PICK k : k = Len(s) - m + 1
          OBVIOUS
      <3>1. t[k - 1] < t[k]
            BY <1>2, <2>4
      <3> QED BY <2>4, <3>1
    <2>6. CASE m = 1
          BY <1>1, <2>3, <2>5, <2>6
    <2>7. CASE m # 1
      <3>1. m - 1 \in 1 .. Len(s) /\ m - 1 \notin Bad /\ Len(s) - (m - 1) = Len(s) - m + 1
        <4>1. m - 1 \in 1 .. Len(s) /\ ~(m <= m - 1) /\ Len(s) - (m - 1) = Len(s) - m + 1
              BY <1>1, <2>3, <2>7
        <4> QED BY <2>2, <4>1
      <3>2. t[Len(s) - m + 1] < t[Len(s)]
            BY <3>1
      <3>3. t[Len(s) - m] \in Nat /\ t[Len(s) - m + 1] \in Nat /\ t[Len(s)] \in Nat
        <4>1. Len(s) - m \in 0 .. Len(s) /\ Len(s) - m + 1 \in 0 .. Len(s) /\ Len(s) \in 0 .. Len(s)
              BY <1>1, <2>3
        <4> QED BY <4>1
      <3> QED BY <2>3, <2>5, <3>2, <3>3
    <2> QED BY <2>6, <2>7
  <1>4. ASSUME NEW i \in 0 .. Len(s) - 1 PROVE t[i] < t[Len(s)]
    <2>1. Len(s) - i \in 1 .. Len(s) /\ Len(s) - (Len(s) - i) = i
          BY <1>1
    <2> QED BY <1>3, <2>1
  <1> QED BY <1>4

(* A trace of AddAtom ends in what Span counts *)
LEMMA SpanTrace ==
  ASSUME NEW s, Len(s) \in Nat, NEW n,
         NEW t, Steps(t, Len(s)), t[0] = [atoms |-> 0, missing |-> n],
         \A i \in 1 .. Len(s) : t[i] = AddAtom(t[i - 1], s[i])
  PROVE  Span(s, n) = t[Len(s)]
  <1> DEFINE Step(i, r) == CHOOSE v \in {AddAtom(q, s[i]) : q \in {r}} : TRUE
             Trace(g) == g = [i \in 0 .. Len(s) |-> IF i = 0 THEN [atoms |-> 0, missing |-> n] ELSE Step(i, g[i - 1])]
             Result == CHOOSE g : Trace(g)
  <1>1. \A i, r : Step(i, r) = AddAtom(r, s[i])
        BY Zenon
  <1>2. \A i \in 1 .. Len(s) : t[i] = Step(i, t[i - 1])
        BY <1>1
  <1>3. Span(s, n) = Result[Len(s)]
        BY Zenon DEF Span, Fold
  <1> HIDE DEF Step
  <1>4. Trace(t)
        BY <1>2 DEF Steps
  <1>5. Trace(Result)
        BY <1>4, Zenon
  <1> HIDE DEF Result
  <1>6. \A i \in 0 .. Len(s) : Result[i] = IF i = 0 THEN [atoms |-> 0, missing |-> n] ELSE Step(i, Result[i - 1])
        BY <1>5
  <1> HIDE DEF Trace
  <1>7. Alike(Result, t, Len(s))
        BY <1>2, <1>6 DEF Alike
  <1> QED BY <1>3, <1>7, SameTrace

Yes == TRUE
At(s, got) == [rest |-> s, got |-> got, ok |-> Yes]

(* The fields of a reader *)
LEMMA Parts ==
  ASSUME NEW s, NEW got
  PROVE  At(s, got).rest = s /\ At(s, got).got = got /\ At(s, got).ok
  <1>1. At(s, got).rest = s /\ At(s, got).got = got /\ At(s, got).ok = Yes
        BY DEF At
  <1> QED BY <1>1 DEF Yes

(* As many bytes as the first of two joined strings has are its atoms, to  *)
(* the last                                                                *)
LEMMA SpanIs ==
  ASSUME NEW a, NEW b, ByteString(a), ByteString(b)
  PROVE  Span(a \o b, Length(a)) = [atoms |-> Len(a), missing |-> 0]
  <1> PICK c : c = a \o b
      OBVIOUS
  <1>1. /\ Len(c) = Len(a) + Len(b) /\ Len(a) \in Nat /\ Len(b) \in Nat
        /\ \A i \in 1 .. Len(a) : c[i] = a[i]
        BY JoinedStrings, StringIsSeq
  <1>2. PICK ta \in [0 .. Len(a) -> Nat] : IsLengths(ta, a)
        BY StringIsSeq, LengthsExist
  <1>3. Length(a) = ta[Len(a)] /\ ta[0] = 0
        BY <1>1, <1>2, LengthTrace DEF IsLengths
  <1>4. \A i \in 1 .. Len(a) : ta[i] = ta[i - 1] + Width(a[i])
        BY <1>2 DEF IsLengths
  <1>5. \A i \in 0 .. Len(a) - 1 : ta[i] < ta[Len(a)]
        BY <1>2, LengthsGrow
  <1>6. \A i \in 0 .. Len(a) : ta[i] \in Nat
        BY <1>2
  <1>7. \A i \in 1 .. Len(a) : Width(a[i]) \in Nat
        BY StringIsSeq
  <1> DEFINE t == [i \in 0 .. Len(c) |-> IF i <= Len(a) THEN [atoms |-> i, missing |-> ta[Len(a)] - ta[i]]
                                         ELSE [atoms |-> Len(a), missing |-> 0]]
  <1>8. Steps(t, Len(c))
        BY DEF Steps
  <1>9. t[0] = [atoms |-> 0, missing |-> Length(a)]
    <2>1. 0 \in 0 .. Len(c) /\ 0 <= Len(a) /\ ta[Len(a)] - ta[0] = ta[Len(a)]
          BY <1>1, <1>3, <1>6
    <2> QED BY <1>3, <2>1
  <1>10. t[Len(c)] = [atoms |-> Len(a), missing |-> 0]
    <2>1. Len(c) \in 0 .. Len(c) /\ (Len(c) <= Len(a) => Len(c) = Len(a)) /\ ta[Len(a)] - ta[Len(a)] = 0
          BY <1>1, <1>6
    <2> QED BY <2>1
  <1>11. ASSUME NEW i \in 1 .. Len(c)
         PROVE  t[i] = AddAtom(t[i - 1], c[i])
    <2>0. i - 1 \in 0 .. Len(c) /\ i \in 0 .. Len(c)
          BY <1>1
    <2>1. CASE i <= Len(a)
      <3>1. i \in 1 .. Len(a) /\ i - 1 \in 0 .. Len(a) - 1 /\ i - 1 <= Len(a) /\ c[i] = a[i]
            BY <2>1, <1>1
      <3>2. t[i - 1] = [atoms |-> i - 1, missing |-> ta[Len(a)] - ta[i - 1]]
            BY <2>0, <3>1
      <3>3. t[i] = [atoms |-> i, missing |-> ta[Len(a)] - ta[i]]
            BY <2>0, <2>1
      <3>4. ta[Len(a)] - ta[i] = ta[Len(a)] - ta[i - 1] - Width(a[i]) /\ ~(ta[Len(a)] - ta[i - 1] <= 0)
        <4>1. ta[i] = ta[i - 1] + Width(a[i]) /\ ta[i - 1] < ta[Len(a)]
              BY <3>1, <1>4, <1>5
        <4>2. ta[i] \in Nat /\ ta[i - 1] \in Nat /\ ta[Len(a)] \in Nat /\ Width(a[i]) \in Nat
              BY <3>1, <1>1, <1>6, <1>7
        <4> QED BY <4>1, <4>2
      <3>5. i - 1 + 1 = i
            BY <1>1
      <3> HIDE DEF t
      <3> QED BY <3>1, <3>2, <3>3, <3>4, <3>5 DEF AddAtom
    <2>2. CASE ~(i <= Len(a))
      <3>1. t[i] = [atoms |-> Len(a), missing |-> 0]
            BY <2>0, <2>2
      <3>2. t[i - 1] = [atoms |-> Len(a), missing |-> 0]
        <4>1. i - 1 <= Len(a) => i - 1 = Len(a) /\ ta[Len(a)] - ta[i - 1] = 0
              BY <1>1, <1>6, <2>2
        <4> QED BY <2>0, <4>1
      <3> HIDE DEF t
      <3> QED BY <3>1, <3>2 DEF AddAtom
    <2> QED BY <2>1, <2>2
  <1> HIDE DEF t
  <1>12. Len(c) \in Nat
         BY <1>1
  <1>13. PICK u : u = t
         OBVIOUS
  <1>14. /\ Steps(u, Len(c)) /\ u[0] = [atoms |-> 0, missing |-> Length(a)]
         /\ \A i \in 1 .. Len(c) : u[i] = AddAtom(u[i - 1], c[i])
         BY <1>8, <1>9, <1>11, <1>13
  <1>15. Span(c, Length(a)) = u[Len(c)]
         BY <1>12, <1>14, SpanTrace
  <1> QED BY <1>10, <1>13, <1>15

(* A reader that takes as many bytes as that gets the first string, and    *)
(* goes on at the second                                                   *)
LEMMA TakeIs ==
  ASSUME NEW a, NEW b, NEW got, ByteString(a), ByteString(b)
  PROVE  Take(At(a \o b, got), Length(a)) = At(b, a)
  <1> PICK r : r = At(a \o b, got)
      OBVIOUS
  <1>1. r.rest = a \o b /\ r.got = got /\ r.ok
        BY Parts, ZenonT(30)
  <1>2. Span(r.rest, Length(a)) = [atoms |-> Len(a), missing |-> 0]
        BY <1>1, SpanIs
  <1>3. /\ SubSeq(a \o b, 1, Len(a)) = a
        /\ SubSeq(a \o b, Len(a) + 1, Len(a \o b)) = b
        BY PartsOfJoin
  <1>4. Take(r, Length(a)) = [r EXCEPT !.rest = SubSeq(r.rest, Len(a) + 1, Len(r.rest)), !.got = SubSeq(r.rest, 1, Len(a))]
        BY <1>1, <1>2 DEF Take, CutAt
  <1>5. Take(r, Length(a)) = [r EXCEPT !.rest = b, !.got = a]
        BY <1>1, <1>3, <1>4
  <1> QED BY <1>5 DEF At

-----------------------------------------------------------------------------
(* Numbers *)

(* A byte is one byte wide *)
LEMMA WidthOfByte ==
  ASSUME NEW n
  PROVE  Width(Byte(n)) = 1 /\ Byte(n)[1] = "byte" /\ Byte(n)[2] = n
  BY DEF Width, Byte

(* A sequence of n bytes is a string of length n *)
LEMMA BytesAreStrings ==
  ASSUME NEW n \in Nat, NEW b
  PROVE  LET s == [i \in 1 .. n |-> Byte(b[i])]
         IN ByteString(s) /\ Length(s) = n /\ Len(s) = n
  <1> DEFINE s == [i \in 1 .. n |-> Byte(b[i])]
             S == {Byte(b[i]) : i \in 1 .. n}
  <1>1. s \in Seq(S) /\ Len(s) = n /\ DOMAIN s = 1 .. n
        OBVIOUS
  <1>2. \A i \in 1 .. n : Width(s[i]) = 1
        BY WidthOfByte
  <1>3. s \in Seq(Range(s))
        BY <1>1, SeqOfRange
  <1> HIDE DEF s
  <1>4. ByteString(s)
        BY <1>1, <1>2, <1>3 DEF ByteString
  <1> DEFINE t == [i \in 0 .. Len(s) |-> i]
  <1>5. Steps(t, Len(s)) /\ t[0] = 0 /\ t[Len(s)] = n
        BY <1>1 DEF Steps
  <1>6. \A i \in 1 .. Len(s) : t[i] = t[i - 1] + Width(s[i])
        BY <1>1, <1>2
  <1> HIDE DEF t
  <1>7. Length(s) = t[Len(s)]
        BY <1>1, <1>5, <1>6, LengthTrace
  <1> QED BY <1>1, <1>4, <1>5, <1>7 DEF s

(* A number written little-endian fills the bytes it is given *)
LEMMA LEIsString ==
  ASSUME NEW n, NEW size \in Nat
  PROVE  ByteString(LE(n, size)) /\ Length(LE(n, size)) = size /\ Len(LE(n, size)) = size
  <1> DEFINE b == [i \in 1 .. size |-> IF i <= 4 THEN (n \div 256 ^ (i - 1)) % 256 ELSE 0]
  <1>1. LE(n, size) = [i \in 1 .. size |-> Byte(b[i])]
        BY DEF LE
  <1> HIDE DEF b
  <1> QED BY <1>1, BytesAreStrings

(* A trace of AddByte ends in the number that FromLE reads *)
LEMMA FromLETrace ==
  ASSUME NEW b, Len(UpTo(Len(b))) \in Nat,
         NEW t, Steps(t, Len(UpTo(Len(b)))), t[0] = 0,
         \A i \in 1 .. Len(UpTo(Len(b))) : t[i] = AddByte(b, t[i - 1], UpTo(Len(b))[i])
  PROVE  FromLE(b) = t[Len(UpTo(Len(b)))]
  <1> DEFINE Step(i, r) == CHOOSE v \in {AddByte(b, q, UpTo(Len(b))[i]) : q \in {r}} : TRUE
             Trace(g) == g = [i \in 0 .. Len(UpTo(Len(b))) |-> IF i = 0 THEN 0 ELSE Step(i, g[i - 1])]
             Result == CHOOSE g : Trace(g)
  <1>1. \A i, r : Step(i, r) = AddByte(b, r, UpTo(Len(b))[i])
        BY Zenon
  <1>2. \A i \in 1 .. Len(UpTo(Len(b))) : t[i] = Step(i, t[i - 1])
        BY <1>1
  <1>3. FromLE(b) = Result[Len(UpTo(Len(b)))]
        BY Zenon DEF FromLE, Fold
  <1> HIDE DEF Step
  <1>4. Trace(t)
    <2>1. \A i \in 0 .. Len(UpTo(Len(b))) : t[i] = IF i = 0 THEN 0 ELSE Step(i, t[i - 1])
          BY <1>2
    <2> QED BY <2>1, Zenon DEF Steps
  <1>5. Trace(Result)
        BY <1>4, Zenon
  <1> HIDE DEF Result
  <1>6. \A i \in 0 .. Len(UpTo(Len(b))) : Result[i] = IF i = 0 THEN 0 ELSE Step(i, Result[i - 1])
        BY <1>5
  <1> HIDE DEF Trace
  <1>7. Alike(Result, t, Len(UpTo(Len(b))))
        BY <1>2, <1>6 DEF Alike
  <1> QED BY <1>3, <1>7, SameTrace

(* The powers of 256 that the widths in use need *)
LEMMA Powers == 256 ^ 0 = 1 /\ 256 ^ 1 = 256 /\ 256 ^ 2 = 65536 /\ 256 ^ 3 = 16777216
  <1>1. 256 ^ 0 = 1
        BY SMT
  <1>2. 256 ^ 1 = 256
        BY SMT
  <1>3. 256 ^ 2 = 65536
        BY SMT
  <1>4. 256 ^ 3 = 16777216
        BY SMT
  <1> QED BY <1>1, <1>2, <1>3, <1>4, SMT

Digit(n, i) == CASE i = 1 -> n % 256
                 [] i = 2 -> (n \div 256) % 256
                 [] i = 3 -> (n \div 65536) % 256
                 [] i = 4 -> (n \div 16777216) % 256
                 [] OTHER -> 0
Low(n, i) == CASE i = 0 -> 0
               [] i = 1 -> n % 256
               [] i = 2 -> n % 65536
               [] i = 3 -> n % 16777216
               [] OTHER -> n

(* The i-th byte written is the i-th digit of base 256 *)
LEMMA DigitsOfLE ==
  ASSUME NEW n \in Nat, NEW size \in Nat, NEW i \in 1 .. size
  PROVE  LE(n, size)[i] = Byte(Digit(n, i))
  <1>1. LE(n, size)[i] = Byte(IF i <= 4 THEN (n \div 256 ^ (i - 1)) % 256 ELSE 0)
        BY DEF LE
  <1>2. n \div 1 = n
        BY SMT
  <1>3. CASE i = 1
        BY <1>1, <1>2, <1>3, Powers, SMT DEF Digit
  <1>4. CASE i = 2
        BY <1>1, <1>4, Powers, SMT DEF Digit
  <1>5. CASE i = 3
        BY <1>1, <1>5, Powers, SMT DEF Digit
  <1>6. CASE i = 4
        BY <1>1, <1>6, Powers, SMT DEF Digit
  <1>7. CASE i > 4
        BY <1>1, <1>7, SMT DEF Digit
  <1> QED BY <1>3, <1>4, <1>5, <1>6, <1>7

(* A number that the wire can hold is a natural number *)
LEMMA NumberIsNat ==
  ASSUME NEW n \in Number
  PROVE  n \in Nat
  BY SMT DEF Number

(* Numbers put together from their digits, two ... *)
LEMMA TwoBytes ==
  ASSUME NEW n \in Nat
  PROVE  n % 65536 = (n % 256) + ((n \div 256) % 256) * 256
  BY SMT

(* ... three ... *)
LEMMA ThreeBytes ==
  ASSUME NEW n \in Nat
  PROVE  n % 16777216 = (n % 65536) + ((n \div 65536) % 256) * 65536
  BY SMT

(* ... and four bytes wide *)
LEMMA FourBytes ==
  ASSUME NEW n \in Number
  PROVE  n = (n % 16777216) + ((n \div 16777216) % 256) * 16777216
  BY SMT DEF Number

(* What the first i bytes hold is a natural number *)
LEMMA LowIsNat ==
  ASSUME NEW n \in Nat, NEW i \in Nat
  PROVE  Low(n, i) \in Nat /\ Digit(n, i) \in Nat
  BY SMT DEF Low, Digit

(* Each byte adds its digit, and a digit 0 adds nothing *)
LEMMA LowGrows ==
  ASSUME NEW n \in Number, NEW i \in Nat \ {0}
  PROVE  Low(n, i) = IF Digit(n, i) = 0 THEN Low(n, i - 1)
                     ELSE Low(n, i - 1) + Digit(n, i) * 256 ^ (i - 1)
  <1>0. n \in Nat
        BY NumberIsNat
  <1> PICK digit, low, p : digit = Digit(n, i) /\ low = Low(n, i - 1) /\ p = 256 ^ (i - 1)
      OBVIOUS
  <1>1. low \in Nat
        BY <1>0, LowIsNat
  <1>2. CASE i = 1
    <2>1. Low(n, i) = n % 256 /\ Low(n, i - 1) = 0 /\ Digit(n, i) = n % 256
          BY <1>2, SMT DEF Low, Digit
    <2>2. n % 256 \in Nat /\ p = 1
          BY <1>0, <1>2, Powers, SMT
    <2> HIDE <1>2
    <2> QED BY <1>1, <2>1, <2>2
  <1>3. CASE i = 2
    <2>1. Low(n, i) = n % 65536 /\ low = n % 256 /\ digit = (n \div 256) % 256 /\ p = 256
          BY <1>3, Powers, SMT DEF Low, Digit
    <2>2. Low(n, i) = low + digit * p
          BY <1>0, <2>1, TwoBytes, SMT
    <2> QED BY <1>1, <2>1, <2>2, SMT
  <1>4. CASE i = 3
    <2>1. Low(n, i) = n % 16777216 /\ low = n % 65536 /\ digit = (n \div 65536) % 256 /\ p = 65536
          BY <1>4, Powers, SMT DEF Low, Digit
    <2>2. Low(n, i) = low + digit * p
          BY <1>0, <2>1, ThreeBytes, SMT
    <2> QED BY <1>1, <2>1, <2>2, SMT
  <1>5. CASE i = 4
    <2>1. Low(n, i) = n /\ low = n % 16777216 /\ digit = (n \div 16777216) % 256 /\ p = 16777216
          BY <1>5, Powers, SMT DEF Low, Digit
    <2>2. Low(n, i) = low + digit * p
          BY <2>1, FourBytes, SMT
    <2> QED BY <1>1, <2>1, <2>2, SMT
  <1>6. CASE i > 4
    <2>1. Low(n, i) = n /\ low = n /\ digit = 0
          BY <1>6, SMT DEF Low, Digit
    <2> QED BY <2>1
  <1> QED BY <1>2, <1>3, <1>4, <1>5, <1>6

(* A number is read back from as many bytes as hold all of it *)
LEMMA FromLEOfLE ==
  ASSUME NEW n \in Number, NEW size \in Nat, Low(n, size) = n
  PROVE  FromLE(LE(n, size)) = n
  <1>0. n \in Nat
        BY NumberIsNat
  <1> PICK b : b = LE(n, size)
      OBVIOUS
  <1>1. Len(b) = size
        BY LEIsString
  <1>2. \A i \in 1 .. size : b[i][2] = Digit(n, i)
    <2> TAKE i \in 1 .. size
    <2>1. b[i] = Byte(Digit(n, i))
          BY <1>0, DigitsOfLE
    <2> QED BY <2>1, WidthOfByte
  <1> DEFINE s == UpTo(Len(b))
             t == [i \in 0 .. Len(s) |-> Low(n, i)]
  <1>3. Len(s) = size /\ Len(s) \in Nat /\ \A i \in 1 .. size : s[i] = i
        BY <1>1 DEF UpTo
  <1> HIDE DEF s
  <1>4. Steps(t, Len(s))
        BY DEF Steps
  <1>5. t[0] = 0
    <2>1. Low(n, 0) = 0
          BY SMT DEF Low
    <2> QED BY <1>3, <2>1
  <1>6. t[Len(s)] = n
        BY <1>3
  <1>7. ASSUME NEW i \in 1 .. Len(s) PROVE t[i] = AddByte(b, t[i - 1], s[i])
    <2>1. i \in 1 .. size /\ i \in Nat \ {0} /\ i \in 0 .. Len(s) /\ i - 1 \in 0 .. Len(s) /\ i \in Nat /\ i - 1 \in Nat
          BY <1>3
    <2>2. Low(n, i) = IF Digit(n, i) = 0 THEN Low(n, i - 1) ELSE Low(n, i - 1) + Digit(n, i) * 256 ^ (i - 1)
          BY <2>1, LowGrows
    <2>3. t[i] = Low(n, i) /\ t[i - 1] = Low(n, i - 1) /\ s[i] = i /\ b[i][2] = Digit(n, i)
          BY <2>1, <1>2, <1>3
    <2> HIDE DEF t
    <2> QED BY <2>2, <2>3 DEF AddByte
  <1> HIDE DEF t
  <1>9. FromLE(b) = t[Len(UpTo(Len(b)))]
        BY <1>3, <1>4, <1>5, <1>7, FromLETrace DEF s
  <1> QED BY <1>6, <1>9 DEF s

-----------------------------------------------------------------------------
(* What a reader takes *)

(* How many bytes hold all of a number *)
LEMMA LowOfSmall ==
  ASSUME NEW n \in Number
  PROVE  /\ n < 256 => Low(n, 1) = n /\ Digit(n, 1) = n
         /\ n <= 65535 => Low(n, 2) = n
         /\ n < 16777216 => Low(n, 3) = n
         /\ Low(n, 4) = n /\ Low(n, 8) = n
  <1>0. n \in Nat
        BY NumberIsNat
  <1>1. n < 256 => n % 256 = n
        BY <1>0, SMT
  <1>2. n <= 65535 => n % 65536 = n
        BY <1>0, SMT
  <1>3. n < 16777216 => n % 16777216 = n
        BY <1>0, SMT
  <1>4. /\ Low(n, 1) = n % 256 /\ Digit(n, 1) = n % 256 /\ Low(n, 2) = n % 65536
        /\ Low(n, 3) = n % 16777216 /\ Low(n, 4) = n /\ Low(n, 8) = n
        BY SMT DEF Low, Digit
  <1> QED BY <1>1, <1>2, <1>3, <1>4, SMT

(* One byte is a string *)
LEMMA ByteIsString ==
  ASSUME NEW n
  PROVE  ByteString(<<Byte(n)>>) /\ Length(<<Byte(n)>>) = 1 /\ <<Byte(n)>>[1] = Byte(n)
  <1>1. Width(Byte(n)) \in Nat \ {0} /\ Width(Byte(n)) = 1
        BY WidthOfByte
  <1> QED BY <1>1, AtomString

(* A reader takes one byte *)
LEMMA TakeByte ==
  ASSUME NEW n, NEW b, NEW got, ByteString(b)
  PROVE  Take(At(<<Byte(n)>> \o b, got), 1) = At(b, <<Byte(n)>>)
  BY ByteIsString, TakeIs

(* The number a reader has got *)
LEMMA NumberOfAt ==
  ASSUME NEW b, NEW got
  PROVE  NumberOf(At(b, got)) = At(b, FromLE(got))
  BY DEF NumberOf, At

(* A reader takes a number written little-endian *)
LEMMA TakeNumber ==
  ASSUME NEW n \in Number, NEW size \in Nat, Low(n, size) = n, NEW b, NEW got, ByteString(b)
  PROVE  NumberOf(Take(At(LE(n, size) \o b, got), size)) = At(b, n)
  <1>1. Take(At(LE(n, size) \o b, got), size) = At(b, LE(n, size))
        BY LEIsString, TakeIs
  <1>2. FromLE(LE(n, size)) = n
        BY FromLEOfLE
  <1> QED BY <1>1, <1>2, NumberOfAt

(* A varint takes one, three or five bytes *)
LEMMA VarIntIsString ==
  ASSUME NEW n \in Number
  PROVE  ByteString(VarInt(n)) /\ Length(VarInt(n)) \in {1, 3, 5}
  <1>0. n \in Nat
        BY NumberIsNat
  <1>1. CASE n < 253
    <2>1. VarInt(n) = LE(n, 1)
          BY <1>0, <1>1, SMT DEF VarInt
    <2> QED BY <2>1, LEIsString
  <1>2. CASE n >= 253 /\ n <= 65535
    <2>1. VarInt(n) = <<Byte(253)>> \o LE(n, 2)
          BY <1>0, <1>2, SMT DEF VarInt
    <2> HIDE <1>2
    <2>2. ByteString(LE(n, 2)) /\ Length(LE(n, 2)) = 2
          BY LEIsString
    <2>3. 1 + 2 = 3
          OBVIOUS
    <2> QED BY <2>1, <2>2, <2>3, ByteIsString, JoinedStrings
  <1>3. CASE n > 65535
    <2>1. VarInt(n) = <<Byte(254)>> \o LE(n, 4)
          BY <1>0, <1>3, SMT DEF VarInt
    <2> HIDE <1>3
    <2>2. ByteString(LE(n, 4)) /\ Length(LE(n, 4)) = 4
          BY LEIsString
    <2>3. 1 + 4 = 5
          OBVIOUS
    <2> QED BY <2>1, <2>2, <2>3, ByteIsString, JoinedStrings
  <1> QED BY <1>0, <1>1, <1>2, <1>3, SMT

(* A varint is read back, whichever of its forms it has *)
LEMMA VarIntIs ==
  ASSUME NEW n \in Number, NEW b, NEW got, ByteString(b)
  PROVE  ReadVarInt(At(VarInt(n) \o b, got)) = At(b, n)
  <1>0. n \in Nat
        BY NumberIsNat
  <1>1. CASE n < 253
    <2>1. VarInt(n) = LE(n, 1) /\ Low(n, 1) = n /\ Digit(n, 1) = n
          BY <1>0, <1>1, LowOfSmall, SMT DEF VarInt
    <2>2. Take(At(VarInt(n) \o b, got), 1) = At(b, LE(n, 1))
          BY <2>1, LEIsString, TakeIs
    <2>3. LE(n, 1)[1] = Byte(n)
      <3>1. 1 \in 1 .. 1 /\ 1 \in Nat
            OBVIOUS
      <3> QED BY <1>0, <2>1, <3>1, DigitsOfLE
    <2>4. At(b, LE(n, 1)).ok /\ At(b, LE(n, 1)).got[1][2] = n
          BY <2>3, WidthOfByte, Parts
    <2>5. ReadVarInt(At(VarInt(n) \o b, got)) = VarIntFrom(At(b, LE(n, 1)), n)
          BY <2>2, <2>4 DEF ReadVarInt, VarIntAt
    <2>6. @ = NumberOf(At(b, LE(n, 1)))
          BY <1>0, <1>1, SMT DEF VarIntFrom
    <2>7. FromLE(LE(n, 1)) = n
          BY <2>1, FromLEOfLE
    <2> QED BY <2>5, <2>6, <2>7, NumberOfAt
  <1>2. CASE n >= 253 /\ n <= 65535
    <2>1. VarInt(n) = <<Byte(253)>> \o LE(n, 2) /\ Low(n, 2) = n
      <3>1. VarInt(n) = <<Byte(253)>> \o LE(n, 2)
            BY <1>0, <1>2, SMT DEF VarInt
      <3>2. Low(n, 2) = n
            BY <1>2, LowOfSmall, SMT
      <3> HIDE <1>2
      <3> QED BY <3>1, <3>2
    <2> HIDE <1>2
    <2>2. VarInt(n) \o b = <<Byte(253)>> \o (LE(n, 2) \o b) /\ ByteString(LE(n, 2) \o b)
          BY <2>1, LEIsString, ByteIsString, JoinAssociates, JoinedStrings
    <2>3. Take(At(VarInt(n) \o b, got), 1) = At(LE(n, 2) \o b, <<Byte(253)>>)
          BY <2>2, TakeByte
    <2>4. ReadVarInt(At(VarInt(n) \o b, got)) = VarIntFrom(At(LE(n, 2) \o b, <<Byte(253)>>), 253)
      <3> DEFINE first == At(LE(n, 2) \o b, <<Byte(253)>>)
      <3>1. first.ok /\ first.got[1][2] = 253
            BY ByteIsString, WidthOfByte, Parts
      <3> QED BY <2>3, <3>1 DEF ReadVarInt, VarIntAt
    <2>5. @ = NumberOf(Take(At(LE(n, 2) \o b, <<Byte(253)>>), 2))
          BY SMT DEF VarIntFrom
    <2>6. @ = At(b, n)
          BY <2>1, TakeNumber
    <2> QED BY <2>4, <2>5, <2>6
  <1>3. CASE n > 65535
    <2>1. VarInt(n) = <<Byte(254)>> \o LE(n, 4) /\ Low(n, 4) = n
      <3>1. VarInt(n) = <<Byte(254)>> \o LE(n, 4)
            BY <1>0, <1>3, SMT DEF VarInt
      <3>2. Low(n, 4) = n
            BY LowOfSmall, SMT
      <3> HIDE <1>3
      <3> QED BY <3>1, <3>2
    <2> HIDE <1>3
    <2>2. VarInt(n) \o b = <<Byte(254)>> \o (LE(n, 4) \o b) /\ ByteString(LE(n, 4) \o b)
          BY <2>1, LEIsString, ByteIsString, JoinAssociates, JoinedStrings
    <2>3. Take(At(VarInt(n) \o b, got), 1) = At(LE(n, 4) \o b, <<Byte(254)>>)
          BY <2>2, TakeByte
    <2>4. ReadVarInt(At(VarInt(n) \o b, got)) = VarIntFrom(At(LE(n, 4) \o b, <<Byte(254)>>), 254)
      <3> DEFINE first == At(LE(n, 4) \o b, <<Byte(254)>>)
      <3>1. first.ok /\ first.got[1][2] = 254
            BY ByteIsString, WidthOfByte, Parts
      <3> QED BY <2>3, <3>1 DEF ReadVarInt, VarIntAt
    <2>5. @ = NumberOf(Take(At(LE(n, 4) \o b, <<Byte(254)>>), 4))
          BY SMT DEF VarIntFrom
    <2>6. @ = At(b, n)
          BY <2>1, TakeNumber
    <2> QED BY <2>4, <2>5, <2>6
  <1> QED BY <1>0, <1>1, <1>2, <1>3, SMT

(* A string that its length goes before *)
Counted(s) == VarInt(Length(s)) \o s

(* A string is read back after the varint of its length *)
LEMMA ScriptIs ==
  ASSUME NEW s, NEW b, NEW got, ByteString(s), ByteString(b), Length(s) \in Number
  PROVE  /\ Script(At(Counted(s) \o b, got)) = At(b, s)
         /\ ByteString(Counted(s))
  <1>1. ByteString(VarInt(Length(s))) /\ ByteString(s \o b)
        BY VarIntIsString, JoinedStrings
  <1>2. Counted(s) \o b = VarInt(Length(s)) \o (s \o b)
        BY <1>1, JoinAssociates DEF Counted
  <1>3. ReadVarInt(At(Counted(s) \o b, got)) = At(s \o b, Length(s))
        BY <1>1, <1>2, VarIntIs
  <1>4. Script(At(Counted(s) \o b, got)) = Take(At(s \o b, Length(s)), Length(s))
        BY <1>3, Parts DEF Script, TakeCounted
  <1>5. @ = At(b, s)
        BY TakeIs
  <1> QED BY <1>1, <1>4, <1>5, JoinedStrings DEF Counted

-----------------------------------------------------------------------------
(* Joined strings *)

(* Concatenation under a name of its own, for the provers to leave alone *)
Join(a, b) == a \o b

(* JoinedStrings, of Join *)
LEMMA JoinIs ==
  ASSUME NEW a, NEW b, ByteString(a), ByteString(b)
  PROVE  ByteString(Join(a, b)) /\ Length(Join(a, b)) = Length(a) + Length(b)
  BY JoinedStrings DEF Join

(* JoinAssociates, of Join *)
LEMMA JoinRegroups ==
  ASSUME NEW a, NEW b, NEW c, ByteString(a), ByteString(b), ByteString(c)
  PROVE  Join(Join(a, b), c) = Join(a, Join(b, c))
  BY JoinAssociates DEF Join

Strings(seqs) ==
  /\ Len(seqs) \in Nat /\ seqs = [i \in 1 .. Len(seqs) |-> seqs[i]]
  /\ \A i \in 1 .. Len(seqs) : ByteString(seqs[i])

(* The joined strings of a sequence, from its first item on                *)
IsHeads(t, seqs, n) ==
  /\ t = [i \in 0 .. n |-> t[i]] /\ t[0] = <<>>
  /\ \A i \in 0 .. n : ByteString(t[i])
  /\ \A i \in 1 .. n : t[i] = t[i - 1] \o seqs[i]

(* ... and from its last item back *)
IsTails(u, seqs, n) ==
  /\ u[0] = <<>>
  /\ \A i \in 0 .. n : ByteString(u[i])
  /\ \A i \in 1 .. n : u[i] = seqs[Len(seqs) - i + 1] \o u[i - 1]

(* A sequence of strings has such joined strings ... *)
LEMMA HeadsExist ==
  ASSUME NEW seqs, Strings(seqs)
  PROVE  \E t : IsHeads(t, seqs, Len(seqs))
  <1> DEFINE Good(n) == \E t : IsHeads(t, seqs, n)
             Bad == {n \in 0 .. Len(seqs) : ~Good(n)}
  <1> HIDE DEF Good
  <1>0. Len(seqs) \in Nat
        BY DEF Strings
  <1> SUFFICES ASSUME Bad # {} PROVE FALSE
      BY <1>0 DEF Good
  <1>1. Bad \in SUBSET Nat
        OBVIOUS
  <1> HIDE DEF Bad
  <1>2. PICK m \in Bad : \A l \in Bad : m <= l
        BY <1>1, LeastNatural
  <1> USE DEF Bad
  <1>3. CASE m = 0
    <2> DEFINE t == [i \in 0 .. 0 |-> <<>>]
    <2>1. t = [i \in 0 .. m |-> t[i]] /\ t[0] = <<>> /\ 1 .. m = {}
          BY <1>3
    <2>2. \A i \in 0 .. m : t[i] = <<>>
          BY <1>3
    <2> HIDE DEF t
    <2>3. IsHeads(t, seqs, m)
          BY <2>1, <2>2, EmptyString DEF IsHeads
    <2>4. Good(m)
          BY <2>3, Zenon DEF Good
    <2> QED BY <2>4
  <1>4. CASE m # 0
    <2>1. m \in 1 .. Len(seqs) /\ m - 1 \in 0 .. Len(seqs) /\ m - 1 \notin Bad
          BY <1>2, <1>4, <1>0
    <2>2. PICK t : IsHeads(t, seqs, m - 1)
          BY <2>1 DEF Good
    <2> DEFINE u == [i \in 0 .. m |-> IF i = m THEN t[m - 1] \o seqs[m] ELSE t[i]]
    <2>3. u = [i \in 0 .. m |-> u[i]] /\ u[0] = <<>> /\ u[m] = t[m - 1] \o seqs[m]
          BY <2>1, <2>2 DEF IsHeads
    <2>4. \A i \in 0 .. m - 1 : u[i] = t[i]
          BY <2>1
    <2> HIDE DEF u
    <2>5. \A i \in 0 .. m : ByteString(u[i])
      <3>1. ByteString(u[m])
        <4>1. ByteString(t[m - 1])
              BY <2>1, <2>2 DEF IsHeads
        <4>2. ByteString(seqs[m])
              BY <2>1 DEF Strings
        <4>3. ByteString(t[m - 1] \o seqs[m])
              BY <4>1, <4>2, JoinedStrings
        <4> QED BY <2>3, <4>3
      <3>2. \A i \in 0 .. m - 1 : ByteString(u[i])
            BY <2>2, <2>4 DEF IsHeads
      <3> QED BY <2>1, <3>1, <3>2
    <2>6. \A i \in 1 .. m : u[i] = u[i - 1] \o seqs[i]
      <3> TAKE i \in 1 .. m
      <3>1. CASE i = m
        <4>1. m - 1 \in 0 .. m - 1
              BY <2>1
        <4> QED BY <2>3, <2>4, <3>1, <4>1
      <3>2. CASE i # m
        <4>1. i \in 1 .. m - 1 /\ i \in 0 .. m - 1 /\ i - 1 \in 0 .. m - 1
              BY <2>1, <3>2
        <4> QED BY <2>2, <2>4, <4>1 DEF IsHeads
      <3> QED BY <3>1, <3>2
    <2>7. IsHeads(u, seqs, m)
          BY <2>3, <2>5, <2>6 DEF IsHeads
    <2>8. Good(m)
          BY <2>7, Zenon DEF Good
    <2> QED BY <2>8
  <1> QED BY <1>3, <1>4

(* ... from either end ... *)
LEMMA TailsExist ==
  ASSUME NEW seqs, Strings(seqs)
  PROVE  \E u : IsTails(u, seqs, Len(seqs))
  <1> DEFINE Good(n) == \E t : IsTails(t, seqs, n)
             Bad == {n \in 0 .. Len(seqs) : ~Good(n)}
  <1> HIDE DEF Good
  <1>0. Len(seqs) \in Nat
        BY DEF Strings
  <1> SUFFICES ASSUME Bad # {} PROVE FALSE
      BY <1>0 DEF Good
  <1>1. Bad \in SUBSET Nat
        OBVIOUS
  <1> HIDE DEF Bad
  <1>2. PICK m \in Bad : \A l \in Bad : m <= l
        BY <1>1, LeastNatural
  <1> USE DEF Bad
  <1>3. CASE m = 0
    <2> DEFINE t == [i \in 0 .. 0 |-> <<>>]
    <2>1. t[0] = <<>> /\ 1 .. m = {}
          BY <1>3
    <2>2. \A i \in 0 .. m : t[i] = <<>>
          BY <1>3
    <2> HIDE DEF t
    <2>3. IsTails(t, seqs, m)
          BY <2>1, <2>2, EmptyString DEF IsTails
    <2>4. Good(m)
          BY <2>3, Zenon DEF Good
    <2> QED BY <2>4
  <1>4. CASE m # 0
    <2>1. m \in 1 .. Len(seqs) /\ m - 1 \in 0 .. Len(seqs) /\ m - 1 \notin Bad
          BY <1>2, <1>4, <1>0
    <2>2. PICK t : IsTails(t, seqs, m - 1)
          BY <2>1 DEF Good
    <2> PICK k : k = Len(seqs) - m + 1
        OBVIOUS
    <2> DEFINE u == [i \in 0 .. m |-> IF i = m THEN seqs[k] \o t[m - 1] ELSE t[i]]
    <2>3. u[0] = <<>> /\ u[m] = seqs[k] \o t[m - 1]
      <3>1. t[0] = <<>>
            BY <2>2 DEF IsTails
      <3>2. 0 \in 0 .. m /\ m \in 0 .. m /\ 0 # m
            BY <2>1
      <3>3. u[0] = t[0]
            BY <3>2
      <3>4. u[m] = seqs[k] \o t[m - 1]
            BY <3>2
      <3> HIDE DEF u
      <3> QED BY <3>1, <3>3, <3>4
    <2>4. \A i \in 0 .. m - 1 : u[i] = t[i]
          BY <2>1
    <2> HIDE DEF u
    <2>5. \A i \in 0 .. m : ByteString(u[i])
      <3>1. ByteString(u[m])
        <4>1. ByteString(t[m - 1])
              BY <2>1, <2>2 DEF IsTails
        <4>2. ByteString(seqs[k])
          <5>1. k \in 1 .. Len(seqs)
                BY <1>0, <2>1
          <5> QED BY <5>1 DEF Strings
        <4> QED BY <2>3, <4>1, <4>2, JoinedStrings
      <3>2. \A i \in 0 .. m - 1 : ByteString(u[i])
            BY <2>2, <2>4 DEF IsTails
      <3> QED BY <2>1, <3>1, <3>2
    <2>6. \A i \in 1 .. m : u[i] = seqs[Len(seqs) - i + 1] \o u[i - 1]
      <3> TAKE i \in 1 .. m
      <3>1. CASE i = m
        <4>1. m - 1 \in 0 .. m - 1
              BY <2>1
        <4> QED BY <2>3, <2>4, <3>1, <4>1
      <3>2. CASE i # m
        <4>1. i \in 1 .. m - 1 /\ i \in 0 .. m - 1 /\ i - 1 \in 0 .. m - 1
              BY <2>1, <3>2
        <4> QED BY <2>2, <2>4, <4>1 DEF IsTails
      <3> QED BY <3>1, <3>2
    <2>7. IsTails(u, seqs, m)
          BY <2>3, <2>5, <2>6 DEF IsTails
    <2>8. Good(m)
          BY <2>7, Zenon DEF Good
    <2> QED BY <2>8
  <1> QED BY <1>3, <1>4

(* ... and FlattenSeq is the longest of them *)
LEMMA FlattenIs ==
  ASSUME NEW seqs, Strings(seqs), NEW t, IsHeads(t, seqs, Len(seqs))
  PROVE  FlattenSeq(seqs) = t[Len(seqs)]
  <1>0. Len(seqs) \in Nat
        BY DEF Strings
  <1>1. CASE Len(seqs) = 0
    <2>1. seqs = <<>>
          BY <1>1 DEF Strings
    <2> QED BY <1>1, <2>1 DEF FlattenSeq, IsHeads
  <1>2. CASE Len(seqs) # 0
    <2> DEFINE Trace(g) == g = [i \in 1 .. Len(seqs) |-> IF i = 1 THEN seqs[i] ELSE g[i - 1] \o seqs[i]]
               Result == CHOOSE g : Trace(g)
               u == [i \in 1 .. Len(seqs) |-> t[i]]
    <2>1. FlattenSeq(seqs) = Result[Len(seqs)]
          BY <1>2, Zenon DEF FlattenSeq
    <2>2. \A i \in 1 .. Len(seqs) : t[i] = IF i = 1 THEN seqs[i] ELSE t[i - 1] \o seqs[i]
      <3> TAKE i \in 1 .. Len(seqs)
      <3>1. t[i] = t[i - 1] \o seqs[i] /\ ByteString(seqs[i])
            BY DEF IsHeads, Strings
      <3>2. i = 1 => t[i - 1] = <<>>
            BY DEF IsHeads
      <3> QED BY <3>1, <3>2, JoinNothing
    <2>3. Trace(u)
          BY <1>0, <2>2
    <2>4. Trace(Result)
          BY <2>3, Zenon
    <2> HIDE DEF Result
    <2>5. \A i \in 1 .. Len(seqs) : Result[i] = IF i = 1 THEN seqs[i] ELSE Result[i - 1] \o seqs[i]
          BY <2>4
    <2> HIDE DEF Trace
    <2> DEFINE g == [i \in 0 .. Len(seqs) |-> IF i = 0 THEN <<>> ELSE Result[i]]
    <2>6. Alike(g, t, Len(seqs))
      <3>1. g[0] = t[0]
            BY <1>0 DEF IsHeads
      <3>2. ASSUME NEW i \in 1 .. Len(seqs), g[i - 1] = t[i - 1] PROVE g[i] = t[i]
        <4>1. i \in 0 .. Len(seqs) /\ i - 1 \in 0 .. Len(seqs) /\ i # 0 /\ (i # 1 => i - 1 # 0)
              BY <1>0
        <4>2. g[i] = Result[i] /\ (i # 1 => g[i - 1] = Result[i - 1])
              BY <4>1
        <4> HIDE DEF g
        <4> QED BY <2>2, <2>5, <3>2, <4>2
      <3> HIDE DEF g
      <3> QED BY <3>1, <3>2 DEF Alike
    <2>7. g[Len(seqs)] = Result[Len(seqs)] /\ Len(seqs) \in 0 .. Len(seqs)
          BY <1>0, <1>2
    <2> HIDE DEF g
    <2>8. g[Len(seqs)] = t[Len(seqs)]
          BY <1>0, <2>6, <2>7, SameTrace
    <2> QED BY <2>1, <2>7, <2>8
  <1> QED BY <1>1, <1>2

(* What is left of the joined strings after the first i of them *)
Left(u, seqs) ==
  /\ u[0] = FlattenSeq(seqs) /\ u[Len(seqs)] = <<>>
  /\ \A i \in 0 .. Len(seqs) : ByteString(u[i])
  /\ \A i \in 1 .. Len(seqs) : u[i - 1] = seqs[i] \o u[i]

(* So there is, for each item, a string left after it *)
LEMMA LeftExists ==
  ASSUME NEW seqs, Strings(seqs)
  PROVE  \E u : Left(u, seqs)
  <1>0. Len(seqs) \in Nat
        BY DEF Strings
  <1> PICK n \in Nat : n = Len(seqs)
      BY <1>0
  <1>1. PICK t : IsHeads(t, seqs, n)
        BY HeadsExist
  <1>2. PICK v : IsTails(v, seqs, n)
        BY TailsExist
  <1>3. FlattenSeq(seqs) = t[n]
        BY <1>1, FlattenIs
  <1> DEFINE u == [i \in 0 .. n |-> v[n - i]]
  <1>4. \A i \in 0 .. n : u[i] = v[n - i] /\ n - i \in 0 .. n
        OBVIOUS
  <1> HIDE DEF u
  <1>5. \A i \in 0 .. n : ByteString(u[i])
        BY <1>2, <1>4 DEF IsTails
  <1>6. \A i \in 1 .. n : u[i - 1] = seqs[i] \o u[i]
    <2> TAKE i \in 1 .. n
    <2> PICK k : k = n - (i - 1)
        OBVIOUS
    <2>1. k \in 1 .. n /\ k - 1 = n - i /\ n - k + 1 = i /\ i - 1 \in 0 .. n /\ i \in 0 .. n
          OBVIOUS
    <2>2. v[k] = seqs[i] \o v[k - 1]
          BY <1>2, <2>1 DEF IsTails
    <2> QED BY <1>4, <2>1, <2>2
  <1>7. u[n] = <<>>
    <2>1. n \in 0 .. n /\ n - n = 0
          OBVIOUS
    <2> QED BY <1>2, <1>4, <2>1 DEF IsTails
  <1> DEFINE Same(i) == t[i] \o u[i] = u[0]
             Bad == {i \in 0 .. n : ~Same(i)}
  <1> HIDE DEF Same
  <1>8. Bad = {}
    <2> SUFFICES ASSUME Bad # {} PROVE FALSE
        OBVIOUS
    <2>1. Bad \in SUBSET Nat
          OBVIOUS
    <2> HIDE DEF Bad
    <2>2. PICK m \in Bad : \A l \in Bad : m <= l
          BY <2>1, LeastNatural
    <2> USE DEF Bad
    <2>3. CASE m = 0
      <3>1. t[0] = <<>> /\ ByteString(u[0])
            BY <1>1, <1>5 DEF IsHeads
      <3>2. Same(0)
            BY <3>1, JoinNothing DEF Same
      <3> QED BY <2>2, <2>3, <3>2
    <2>4. CASE m # 0
      <3>1. m \in 1 .. n /\ m - 1 \in 0 .. n /\ m - 1 \notin Bad
            BY <2>2, <2>4
      <3>2. t[m - 1] \o u[m - 1] = u[0]
            BY <3>1 DEF Same
      <3>3. t[m] = t[m - 1] \o seqs[m] /\ u[m - 1] = seqs[m] \o u[m]
            BY <1>1, <1>6, <3>1 DEF IsHeads
      <3>4. ByteString(t[m - 1]) /\ ByteString(seqs[m]) /\ ByteString(u[m])
            BY <1>1, <1>5, <3>1 DEF IsHeads, Strings
      <3>5. (t[m - 1] \o seqs[m]) \o u[m] = t[m - 1] \o (seqs[m] \o u[m])
        <4>1. PICK a : a = t[m - 1]
              OBVIOUS
        <4>2. PICK b : b = seqs[m]
              OBVIOUS
        <4>3. PICK c : c = u[m]
              OBVIOUS
        <4>4. ByteString(a) /\ ByteString(b) /\ ByteString(c)
              BY <3>4, <4>1, <4>2, <4>3
        <4>5. Join(Join(a, b), c) = Join(a, Join(b, c))
              BY <4>4, JoinRegroups
        <4> QED BY <4>1, <4>2, <4>3, <4>5 DEF Join
      <3>6. Same(m)
            BY <3>2, <3>3, <3>5 DEF Same
      <3> QED BY <2>2, <3>6
    <2> QED BY <2>3, <2>4
  <1>9. u[0] = t[n]
    <2>1. n \in 0 .. n /\ Same(n)
      <3>1. n \in 0 .. n
            OBVIOUS
      <3> QED BY <1>8, <3>1
    <2>2. t[n] \o u[n] = u[0] /\ ByteString(t[n])
          BY <1>1, <2>1 DEF IsHeads, Same
    <2> QED BY <1>7, <2>2, JoinNothing
  <1>10. Left(u, seqs)
         BY <1>3, <1>5, <1>6, <1>7, <1>9 DEF Left
  <1> QED BY <1>10

-----------------------------------------------------------------------------
(* Inputs and outputs *)

(* TakeIs, ... *)
LEMMA TakePart ==
  ASSUME NEW a, NEW b, NEW got, ByteString(a), ByteString(b)
  PROVE  Take(At(Join(a, b), got), Length(a)) = At(b, a)
  BY TakeIs DEF Join

(* ... TakeNumber ... *)
LEMMA NumberPart ==
  ASSUME NEW n \in Number, NEW size \in Nat, Low(n, size) = n, NEW b, NEW got, ByteString(b)
  PROVE  /\ Take(At(Join(LE(n, size), b), got), size) = At(b, LE(n, size))
         /\ FromLE(LE(n, size)) = n
  <1>1. ByteString(LE(n, size)) /\ Length(LE(n, size)) = size
        BY LEIsString
  <1>2. Take(At(Join(LE(n, size), b), got), size) = At(b, LE(n, size))
        BY <1>1, TakePart
  <1> QED BY <1>2, FromLEOfLE

(* ... and ScriptIs with Join *)
LEMMA ScriptPart ==
  ASSUME NEW s, NEW b, NEW got, ByteString(s), ByteString(b), Length(s) \in Number
  PROVE  Script(At(Join(Counted(s), b), got)) = At(b, s) /\ ByteString(Counted(s))
  BY ScriptIs DEF Join

(* The first k items and the next one *)
LEMMA AppendPart ==
  ASSUME NEW s, NEW k \in Nat
  PROVE  Append(Part(s, k), s[k + 1]) = Part(s, k + 1)
  <1> DEFINE S == {s[i] : i \in 1 .. k + 1}
  <1>1. Part(s, k) \in Seq(S) /\ Len(Part(s, k)) = k /\ s[k + 1] \in S /\ \A i \in 1 .. k : Part(s, k)[i] = s[i]
        BY DEF Part
  <1>2. Part(s, k + 1) \in Seq(S) /\ Len(Part(s, k + 1)) = k + 1 /\ \A i \in 1 .. k + 1 : Part(s, k + 1)[i] = s[i]
        BY DEF Part
  <1> HIDE DEF S
  <1> PICK p, q, e : p = Part(s, k) /\ q = Part(s, k + 1) /\ e = s[k + 1]
      OBVIOUS
  <1>3. /\ Append(p, e) \in Seq(S) /\ Len(Append(p, e)) = Len(p) + 1
        /\ \A i \in 1 .. Len(p) : Append(p, e)[i] = p[i]
        /\ Append(p, e)[Len(p) + 1] = e
        BY <1>1, AppendProperties
  <1>4. Len(Append(p, e)) = Len(q) /\ \A i \in 1 .. Len(q) : Append(p, e)[i] = q[i]
    <2>1. Len(p) = k /\ Len(q) = k + 1
          BY <1>1, <1>2
    <2>2. ASSUME NEW i \in 1 .. k + 1 PROVE Append(p, e)[i] = q[i]
      <3>1. CASE i = k + 1
            BY <1>2, <1>3, <2>1, <3>1
      <3>2. CASE i # k + 1
        <4>1. i \in 1 .. k
              BY <3>2
        <4>2. Append(p, e)[i] = p[i] /\ p[i] = s[i] /\ q[i] = s[i]
              BY <1>1, <1>2, <1>3, <2>1, <4>1
        <4> QED BY <4>2
      <3> QED BY <3>1, <3>2
    <2> QED BY <1>3, <2>1, <2>2
  <1> QED BY <1>2, <1>3, <1>4, SeqEqual

TxidString(s) == \E x : s = << <<"txid", x>> >>

InputFits(in) ==
  /\ TxidString(in.txid) /\ in.vout \in Number
  /\ ByteString(in.scriptSig) /\ Length(in.scriptSig) \in Number
OutputFits(out) ==
  /\ out = [value |-> out.value, lock |-> out.lock] /\ out.value \in Number
  /\ ByteString(out.lock) /\ Length(out.lock) \in Number

(* A string of one atom read backwards is that atom turned round *)
LEMMA ReverseAtom ==
  ASSUME NEW a
  PROVE  ReverseBytes(<<a>>) = <<FlipAtom(a)>>
  <1>1. Len(<<a>>) = 1 /\ <<a>>[1] = a
        OBVIOUS
  <1>2. \A i \in 1 .. 1 : Len(<<a>>) + 1 - i = 1
        BY <1>1
  <1>3. ReverseBytes(<<a>>) = [i \in 1 .. 1 |-> FlipAtom(a)]
        BY <1>1, <1>2 DEF ReverseBytes
  <1>4. PICK f : f = FlipAtom(a)
        OBVIOUS
  <1>5. [i \in 1 .. 1 |-> f] = <<f>>
        OBVIOUS
  <1> QED BY <1>3, <1>4, <1>5

(* A txid: 32 bytes, itself when turned round twice, another when once *)
LEMMA TxidIs ==
  ASSUME NEW s, TxidString(s)
  PROVE  /\ ByteString(s) /\ Length(s) = 32
         /\ ByteString(ReverseBytes(s)) /\ Length(ReverseBytes(s)) = 32
         /\ ReverseBytes(ReverseBytes(s)) = s /\ ReverseBytes(s) # s
         /\ ReverseBytes(s) # <<>>
  <1>1. PICK x : s = << <<"txid", x>> >>
        BY DEF TxidString
  <1> PICK a : a = <<"txid", x>>
      OBVIOUS
  <1> PICK r : r = <<"rev", a>>
      OBVIOUS
  <1>2. a[1] = "txid" /\ r[1] = "rev" /\ r[2] = a /\ a # r
        OBVIOUS
  <1>3. FlipAtom(a) = r /\ FlipAtom(r) = a
        BY <1>2 DEF FlipAtom
  <1>4. Width(a) = 32 /\ Width(r) = 32
        BY <1>2 DEF Width
  <1>5. ReverseBytes(s) = <<r>> /\ ReverseBytes(<<r>>) = <<a>> /\ s = <<a>>
        BY <1>1, <1>3, ReverseAtom
  <1>6. 32 \in Nat \ {0}
        OBVIOUS
  <1>7. ByteString(<<a>>) /\ Length(<<a>>) = 32 /\ ByteString(<<r>>) /\ Length(<<r>>) = 32
        BY <1>4, <1>6, AtomString
  <1>8. <<a>> # <<r>> /\ <<r>> # <<>>
        BY <1>2
  <1> QED BY <1>5, <1>7, <1>8

(* An outpoint is 36 bytes *)
LEMMA OutpointIs ==
  ASSUME NEW in, InputFits(in)
  PROVE  /\ ByteString(GetOutpoint(in)) /\ Length(GetOutpoint(in)) = 36
         /\ GetOutpoint(in) = Join(ReverseBytes(in.txid), LE(in.vout, 4))
  <1>1. ByteString(ReverseBytes(in.txid)) /\ Length(ReverseBytes(in.txid)) = 32
        BY TxidIs DEF InputFits
  <1>2. ByteString(LE(in.vout, 4)) /\ Length(LE(in.vout, 4)) = 4
        BY LEIsString
  <1>3. GetOutpoint(in) = Join(ReverseBytes(in.txid), LE(in.vout, 4))
        BY Zenon DEF Join, GetOutpoint
  <1> QED BY <1>1, <1>2, <1>3, JoinIs

(* The bytes of an input, field by field *)
LEMMA InputBytesIs ==
  ASSUME NEW in, InputFits(in)
  PROVE  /\ ByteString(InputBytes(in)) /\ ByteString(Counted(in.scriptSig)) /\ ByteString(LE(in.sequence, 4))
         /\ \A b : ByteString(b) =>
              Join(InputBytes(in), b) = Join(GetOutpoint(in), Join(Counted(in.scriptSig), Join(LE(in.sequence, 4), b)))
  <1>1. ByteString(GetOutpoint(in)) /\ ByteString(LE(in.sequence, 4))
        BY OutpointIs, LEIsString
  <1>2. ByteString(VarInt(Length(in.scriptSig))) /\ ByteString(in.scriptSig)
        BY VarIntIsString DEF InputFits
  <1>3. Counted(in.scriptSig) = Join(VarInt(Length(in.scriptSig)), in.scriptSig)
        BY Zenon DEF Counted, Join
  <1>4. InputBytes(in) = Join(Join(Join(GetOutpoint(in), VarInt(Length(in.scriptSig))), in.scriptSig), LE(in.sequence, 4))
        BY Zenon DEF InputBytes, Join
  <1>5. InputBytes(in) = Join(Join(GetOutpoint(in), Counted(in.scriptSig)), LE(in.sequence, 4))
        BY <1>1, <1>2, <1>3, <1>4, JoinRegroups
  <1>6. ByteString(Counted(in.scriptSig))
        BY <1>2, <1>3, JoinIs
  <1>7. ByteString(InputBytes(in))
        BY <1>1, <1>5, <1>6, JoinIs
  <1>8. ASSUME NEW b, ByteString(b)
        PROVE  Join(InputBytes(in), b) = Join(GetOutpoint(in), Join(Counted(in.scriptSig), Join(LE(in.sequence, 4), b)))
        BY <1>1, <1>5, <1>6, <1>8, JoinRegroups, JoinIs
  <1> QED BY <1>1, <1>6, <1>7, <1>8

(* The bytes of an output, field by field *)
LEMMA OutputBytesIs ==
  ASSUME NEW out, OutputFits(out)
  PROVE  /\ ByteString(OutputBytes(out)) /\ ByteString(Counted(out.lock))
         /\ \A b : ByteString(b) => Join(OutputBytes(out), b) = Join(LE(out.value, 8), Join(Counted(out.lock), b))
  <1>1. ByteString(LE(out.value, 8))
        BY LEIsString
  <1>2. ByteString(VarInt(Length(out.lock))) /\ ByteString(out.lock)
        BY VarIntIsString DEF OutputFits
  <1>3. Counted(out.lock) = Join(VarInt(Length(out.lock)), out.lock)
        BY Zenon DEF Counted, Join
  <1>4. OutputBytes(out) = Join(Join(LE(out.value, 8), VarInt(Length(out.lock))), out.lock)
        BY Zenon DEF OutputBytes, Join
  <1>5. OutputBytes(out) = Join(LE(out.value, 8), Counted(out.lock))
        BY <1>1, <1>2, <1>3, <1>4, JoinRegroups
  <1>6. ByteString(Counted(out.lock))
        BY <1>2, <1>3, JoinIs
  <1>7. ByteString(OutputBytes(out))
        BY <1>1, <1>5, <1>6, JoinIs
  <1>8. ASSUME NEW b, ByteString(b)
        PROVE  Join(OutputBytes(out), b) = Join(LE(out.value, 8), Join(Counted(out.lock), b))
        BY <1>1, <1>5, <1>6, <1>8, JoinRegroups, JoinIs
  <1> QED BY <1>6, <1>7, <1>8

(* What a reader makes of an input and of an output *)
InputRead(in) == [txid |-> in.txid, vout |-> in.vout, scriptSig |-> in.scriptSig]

(* A reader takes an input as it was written, ... *)
LEMMA ReadInputIs ==
  ASSUME NEW in, InputFits(in), NEW b, ByteString(b), NEW got, NEW items
  PROVE  ReadInput([reader |-> At(Join(InputBytes(in), b), got), items |-> items])
           = [reader |-> At(b, LE(in.sequence, 4)), items |-> Append(items, InputRead(in))]
  <1> DEFINE p == [reader |-> At(Join(InputBytes(in), b), got), items |-> items]
             txid == Take(p.reader, 32)
             vout == Take(txid, 4)
             script == Script(vout)
  <1>1. PICK rest2 : rest2 = Join(LE(in.sequence, 4), b)
        OBVIOUS
  <1>2. PICK rest1 : rest1 = Join(Counted(in.scriptSig), rest2)
        OBVIOUS
  <1>3. PICK rest0 : rest0 = Join(LE(in.vout, 4), rest1)
        OBVIOUS
  <1>4. ByteString(rest2)
        BY <1>1, LEIsString, JoinIs
  <1>5. ByteString(rest1)
        BY <1>2, <1>4, InputBytesIs, JoinIs
  <1>6. ByteString(rest0)
        BY <1>3, <1>5, LEIsString, JoinIs
  <1>7. ByteString(ReverseBytes(in.txid)) /\ Length(ReverseBytes(in.txid)) = 32 /\ ReverseBytes(ReverseBytes(in.txid)) = in.txid
        BY TxidIs DEF InputFits
  <1>8. Join(InputBytes(in), b) = Join(ReverseBytes(in.txid), rest0)
    <2>1. Join(InputBytes(in), b) = Join(GetOutpoint(in), rest1)
          BY <1>1, <1>2, InputBytesIs
    <2>2. ByteString(LE(in.vout, 4))
          BY LEIsString
    <2> QED BY <1>3, <1>5, <1>7, <2>1, <2>2, OutpointIs, JoinRegroups
  <1>9. txid = At(rest0, ReverseBytes(in.txid))
        BY <1>6, <1>7, <1>8, TakePart
  <1> HIDE DEF txid
  <1>10. vout = At(rest1, LE(in.vout, 4)) /\ FromLE(LE(in.vout, 4)) = in.vout
    <2>1. in.vout \in Number /\ Low(in.vout, 4) = in.vout
          BY LowOfSmall DEF InputFits
    <2> QED BY <1>3, <1>5, <1>9, <2>1, NumberPart
  <1> HIDE DEF vout
  <1>11. script = At(rest2, in.scriptSig)
         BY <1>2, <1>4, <1>10, ScriptPart DEF InputFits
  <1> HIDE DEF script
  <1>12. Take(script, 4) = At(b, LE(in.sequence, 4))
         BY <1>1, <1>11, LEIsString, TakePart
  <1>13. txid.got = ReverseBytes(in.txid) /\ vout.got = LE(in.vout, 4) /\ script.got = in.scriptSig
         BY <1>9, <1>10, <1>11, Parts
  <1>14. ReadInput(p) = [reader |-> Take(script, 4),
                         items |-> Append(p.items, [txid |-> ReverseBytes(txid.got), vout |-> FromLE(vout.got),
                                                    scriptSig |-> script.got])]
         BY DEF ReadInput, txid, vout, script
  <1>15. p.items = items
         OBVIOUS
  <1> HIDE DEF p
  <1> QED BY <1>7, <1>10, <1>12, <1>13, <1>14, <1>15 DEF InputRead, p

(* ... takes an output as it was written, ... *)
LEMMA ReadOutputIs ==
  ASSUME NEW out, OutputFits(out), NEW b, ByteString(b), NEW got, NEW items
  PROVE  ReadOutput([reader |-> At(Join(OutputBytes(out), b), got), items |-> items])
           = [reader |-> At(b, out.lock), items |-> Append(items, out)]
  <1> DEFINE p == [reader |-> At(Join(OutputBytes(out), b), got), items |-> items]
             value == Take(p.reader, 8)
             script == Script(value)
  <1>1. PICK rest : rest = Join(Counted(out.lock), b)
        OBVIOUS
  <1>2. ByteString(rest)
        BY <1>1, OutputBytesIs, JoinIs
  <1>3. Join(OutputBytes(out), b) = Join(LE(out.value, 8), rest)
        BY <1>1, OutputBytesIs
  <1>4. value = At(rest, LE(out.value, 8)) /\ FromLE(LE(out.value, 8)) = out.value
    <2>1. out.value \in Number /\ Low(out.value, 8) = out.value
          BY LowOfSmall DEF OutputFits
    <2> QED BY <1>2, <1>3, <2>1, NumberPart
  <1> HIDE DEF value
  <1>5. script = At(b, out.lock)
        BY <1>1, <1>4, ScriptPart DEF OutputFits
  <1> HIDE DEF script
  <1>6. value.got = LE(out.value, 8) /\ script.got = out.lock
        BY <1>4, <1>5, Parts
  <1>7. ReadOutput(p) = [reader |-> script, items |-> Append(p.items, [value |-> FromLE(value.got), lock |-> script.got])]
        BY DEF ReadOutput, value, script
  <1>8. p.items = items
        OBVIOUS
  <1>9. out = [value |-> out.value, lock |-> out.lock]
        BY DEF OutputFits
  <1> HIDE DEF p
  <1> QED BY <1>4, <1>5, <1>6, <1>7, <1>8, <1>9 DEF p

(* ... and skips exactly an input *)
LEMMA SkipInputIs ==
  ASSUME NEW in, InputFits(in), NEW b, ByteString(b), NEW got, NEW items
  PROVE  SkipInput([reader |-> At(Join(InputBytes(in), b), got), items |-> items])
           = [reader |-> At(b, LE(in.sequence, 4)), items |-> items]
  <1> DEFINE p == [reader |-> At(Join(InputBytes(in), b), got), items |-> items]
             outpoint == Take(p.reader, 36)
             script == Script(outpoint)
  <1>1. PICK rest2 : rest2 = Join(LE(in.sequence, 4), b)
        OBVIOUS
  <1>2. PICK rest1 : rest1 = Join(Counted(in.scriptSig), rest2)
        OBVIOUS
  <1>4. ByteString(rest2)
        BY <1>1, LEIsString, JoinIs
  <1>5. ByteString(rest1)
        BY <1>2, <1>4, InputBytesIs, JoinIs
  <1>6. Join(InputBytes(in), b) = Join(GetOutpoint(in), rest1)
        BY <1>1, <1>2, InputBytesIs
  <1>7. outpoint = At(rest1, GetOutpoint(in))
        BY <1>5, <1>6, OutpointIs, TakePart
  <1> HIDE DEF outpoint
  <1>8. script = At(rest2, in.scriptSig)
         BY <1>2, <1>4, <1>7, ScriptPart DEF InputFits
  <1> HIDE DEF script
  <1>9. Take(script, 4) = At(b, LE(in.sequence, 4))
         BY <1>1, <1>8, LEIsString, TakePart
  <1>10. SkipInput(p) = [p EXCEPT !.reader = Take(script, 4)]
         BY DEF SkipInput, outpoint, script
  <1>11. PICK r : r = Take(script, 4)
         OBVIOUS
  <1>12. [p EXCEPT !.reader = r] = [reader |-> r, items |-> items]
         OBVIOUS
  <1> QED BY <1>9, <1>10, <1>11, <1>12

(* The numbers up to n are n *)
LEMMA UpToIs ==
  ASSUME NEW n \in Nat
  PROVE  Len(UpTo(n)) = n
  BY DEF UpTo

(* Lists that the reader takes item by item *)
InputsFit(items) ==
  /\ Len(items) \in Number /\ items = [i \in 1 .. Len(items) |-> items[i]]
  /\ \A i \in 1 .. Len(items) : InputFits(items[i])
OutputsFit(items) ==
  /\ Len(items) \in Number /\ items = [i \in 1 .. Len(items) |-> items[i]]
  /\ \A i \in 1 .. Len(items) : OutputFits(items[i])
InputsBytes(items) == Concat(InputBytes, items)
OutputsBytes(items) == Concat(OutputBytes, items)
Same(x) == x

ReadInputsFrom(p0, n) == Fold(LAMBDA p, i : ReadInput(p), p0, UpTo(n))
ReadInputs(r) == ReadMany(ReadInput, r)

(* A trace of ReadInput ends in what the fold returns *)
LEMMA ReadInputTrace ==
  ASSUME NEW n \in Nat, Len(UpTo(n)) \in Nat, NEW b,
         NEW t, Steps(t, Len(UpTo(n))), t[0] = b,
         \A i \in 1 .. Len(UpTo(n)) : t[i] = ReadInput(t[i - 1])
  PROVE  ReadInputsFrom(b, n) = t[Len(UpTo(n))]
  <1> DEFINE Step(i, r) == CHOOSE v \in {ReadInput(q) : q \in {r}} : TRUE
             Trace(g) == g = [i \in 0 .. Len(UpTo(n)) |-> IF i = 0 THEN b ELSE Step(i, g[i - 1])]
             Result == CHOOSE g : Trace(g)
  <1>1. \A i, r : Step(i, r) = ReadInput(r)
        BY Zenon
  <1>2. \A i \in 1 .. Len(UpTo(n)) : t[i] = Step(i, t[i - 1])
        BY <1>1
  <1>3. ReadInputsFrom(b, n) = Result[Len(UpTo(n))]
        BY Zenon DEF ReadInputsFrom, Fold
  <1> HIDE DEF Step
  <1>4. Trace(t)
    <2>1. \A i \in 0 .. Len(UpTo(n)) : t[i] = IF i = 0 THEN b ELSE Step(i, t[i - 1])
          BY <1>2
    <2> QED BY <2>1, Zenon DEF Steps
  <1>5. Trace(Result)
        BY <1>4, Zenon
  <1> HIDE DEF Result
  <1>6. \A i \in 0 .. Len(UpTo(n)) : Result[i] = IF i = 0 THEN b ELSE Step(i, Result[i - 1])
        BY <1>5
  <1> HIDE DEF Trace
  <1>7. Alike(Result, t, Len(UpTo(n)))
        BY <1>2, <1>6 DEF Alike
  <1> QED BY <1>3, <1>7, SameTrace

(* A list of inputs is read back, all of it and nothing else *)
LEMMA ReadInputsIs ==
  ASSUME NEW items, InputsFit(items), NEW b, ByteString(b), NEW got
  PROVE  \E g : ReadInputs(At(Join(VarInt(Len(items)), Join(InputsBytes(items), b)), got))
                = [reader |-> At(b, g), items |-> [i \in 1 .. Len(items) |-> InputRead(items[i])]]
  <1> DEFINE n == Len(items)
             seqs == [i \in 1 .. n |-> InputBytes(items[i])]
             read == [i \in 1 .. n |-> InputRead(items[i])]
             last(i) == IF i = 0 THEN n ELSE LE(items[i].sequence, 4)
             sofar(i) == Part(read, i)
  <1>1. n \in Number /\ n \in Nat
        BY NumberIsNat DEF InputsFit
  <1>2. \A i \in 1 .. n : InputFits(items[i])
        BY DEF InputsFit
  <1>3. Len(seqs) = n /\ \A i \in 1 .. n : seqs[i] = InputBytes(items[i])
        BY <1>1
  <1>4. Strings(seqs)
        BY <1>1, <1>2, <1>3, InputBytesIs DEF Strings
  <1>5. InputsBytes(items) = FlattenSeq(seqs)
        BY Zenon DEF Concat, InputsBytes
  <1> HIDE DEF seqs
  <1>6. PICK u : Left(u, seqs)
        BY <1>4, LeftExists
  <1> DEFINE t == [i \in 0 .. n |-> [reader |-> At(Join(u[i], b), last(i)), items |-> sofar(i)]]
  <1>7. \A i \in 0 .. n : ByteString(u[i]) /\ t[i] = [reader |-> At(Join(u[i], b), last(i)), items |-> sofar(i)]
        BY <1>3, <1>6 DEF Left
  <1>8. Steps(t, n)
        BY DEF Steps
  <1>9. sofar(0) = <<>> /\ sofar(n) = read
        BY DEF Part
  <1>10. ASSUME NEW i \in 1 .. n, NEW k \in 0 .. n, k = i - 1
         PROVE  sofar(i) = Append(sofar(k), InputRead(items[i]))
    <2>1. read[k + 1] = InputRead(items[i]) /\ k \in Nat /\ k + 1 = i
          BY <1>1, <1>10
    <2> HIDE DEF read
    <2> QED BY <2>1, AppendPart
  <1> HIDE DEF t, read, last, sofar
  <1>11. ASSUME NEW i \in 1 .. n
         PROVE  t[i] = ReadInput(t[i - 1])
    <2>1. i - 1 \in 0 .. n /\ i \in 0 .. n /\ i # 0
          BY <1>1
    <2> PICK k \in 0 .. n : k = i - 1
        BY <2>1
    <2>2. u[k] = InputBytes(items[i]) \o u[i]
          BY <1>3, <1>6 DEF Left
    <2>3. ByteString(u[i]) /\ ByteString(InputBytes(items[i])) /\ InputFits(items[i])
          BY <1>2, <1>7, <2>1, InputBytesIs
    <2>4. u[k] = Join(InputBytes(items[i]), u[i])
          BY <2>2, Zenon DEF Join
    <2>5. Join(u[k], b) = Join(InputBytes(items[i]), Join(u[i], b)) /\ ByteString(Join(u[i], b))
          BY <2>3, <2>4, JoinRegroups, JoinIs
    <2>6. ReadInput([reader |-> At(Join(InputBytes(items[i]), Join(u[i], b)), last(k)), items |-> sofar(k)])
          = [reader |-> At(Join(u[i], b), LE(items[i].sequence, 4)), items |-> Append(sofar(k), InputRead(items[i]))]
          BY <2>3, <2>5, ReadInputIs
    <2>7. t[k] = [reader |-> At(Join(u[k], b), last(k)), items |-> sofar(k)]
          BY <1>7
    <2>8. t[i] = [reader |-> At(Join(u[i], b), last(i)), items |-> sofar(i)]
          BY <1>7, <2>1
    <2>9. last(i) = LE(items[i].sequence, 4)
          BY <2>1 DEF last
    <2>10. sofar(i) = Append(sofar(k), InputRead(items[i]))
           BY <1>10
    <2> QED BY <2>5, <2>6, <2>7, <2>8, <2>9, <2>10
  <1>12. t[0] = [reader |-> At(Join(FlattenSeq(seqs), b), n), items |-> <<>>]
    <2>1. u[0] = FlattenSeq(seqs) /\ last(0) = n
          BY <1>6 DEF Left, last
    <2>2. t[0] = [reader |-> At(Join(u[0], b), last(0)), items |-> sofar(0)]
          BY <1>1, <1>7
    <2> QED BY <1>9, <2>1, <2>2
  <1>13. t[n] = [reader |-> At(b, last(n)), items |-> read]
    <2>1. u[n] = <<>> /\ Join(<<>>, b) = b
          BY <1>3, <1>6, JoinNothing DEF Left, Join
    <2>2. t[n] = [reader |-> At(Join(u[n], b), last(n)), items |-> sofar(n)]
          BY <1>1, <1>7
    <2> QED BY <1>9, <2>1, <2>2
  <1>14. ByteString(Join(FlattenSeq(seqs), b))
    <2>1. ByteString(u[0]) /\ u[0] = FlattenSeq(seqs)
          BY <1>1, <1>6, <1>7 DEF Left
    <2> QED BY <2>1, JoinIs
  <1>15. ReadVarInt(At(Join(VarInt(n), Join(FlattenSeq(seqs), b)), got)) = At(Join(FlattenSeq(seqs), b), n)
         BY <1>1, <1>14, VarIntIs DEF Join
  <1> PICK base : base = [reader |-> At(Join(FlattenSeq(seqs), b), n), items |-> <<>>]
      OBVIOUS
  <1> PICK r : r = At(Join(VarInt(n), Join(FlattenSeq(seqs), b)), got)
      OBVIOUS
  <1>16. ReadInputsFrom(base, n) = t[n]
    <2>1. Len(UpTo(n)) = n /\ \A i \in 1 .. n : t[i] = ReadInput(t[i - 1])
          BY <1>1, <1>11, UpToIs
    <2>2. t[0] = base
          BY <1>12
    <2> HIDE DEF n
    <2>3. ReadInputsFrom(base, n) = t[Len(UpTo(n))]
          BY <1>1, <1>8, <2>1, <2>2, ReadInputTrace
    <2> QED BY <2>1, <2>3
  <1>17. ReadInputs(r) = ReadInputsFrom([reader |-> ReadVarInt(r), items |-> <<>>], ReadVarInt(r).got)
         BY Zenon DEF ReadMany, ReadInputs, ReadInputsFrom
  <1>18. ReadVarInt(r) = At(Join(FlattenSeq(seqs), b), n) /\ ReadVarInt(r).got = n
         BY <1>15, Parts
  <1> HIDE DEF n
  <1>19. ReadInputs(r) = [reader |-> At(b, last(n)), items |-> read]
         BY <1>13, <1>16, <1>17, <1>18
  <1> QED BY <1>5, <1>19 DEF n, read

ReadOutputsFrom(p0, n) == Fold(LAMBDA p, i : ReadOutput(p), p0, UpTo(n))
ReadOutputs(r) == ReadMany(ReadOutput, r)

(* A trace of ReadOutput ends in what the fold returns *)
LEMMA ReadOutputTrace ==
  ASSUME NEW n \in Nat, Len(UpTo(n)) \in Nat, NEW b,
         NEW t, Steps(t, Len(UpTo(n))), t[0] = b,
         \A i \in 1 .. Len(UpTo(n)) : t[i] = ReadOutput(t[i - 1])
  PROVE  ReadOutputsFrom(b, n) = t[Len(UpTo(n))]
  <1> DEFINE Step(i, r) == CHOOSE v \in {ReadOutput(q) : q \in {r}} : TRUE
             Trace(g) == g = [i \in 0 .. Len(UpTo(n)) |-> IF i = 0 THEN b ELSE Step(i, g[i - 1])]
             Result == CHOOSE g : Trace(g)
  <1>1. \A i, r : Step(i, r) = ReadOutput(r)
        BY Zenon
  <1>2. \A i \in 1 .. Len(UpTo(n)) : t[i] = Step(i, t[i - 1])
        BY <1>1
  <1>3. ReadOutputsFrom(b, n) = Result[Len(UpTo(n))]
        BY Zenon DEF ReadOutputsFrom, Fold
  <1> HIDE DEF Step
  <1>4. Trace(t)
    <2>1. \A i \in 0 .. Len(UpTo(n)) : t[i] = IF i = 0 THEN b ELSE Step(i, t[i - 1])
          BY <1>2
    <2> QED BY <2>1, Zenon DEF Steps
  <1>5. Trace(Result)
        BY <1>4, Zenon
  <1> HIDE DEF Result
  <1>6. \A i \in 0 .. Len(UpTo(n)) : Result[i] = IF i = 0 THEN b ELSE Step(i, Result[i - 1])
        BY <1>5
  <1> HIDE DEF Trace
  <1>7. Alike(Result, t, Len(UpTo(n)))
        BY <1>2, <1>6 DEF Alike
  <1> QED BY <1>3, <1>7, SameTrace

(* A list of outputs is read back, all of it and nothing else *)
LEMMA ReadOutputsIs ==
  ASSUME NEW items, OutputsFit(items), NEW b, ByteString(b), NEW got
  PROVE  \E g : ReadOutputs(At(Join(VarInt(Len(items)), Join(OutputsBytes(items), b)), got))
                = [reader |-> At(b, g), items |-> [i \in 1 .. Len(items) |-> Same(items[i])]]
  <1> DEFINE n == Len(items)
             seqs == [i \in 1 .. n |-> OutputBytes(items[i])]
             read == [i \in 1 .. n |-> Same(items[i])]
             last(i) == IF i = 0 THEN n ELSE items[i].lock
             sofar(i) == Part(read, i)
  <1>1. n \in Number /\ n \in Nat
        BY NumberIsNat DEF OutputsFit
  <1>2. \A i \in 1 .. n : OutputFits(items[i])
        BY DEF OutputsFit
  <1>3. Len(seqs) = n /\ \A i \in 1 .. n : seqs[i] = OutputBytes(items[i])
        BY <1>1
  <1>4. Strings(seqs)
        BY <1>1, <1>2, <1>3, OutputBytesIs DEF Strings
  <1>5. OutputsBytes(items) = FlattenSeq(seqs)
        BY Zenon DEF Concat, OutputsBytes
  <1> HIDE DEF seqs
  <1>6. PICK u : Left(u, seqs)
        BY <1>4, LeftExists
  <1> DEFINE t == [i \in 0 .. n |-> [reader |-> At(Join(u[i], b), last(i)), items |-> sofar(i)]]
  <1>7. \A i \in 0 .. n : ByteString(u[i]) /\ t[i] = [reader |-> At(Join(u[i], b), last(i)), items |-> sofar(i)]
        BY <1>3, <1>6 DEF Left
  <1>8. Steps(t, n)
        BY DEF Steps
  <1>9. sofar(0) = <<>> /\ sofar(n) = read
        BY DEF Part
  <1>10. ASSUME NEW i \in 1 .. n, NEW k \in 0 .. n, k = i - 1
         PROVE  sofar(i) = Append(sofar(k), Same(items[i]))
    <2>1. read[k + 1] = Same(items[i]) /\ k \in Nat /\ k + 1 = i
          BY <1>1, <1>10
    <2> HIDE DEF read
    <2> QED BY <2>1, AppendPart
  <1> HIDE DEF t, read, last, sofar
  <1>11. ASSUME NEW i \in 1 .. n
         PROVE  t[i] = ReadOutput(t[i - 1])
    <2>1. i - 1 \in 0 .. n /\ i \in 0 .. n /\ i # 0
          BY <1>1
    <2> PICK k \in 0 .. n : k = i - 1
        BY <2>1
    <2>2. u[k] = OutputBytes(items[i]) \o u[i]
          BY <1>3, <1>6 DEF Left
    <2>3. ByteString(u[i]) /\ ByteString(OutputBytes(items[i])) /\ OutputFits(items[i])
          BY <1>2, <1>7, <2>1, OutputBytesIs
    <2>4. u[k] = Join(OutputBytes(items[i]), u[i])
          BY <2>2, Zenon DEF Join
    <2>5. Join(u[k], b) = Join(OutputBytes(items[i]), Join(u[i], b)) /\ ByteString(Join(u[i], b))
          BY <2>3, <2>4, JoinRegroups, JoinIs
    <2>6. ReadOutput([reader |-> At(Join(OutputBytes(items[i]), Join(u[i], b)), last(k)), items |-> sofar(k)])
          = [reader |-> At(Join(u[i], b), items[i].lock), items |-> Append(sofar(k), items[i])]
          BY <2>3, <2>5, ReadOutputIs
    <2>7. t[k] = [reader |-> At(Join(u[k], b), last(k)), items |-> sofar(k)]
          BY <1>7
    <2>8. t[i] = [reader |-> At(Join(u[i], b), last(i)), items |-> sofar(i)]
          BY <1>7, <2>1
    <2>9. last(i) = items[i].lock
          BY <2>1 DEF last
    <2>10. sofar(i) = Append(sofar(k), items[i])
           BY <1>10 DEF Same
    <2> QED BY <2>5, <2>6, <2>7, <2>8, <2>9, <2>10
  <1>12. t[0] = [reader |-> At(Join(FlattenSeq(seqs), b), n), items |-> <<>>]
    <2>1. u[0] = FlattenSeq(seqs) /\ last(0) = n
          BY <1>6 DEF Left, last
    <2>2. t[0] = [reader |-> At(Join(u[0], b), last(0)), items |-> sofar(0)]
          BY <1>1, <1>7
    <2> QED BY <1>9, <2>1, <2>2
  <1>13. t[n] = [reader |-> At(b, last(n)), items |-> read]
    <2>1. u[n] = <<>> /\ Join(<<>>, b) = b
          BY <1>3, <1>6, JoinNothing DEF Left, Join
    <2>2. t[n] = [reader |-> At(Join(u[n], b), last(n)), items |-> sofar(n)]
          BY <1>1, <1>7
    <2> QED BY <1>9, <2>1, <2>2
  <1>14. ByteString(Join(FlattenSeq(seqs), b))
    <2>1. ByteString(u[0]) /\ u[0] = FlattenSeq(seqs)
          BY <1>1, <1>6, <1>7 DEF Left
    <2> QED BY <2>1, JoinIs
  <1>15. ReadVarInt(At(Join(VarInt(n), Join(FlattenSeq(seqs), b)), got)) = At(Join(FlattenSeq(seqs), b), n)
         BY <1>1, <1>14, VarIntIs DEF Join
  <1> PICK base : base = [reader |-> At(Join(FlattenSeq(seqs), b), n), items |-> <<>>]
      OBVIOUS
  <1> PICK r : r = At(Join(VarInt(n), Join(FlattenSeq(seqs), b)), got)
      OBVIOUS
  <1>16. ReadOutputsFrom(base, n) = t[n]
    <2>1. Len(UpTo(n)) = n /\ \A i \in 1 .. n : t[i] = ReadOutput(t[i - 1])
          BY <1>1, <1>11, UpToIs
    <2>2. t[0] = base
          BY <1>12
    <2> HIDE DEF n
    <2>3. ReadOutputsFrom(base, n) = t[Len(UpTo(n))]
          BY <1>1, <1>8, <2>1, <2>2, ReadOutputTrace
    <2> QED BY <2>1, <2>3
  <1>17. ReadOutputs(r) = ReadOutputsFrom([reader |-> ReadVarInt(r), items |-> <<>>], ReadVarInt(r).got)
         BY Zenon DEF ReadMany, ReadOutputs, ReadOutputsFrom
  <1>18. ReadVarInt(r) = At(Join(FlattenSeq(seqs), b), n) /\ ReadVarInt(r).got = n
         BY <1>15, Parts
  <1> HIDE DEF n
  <1>19. ReadOutputs(r) = [reader |-> At(b, last(n)), items |-> read]
         BY <1>13, <1>16, <1>17, <1>18
  <1> QED BY <1>5, <1>19 DEF n, read

SkipInputsFrom(p0, n) == Fold(LAMBDA p, i : SkipInput(p), p0, UpTo(n))
SkipInputs(r) == ReadMany(SkipInput, r)

(* A trace of SkipInput ends in what the fold returns *)
LEMMA SkipInputTrace ==
  ASSUME NEW n \in Nat, Len(UpTo(n)) \in Nat, NEW b,
         NEW t, Steps(t, Len(UpTo(n))), t[0] = b,
         \A i \in 1 .. Len(UpTo(n)) : t[i] = SkipInput(t[i - 1])
  PROVE  SkipInputsFrom(b, n) = t[Len(UpTo(n))]
  <1> DEFINE Step(i, r) == CHOOSE v \in {SkipInput(q) : q \in {r}} : TRUE
             Trace(g) == g = [i \in 0 .. Len(UpTo(n)) |-> IF i = 0 THEN b ELSE Step(i, g[i - 1])]
             Result == CHOOSE g : Trace(g)
  <1>1. \A i, r : Step(i, r) = SkipInput(r)
        BY Zenon
  <1>2. \A i \in 1 .. Len(UpTo(n)) : t[i] = Step(i, t[i - 1])
        BY <1>1
  <1>3. SkipInputsFrom(b, n) = Result[Len(UpTo(n))]
        BY Zenon DEF SkipInputsFrom, Fold
  <1> HIDE DEF Step
  <1>4. Trace(t)
    <2>1. \A i \in 0 .. Len(UpTo(n)) : t[i] = IF i = 0 THEN b ELSE Step(i, t[i - 1])
          BY <1>2
    <2> QED BY <2>1, Zenon DEF Steps
  <1>5. Trace(Result)
        BY <1>4, Zenon
  <1> HIDE DEF Result
  <1>6. \A i \in 0 .. Len(UpTo(n)) : Result[i] = IF i = 0 THEN b ELSE Step(i, Result[i - 1])
        BY <1>5
  <1> HIDE DEF Trace
  <1>7. Alike(Result, t, Len(UpTo(n)))
        BY <1>2, <1>6 DEF Alike
  <1> QED BY <1>3, <1>7, SameTrace

(* A list of inputs is skipped, all of it and nothing else *)
LEMMA SkipInputsIs ==
  ASSUME NEW items, InputsFit(items), NEW b, ByteString(b), NEW got
  PROVE  \E g : SkipInputs(At(Join(VarInt(Len(items)), Join(InputsBytes(items), b)), got))
                = [reader |-> At(b, g), items |-> <<>>]
  <1> DEFINE n == Len(items)
             seqs == [i \in 1 .. n |-> InputBytes(items[i])]
             read == <<>>
             last(i) == IF i = 0 THEN n ELSE LE(items[i].sequence, 4)
             sofar(i) == <<>>
  <1>1. n \in Number /\ n \in Nat
        BY NumberIsNat DEF InputsFit
  <1>2. \A i \in 1 .. n : InputFits(items[i])
        BY DEF InputsFit
  <1>3. Len(seqs) = n /\ \A i \in 1 .. n : seqs[i] = InputBytes(items[i])
        BY <1>1
  <1>4. Strings(seqs)
        BY <1>1, <1>2, <1>3, InputBytesIs DEF Strings
  <1>5. InputsBytes(items) = FlattenSeq(seqs)
        BY Zenon DEF Concat, InputsBytes
  <1> HIDE DEF seqs
  <1>6. PICK u : Left(u, seqs)
        BY <1>4, LeftExists
  <1> DEFINE t == [i \in 0 .. n |-> [reader |-> At(Join(u[i], b), last(i)), items |-> sofar(i)]]
  <1>7. \A i \in 0 .. n : ByteString(u[i]) /\ t[i] = [reader |-> At(Join(u[i], b), last(i)), items |-> sofar(i)]
        BY <1>3, <1>6 DEF Left
  <1>8. Steps(t, n)
        BY DEF Steps
  <1>9. sofar(0) = <<>> /\ sofar(n) = read
        BY DEF Part
  <1>10. ASSUME NEW i \in 1 .. n, NEW k \in 0 .. n, k = i - 1
         PROVE  sofar(i) = sofar(k)
    OBVIOUS
  <1> HIDE DEF t, read, last, sofar
  <1>11. ASSUME NEW i \in 1 .. n
         PROVE  t[i] = SkipInput(t[i - 1])
    <2>1. i - 1 \in 0 .. n /\ i \in 0 .. n /\ i # 0
          BY <1>1
    <2> PICK k \in 0 .. n : k = i - 1
        BY <2>1
    <2>2. u[k] = InputBytes(items[i]) \o u[i]
          BY <1>3, <1>6 DEF Left
    <2>3. ByteString(u[i]) /\ ByteString(InputBytes(items[i])) /\ InputFits(items[i])
          BY <1>2, <1>7, <2>1, InputBytesIs
    <2>4. u[k] = Join(InputBytes(items[i]), u[i])
          BY <2>2, Zenon DEF Join
    <2>5. Join(u[k], b) = Join(InputBytes(items[i]), Join(u[i], b)) /\ ByteString(Join(u[i], b))
          BY <2>3, <2>4, JoinRegroups, JoinIs
    <2>6. SkipInput([reader |-> At(Join(InputBytes(items[i]), Join(u[i], b)), last(k)), items |-> sofar(k)])
          = [reader |-> At(Join(u[i], b), LE(items[i].sequence, 4)), items |-> sofar(k)]
          BY <2>3, <2>5, SkipInputIs
    <2>7. t[k] = [reader |-> At(Join(u[k], b), last(k)), items |-> sofar(k)]
          BY <1>7
    <2>8. t[i] = [reader |-> At(Join(u[i], b), last(i)), items |-> sofar(i)]
          BY <1>7, <2>1
    <2>9. last(i) = LE(items[i].sequence, 4)
          BY <2>1 DEF last
    <2>10. sofar(i) = sofar(k)
           BY <1>10
    <2> QED BY <2>5, <2>6, <2>7, <2>8, <2>9, <2>10
  <1>12. t[0] = [reader |-> At(Join(FlattenSeq(seqs), b), n), items |-> <<>>]
    <2>1. u[0] = FlattenSeq(seqs) /\ last(0) = n
          BY <1>6 DEF Left, last
    <2>2. t[0] = [reader |-> At(Join(u[0], b), last(0)), items |-> sofar(0)]
          BY <1>1, <1>7
    <2> QED BY <1>9, <2>1, <2>2
  <1>13. t[n] = [reader |-> At(b, last(n)), items |-> read]
    <2>1. u[n] = <<>> /\ Join(<<>>, b) = b
          BY <1>3, <1>6, JoinNothing DEF Left, Join
    <2>2. t[n] = [reader |-> At(Join(u[n], b), last(n)), items |-> sofar(n)]
          BY <1>1, <1>7
    <2> QED BY <1>9, <2>1, <2>2
  <1>14. ByteString(Join(FlattenSeq(seqs), b))
    <2>1. ByteString(u[0]) /\ u[0] = FlattenSeq(seqs)
          BY <1>1, <1>6, <1>7 DEF Left
    <2> QED BY <2>1, JoinIs
  <1>15. ReadVarInt(At(Join(VarInt(n), Join(FlattenSeq(seqs), b)), got)) = At(Join(FlattenSeq(seqs), b), n)
         BY <1>1, <1>14, VarIntIs DEF Join
  <1> PICK base : base = [reader |-> At(Join(FlattenSeq(seqs), b), n), items |-> <<>>]
      OBVIOUS
  <1> PICK r : r = At(Join(VarInt(n), Join(FlattenSeq(seqs), b)), got)
      OBVIOUS
  <1>16. SkipInputsFrom(base, n) = t[n]
    <2>1. Len(UpTo(n)) = n /\ \A i \in 1 .. n : t[i] = SkipInput(t[i - 1])
          BY <1>1, <1>11, UpToIs
    <2>2. t[0] = base
          BY <1>12
    <2> HIDE DEF n
    <2>3. SkipInputsFrom(base, n) = t[Len(UpTo(n))]
          BY <1>1, <1>8, <2>1, <2>2, SkipInputTrace
    <2> QED BY <2>1, <2>3
  <1>17. SkipInputs(r) = SkipInputsFrom([reader |-> ReadVarInt(r), items |-> <<>>], ReadVarInt(r).got)
         BY Zenon DEF ReadMany, SkipInputs, SkipInputsFrom
  <1>18. ReadVarInt(r) = At(Join(FlattenSeq(seqs), b), n) /\ ReadVarInt(r).got = n
         BY <1>15, Parts
  <1> HIDE DEF n
  <1>19. SkipInputs(r) = [reader |-> At(b, last(n)), items |-> read]
         BY <1>13, <1>16, <1>17, <1>18
  <1> QED BY <1>5, <1>19 DEF n, read

-----------------------------------------------------------------------------
(* Raw transactions *)

(* The bytes of a list of inputs are a string *)
LEMMA InputsBytesAreString ==
  ASSUME NEW items, InputsFit(items)
  PROVE  ByteString(InputsBytes(items))
  <1> DEFINE n == Len(items)
             seqs == [i \in 1 .. n |-> InputBytes(items[i])]
  <1>1. n \in Nat /\ \A i \in 1 .. n : InputFits(items[i])
        BY NumberIsNat DEF InputsFit
  <1>2. Len(seqs) = n /\ \A i \in 1 .. n : seqs[i] = InputBytes(items[i])
        BY <1>1
  <1>3. Strings(seqs)
        BY <1>1, <1>2, InputBytesIs DEF Strings
  <1>4. InputsBytes(items) = FlattenSeq(seqs)
        BY Zenon DEF Concat, InputsBytes
  <1> HIDE DEF seqs
  <1>5. PICK u : Left(u, seqs)
        BY <1>3, LeftExists
  <1> QED BY <1>1, <1>2, <1>4, <1>5 DEF Left

(* The bytes of a list of outputs are a string *)
LEMMA OutputsBytesAreString ==
  ASSUME NEW items, OutputsFit(items)
  PROVE  ByteString(OutputsBytes(items))
  <1> DEFINE n == Len(items)
             seqs == [i \in 1 .. n |-> OutputBytes(items[i])]
  <1>1. n \in Nat /\ \A i \in 1 .. n : OutputFits(items[i])
        BY NumberIsNat DEF OutputsFit
  <1>2. Len(seqs) = n /\ \A i \in 1 .. n : seqs[i] = OutputBytes(items[i])
        BY <1>1
  <1>3. Strings(seqs)
        BY <1>1, <1>2, OutputBytesIs DEF Strings
  <1>4. OutputsBytes(items) = FlattenSeq(seqs)
        BY Zenon DEF Concat, OutputsBytes
  <1> HIDE DEF seqs
  <1>5. PICK u : Left(u, seqs)
        BY <1>3, LeftExists
  <1> QED BY <1>1, <1>2, <1>4, <1>5 DEF Left

TxFits(tx) == InputsFit(tx.inputs) /\ OutputsFit(tx.outputs)
AfterInputs(tx) ==
  Join(VarInt(Len(tx.outputs)), Join(OutputsBytes(tx.outputs), LE(tx.locktime, 4)))
AfterVersion(tx) ==
  Join(VarInt(Len(tx.inputs)), Join(InputsBytes(tx.inputs), AfterInputs(tx)))

(* A raw transaction, field by field *)
LEMMA RawIs ==
  ASSUME NEW tx, TxFits(tx)
  PROVE  /\ BuildRawTx(tx) = Join(LE(tx.version, 4), AfterVersion(tx))
         /\ ByteString(AfterInputs(tx)) /\ ByteString(AfterVersion(tx)) /\ ByteString(BuildRawTx(tx))
         /\ ByteString(LE(tx.version, 4)) /\ Length(LE(tx.version, 4)) = 4
         /\ ByteString(LE(tx.locktime, 4))
  <1> DEFINE v == LE(tx.version, 4)
             l == LE(tx.locktime, 4)
             ni == VarInt(Len(tx.inputs))
             no == VarInt(Len(tx.outputs))
             i == InputsBytes(tx.inputs)
             o == OutputsBytes(tx.outputs)
  <1>1. Len(tx.inputs) \in Number /\ Len(tx.outputs) \in Number
        BY DEF TxFits, InputsFit, OutputsFit
  <1>2. ByteString(i) /\ ByteString(o) /\ ByteString(ni) /\ ByteString(no)
        BY <1>1, InputsBytesAreString, OutputsBytesAreString, VarIntIsString DEF TxFits
  <1>3. ByteString(v) /\ ByteString(l) /\ Length(v) = 4
        BY LEIsString
  <1>4. BuildRawTx(tx) = Join(Join(Join(Join(Join(v, ni), i), no), o), l)
        BY Zenon DEF BuildRawTx, Join, InputsBytes, OutputsBytes, OutputBytes, Concat
  <1>5. AfterInputs(tx) = Join(no, Join(o, l)) /\ AfterVersion(tx) = Join(ni, Join(i, AfterInputs(tx)))
        BY Zenon DEF AfterInputs, AfterVersion
  <1> HIDE DEF v, l, ni, no, i, o
  <1>6. ByteString(Join(o, l)) /\ ByteString(AfterInputs(tx))
        BY <1>2, <1>3, <1>5, JoinIs
  <1>7. ByteString(Join(i, AfterInputs(tx))) /\ ByteString(AfterVersion(tx))
        BY <1>2, <1>5, <1>6, JoinIs
  <1>8. ByteString(Join(v, ni)) /\ ByteString(Join(Join(v, ni), i)) /\ ByteString(Join(Join(Join(v, ni), i), no))
        BY <1>2, <1>3, JoinIs
  <1>9. BuildRawTx(tx) = Join(Join(Join(v, ni), i), AfterInputs(tx))
    <2>1. BuildRawTx(tx) = Join(Join(Join(Join(v, ni), i), no), Join(o, l))
          BY <1>2, <1>3, <1>4, <1>8, JoinRegroups
    <2> QED BY <1>2, <1>5, <1>6, <1>8, <2>1, JoinRegroups
  <1>10. BuildRawTx(tx) = Join(v, AfterVersion(tx))
    <2>1. Join(Join(Join(v, ni), i), AfterInputs(tx)) = Join(Join(v, ni), Join(i, AfterInputs(tx)))
          BY <1>2, <1>6, <1>8, JoinRegroups
    <2>2. Join(Join(v, ni), Join(i, AfterInputs(tx))) = Join(v, Join(ni, Join(i, AfterInputs(tx))))
          BY <1>2, <1>3, <1>7, JoinRegroups
    <2> QED BY <1>5, <1>9, <2>1, <2>2
  <1>11. ByteString(BuildRawTx(tx))
         BY <1>3, <1>7, <1>10, JoinIs
  <1> QED BY <1>3, <1>6, <1>7, <1>10, <1>11 DEF v, l

(* A reader starts with nothing taken *)
LEMMA ReaderAt ==
  ASSUME NEW s
  PROVE  Reader(s) = At(s, <<>>)
  BY DEF Reader, At, Yes

(* parseTx reads back what buildRawTx wrote, for every transaction whose   *)
(* numbers fit their fields: inputs and outputs, whatever their number and *)
(* however long their scripts                                              *)
THEOREM ParseTxIs ==
  ASSUME NEW tx, TxFits(tx)
  PROVE  ParseTx(BuildRawTx(tx))
         = [ok |-> Yes, inputs |-> [i \in 1 .. Len(tx.inputs) |-> InputRead(tx.inputs[i])], outputs |-> tx.outputs]
  <1> DEFINE raw == BuildRawTx(tx)
             start == Take(Reader(raw), 4)
             inputs == ReadInputs(start)
             outputs == ReadOutputs(inputs.reader)
             read == [i \in 1 .. Len(tx.inputs) |-> InputRead(tx.inputs[i])]
  <1>1. start = At(AfterVersion(tx), LE(tx.version, 4))
        BY RawIs, ReaderAt, TakePart
  <1>2. PICK g : inputs = [reader |-> At(AfterInputs(tx), g), items |-> read]
        BY <1>1, RawIs, ReadInputsIs DEF AfterVersion, TxFits
  <1>3. inputs.reader = At(AfterInputs(tx), g) /\ inputs.items = read
        BY <1>2
  <1> HIDE DEF inputs, read
  <1> PICK kept : kept = [i \in 1 .. Len(tx.outputs) |-> Same(tx.outputs[i])]
      OBVIOUS
  <1>4. \E h : ReadOutputs(At(AfterInputs(tx), g)) = [reader |-> At(LE(tx.locktime, 4), h), items |-> kept]
        BY RawIs, ReadOutputsIs DEF AfterInputs, TxFits
  <1>5. PICK h : outputs = [reader |-> At(LE(tx.locktime, 4), h), items |-> kept]
        BY <1>3, <1>4
  <1>6. outputs.reader.ok = Yes /\ outputs.items = kept
        BY <1>5 DEF At
  <1>7. kept = tx.outputs
        BY DEF TxFits, OutputsFit, Same
  <1> HIDE DEF outputs
  <1>8. ParseTx(raw) = [ok |-> outputs.reader.ok, inputs |-> inputs.items, outputs |-> outputs.items]
        BY Zenon DEF ParseTx, outputs, inputs, ReadInputs, ReadOutputs
  <1> QED BY <1>3, <1>6, <1>7, <1>8 DEF read

(* getPrevoutScriptAndValue finds the output of that index, for every      *)
(* transaction whose numbers fit their fields                              *)
LEMMA PrevoutIs ==
  ASSUME NEW tx, TxFits(tx), NEW v \in Nat
  PROVE  GetPrevoutScriptAndValue(BuildRawTx(tx), v) = tx.outputs[v + 1]
  <1> DEFINE raw == BuildRawTx(tx)
             start == Take(Reader(raw), 4)
             inputs == SkipInputs(start)
             outputs == ReadOutputs(inputs.reader).items
  <1>1. start = At(AfterVersion(tx), LE(tx.version, 4))
        BY RawIs, ReaderAt, TakePart
  <1>2. PICK g : inputs = [reader |-> At(AfterInputs(tx), g), items |-> <<>>]
        BY <1>1, RawIs, SkipInputsIs DEF AfterVersion, TxFits
  <1>3. inputs.reader = At(AfterInputs(tx), g)
        BY <1>2
  <1> HIDE DEF inputs
  <1> PICK kept : kept = [i \in 1 .. Len(tx.outputs) |-> Same(tx.outputs[i])]
      OBVIOUS
  <1>4. \E h : ReadOutputs(At(AfterInputs(tx), g)) = [reader |-> At(LE(tx.locktime, 4), h), items |-> kept]
        BY RawIs, ReadOutputsIs DEF AfterInputs, TxFits
  <1>6. outputs = kept
        BY <1>3, <1>4
  <1>7. kept = tx.outputs
        BY DEF TxFits, OutputsFit, Same
  <1> HIDE DEF outputs
  <1>8. GetPrevoutScriptAndValue(raw, v) = outputs[v + 1]
        BY Zenon DEF GetPrevoutScriptAndValue, outputs, inputs, SkipInputs, ReadOutputs
  <1> QED BY <1>6, <1>7, <1>8

-----------------------------------------------------------------------------
(* Tokens *)

(* A number below 1000 is one that the wire can hold *)
LEMMA SmallNumbers ==
  ASSUME NEW n \in Nat, n < 1000
  PROVE  n \in Number
  BY SMT DEF Number

(* TakeByte with Join *)
LEMMA ByteFrom ==
  ASSUME NEW n, NEW b, NEW got, ByteString(b)
  PROVE  Take(At(Join(<<Byte(n)>>, b), got), 1) = At(b, <<Byte(n)>>)
  BY TakeByte DEF Join

(* The length of a string after its varint *)
LEMMA CountedIs ==
  ASSUME NEW s, ByteString(s), Length(s) \in Number
  PROVE  ByteString(Counted(s)) /\ Length(Counted(s)) \in {Length(s) + 1, Length(s) + 3, Length(s) + 5}
  <1>1. ByteString(VarInt(Length(s))) /\ Length(VarInt(Length(s))) \in {1, 3, 5}
        BY VarIntIsString
  <1>2. Counted(s) = Join(VarInt(Length(s)), s)
        BY Zenon DEF Counted, Join
  <1>3. Length(s) \in Nat
        BY LengthIsNatural
  <1> QED BY <1>1, <1>2, <1>3, JoinIs

(* The lock of a shard, field by field *)
Word(s) == ByteString(s) /\ Length(s) = 32
ShardBits == 97
TokenLock(category, commitment, lock) ==
  Join(<<Byte(TOKEN_MARK)>>, Join(category, Join(<<Byte(ShardBits)>>, Join(Counted(commitment), lock))))

(* A word of 32 bytes is not empty *)
LEMMA WordIsNotEmpty ==
  ASSUME NEW s, Word(s)
  PROVE  s # <<>>
  BY EmptyString DEF Word

(* addTokenToScript writes these fields, 67 bytes before the lock *)
LEMMA TokenLockIs ==
  ASSUME NEW category, NEW commitment, NEW lock, Word(category), Word(commitment), ByteString(lock)
  PROVE  /\ AddTokenToScript(MakeShardTokenOut(category, commitment), lock) = TokenLock(category, commitment, lock)
         /\ ByteString(TokenLock(category, commitment, lock))
         /\ Length(TokenLock(category, commitment, lock)) = Length(lock) + 67
  <1> PICK token : token = MakeShardTokenOut(category, commitment)
      OBVIOUS
  <1>1. /\ token.category = category /\ token.amount = 0 /\ token.nft = TRUE /\ token.capability = 1
        /\ token.commitment = commitment
        BY DEF MakeShardTokenOut
  <1>2. category # <<>> /\ commitment # <<>>
        BY WordIsNotEmpty
  <1>3. TokenFits(token)
    <2>1. Length(token.category) = 32 /\ Length(token.commitment) <= 40
          BY <1>1 DEF Word
    <2>2. token.nft /\ token.capability \in 0 .. 2
          BY <1>1
    <2> QED BY <2>1, <2>2 DEF TokenFits
  <1>4. Bitfield(token) = ShardBits
        BY <1>1, <1>2 DEF Bitfield, ShardBits
  <1>5. ~(token.amount > 0)
        BY <1>1
  <1>6. AddTokenToScript(token, lock)
        = <<Byte(TOKEN_MARK)>> \o category \o <<Byte(ShardBits)>> \o CommitmentField(token) \o <<>> \o lock
        BY <1>1, <1>2, <1>3, <1>4, <1>5, Zenon DEF AddTokenToScript
  <1>7. CommitmentField(token) = Counted(commitment)
        BY <1>1, Zenon DEF CommitmentField, Counted
  <1> PICK mark : mark = <<Byte(TOKEN_MARK)>>
      OBVIOUS
  <1> PICK bits : bits = <<Byte(ShardBits)>>
      OBVIOUS
  <1> PICK field : field = Counted(commitment)
      OBVIOUS
  <1>8. ByteString(mark) /\ Length(mark) = 1 /\ ByteString(bits) /\ Length(bits) = 1
        BY ByteIsString
  <1>9. Length(commitment) \in Number
        BY SmallNumbers DEF Word
  <1>10. ByteString(field) /\ Length(field) = 33
    <2>1. VarInt(32) = LE(32, 1)
          BY SMT DEF VarInt
    <2>2. Length(VarInt(32)) = 1 /\ ByteString(VarInt(32))
          BY <2>1, LEIsString
    <2>3. field = Join(VarInt(32), commitment)
          BY Zenon DEF Counted, Join, Word
    <2> QED BY <2>2, <2>3, JoinIs DEF Word
  <1>11. ByteString(category) /\ Length(category) = 32
         BY DEF Word
  <1>12. AddTokenToScript(token, lock) = Join(Join(Join(Join(Join(mark, category), bits), field), <<>>), lock)
         BY <1>6, <1>7, Zenon DEF Join
  <1>13. /\ ByteString(Join(mark, category)) /\ ByteString(Join(Join(mark, category), bits))
         /\ ByteString(Join(Join(Join(mark, category), bits), field))
         BY <1>8, <1>10, <1>11, JoinIs
  <1>14. Join(Join(Join(Join(mark, category), bits), field), <<>>) = Join(Join(Join(mark, category), bits), field)
         BY <1>13, JoinNothing DEF Join
  <1>15. Join(Join(Join(Join(mark, category), bits), field), lock) = Join(Join(Join(mark, category), bits), Join(field, lock))
         BY <1>10, <1>13, JoinRegroups
  <1>16. ByteString(Join(field, lock)) /\ Length(Join(field, lock)) = 33 + Length(lock)
         BY <1>10, JoinIs
  <1>17. Join(Join(Join(mark, category), bits), Join(field, lock)) = Join(Join(mark, category), Join(bits, Join(field, lock)))
         BY <1>8, <1>13, <1>16, JoinRegroups
  <1>18. ByteString(Join(bits, Join(field, lock))) /\ Length(Join(bits, Join(field, lock))) = 34 + Length(lock)
    <2>1. Length(Join(bits, Join(field, lock))) = 1 + (33 + Length(lock)) /\ ByteString(Join(bits, Join(field, lock)))
          BY <1>8, <1>16, JoinIs
    <2>2. Length(lock) \in Nat
          BY LengthIsNatural
    <2> QED BY <2>1, <2>2
  <1>19. Join(Join(mark, category), Join(bits, Join(field, lock))) = Join(mark, Join(category, Join(bits, Join(field, lock))))
         BY <1>8, <1>11, <1>18, JoinRegroups
  <1>20. AddTokenToScript(token, lock) = TokenLock(category, commitment, lock)
         BY <1>12, <1>14, <1>15, <1>17, <1>19, Zenon DEF TokenLock
  <1>21. /\ ByteString(TokenLock(category, commitment, lock))
         /\ Length(TokenLock(category, commitment, lock)) = 1 + (32 + (34 + Length(lock)))
    <2>1. TokenLock(category, commitment, lock) = Join(mark, Join(category, Join(bits, Join(field, lock))))
          BY Zenon DEF TokenLock
    <2> QED BY <1>8, <1>11, <1>18, <2>1, JoinIs
  <1>22. Length(lock) \in Nat
         BY LengthIsNatural
  <1> QED BY <1>20, <1>21, <1>22

(* What a string starts with *)
LEMMA FirstOfJoin ==
  ASSUME NEW n, NEW b, ByteString(b)
  PROVE  Join(<<Byte(n)>>, b)[1] = Byte(n) /\ Join(<<Byte(n)>>, b) # <<>> /\ Len(Join(<<Byte(n)>>, b)) = 1 + Len(b)
  <1> PICK a : a = <<Byte(n)>>
      OBVIOUS
  <1>1. ByteString(a) /\ Len(a) = 1 /\ a[1] = Byte(n)
        BY ByteIsString
  <1>2. Len(Join(a, b)) = Len(a) + Len(b) /\ \A i \in 1 .. Len(a) : Join(a, b)[i] = a[i]
        BY <1>1, JoinedStrings DEF Join
  <1>3. Len(b) \in Nat
        BY StringIsSeq
  <1>4. Join(a, b) # <<>>
        BY <1>1, <1>2, <1>3, EmptyString
  <1> QED BY <1>1, <1>2, <1>4

SplitIs(category, commitment, lock) ==
  [ok |-> Yes, token |-> MakeShardTokenOut(category, commitment), locking |-> lock]

(* splitCashTokensPrefix reads those fields back *)
LEMMA SplitTokenLock ==
  ASSUME NEW category, NEW commitment, NEW lock, Word(category), Word(commitment), ByteString(lock)
  PROVE  SplitCashTokensPrefix(TokenLock(category, commitment, lock)) = SplitIs(category, commitment, lock)
  <1> PICK rest4 : rest4 = lock
      OBVIOUS
  <1> PICK rest3 : rest3 = Join(Counted(commitment), rest4)
      OBVIOUS
  <1> PICK rest2 : rest2 = Join(<<Byte(ShardBits)>>, rest3)
      OBVIOUS
  <1> PICK rest1 : rest1 = Join(category, rest2)
      OBVIOUS
  <1> PICK script : script = TokenLock(category, commitment, lock)
      OBVIOUS
  <1>1. script = Join(<<Byte(TOKEN_MARK)>>, rest1)
        BY Zenon DEF TokenLock
  <1>2. Length(commitment) \in Number /\ ByteString(commitment) /\ ByteString(category) /\ Length(category) = 32
        BY SmallNumbers DEF Word
  <1>3. ByteString(rest4) /\ ByteString(rest3) /\ ByteString(rest2) /\ ByteString(rest1)
        BY <1>2, CountedIs, ByteIsString, JoinIs
  <1>4. script # <<>> /\ script[1] = Byte(TOKEN_MARK)
        BY <1>1, <1>3, FirstOfJoin
  <1>5. SplitCashTokensPrefix(script) = CategoryAfter(Take(Take(Reader(script), 1), 32))
        BY <1>4 DEF SplitCashTokensPrefix
  <1>6. Take(Reader(script), 1) = At(rest1, <<Byte(TOKEN_MARK)>>)
        BY <1>1, <1>3, ReaderAt, ByteFrom
  <1>7. Take(At(rest1, <<Byte(TOKEN_MARK)>>), 32) = At(rest2, category)
        BY <1>2, <1>3, TakePart
  <1> PICK r1 : r1 = At(rest2, category)
      OBVIOUS
  <1>8. r1.got = category
        BY Parts
  <1>9. Take(r1, 1) = At(rest3, <<Byte(ShardBits)>>)
        BY <1>3, ByteFrom
  <1> PICK r2 : r2 = At(rest3, <<Byte(ShardBits)>>)
      OBVIOUS
  <1>10. CategoryAfter(r1) = FieldAfter(category, r2)
        BY <1>8, <1>9 DEF CategoryAfter
  <1>11. r2.ok /\ r2.got[1][2] = ShardBits
    <2>1. r2.ok /\ r2.got = <<Byte(ShardBits)>>
          BY Parts
    <2>2. r2.got[1] = Byte(ShardBits)
          BY <2>1
    <2> QED BY <2>1, <2>2, WidthOfByte
  <1>12. FieldAfter(category, r2) = CommitmentAfter(ShardBits, category, r2)
        BY <1>11 DEF FieldAfter
  <1>13. Script(r2) = At(rest4, commitment)
        BY <1>2, <1>3, ScriptPart
  <1>14. Flag(ShardBits, 64) /\ Flag(ShardBits, 32) /\ ~Flag(ShardBits, 16) /\ ShardBits % 16 = 1
        BY SMT DEF Flag, ShardBits
  <1>15. CommitmentAfter(ShardBits, category, r2) = AmountAfter(ShardBits, category, At(rest4, commitment))
    <2>1. CommitmentAfter(ShardBits, category, r2) = AmountAfter(ShardBits, category, Script(r2))
          BY <1>14, Zenon DEF CommitmentAfter, Script
    <2> QED BY <1>13, <2>1
  <1> PICK r3 : r3 = At(rest4, commitment)
      OBVIOUS
  <1>16. r3.got = commitment /\ [r3 EXCEPT !.got = 0] = At(rest4, 0)
        BY DEF At
  <1>17. AmountAfter(ShardBits, category, r3) = TokenOf(ShardBits, category, commitment, At(rest4, 0))
    <2>1. AmountAfter(ShardBits, category, r3) = TokenOf(ShardBits, category, r3.got, [r3 EXCEPT !.got = 0])
          BY <1>14, Zenon DEF AmountAfter
    <2> QED BY <1>16, <2>1
  <1> PICK r4 : r4 = At(rest4, 0)
      OBVIOUS
  <1>18. r4.ok /\ r4.got = 0 /\ r4.rest = rest4
        BY Parts
  <1>19. TokenOf(ShardBits, category, commitment, r4)
         = [ok |-> Yes,
            token |-> [category |-> category, amount |-> 0, nft |-> TRUE, capability |-> 1, commitment |-> commitment],
            locking |-> rest4]
    <2>1. Length(commitment) \in 1 .. 40
          BY DEF Word
    <2>2. (/\ r4.ok
           /\ IF Flag(ShardBits, 32) THEN ShardBits % 16 <= 2 ELSE ShardBits % 16 = 0
           /\ Flag(ShardBits, 64) => Flag(ShardBits, 32) /\ Length(commitment) \in 1 .. 40
           /\ Flag(ShardBits, 16) => r4.got >= 1) = Yes
          BY <1>14, <1>18, <2>1 DEF Yes
    <2>3. Flag(ShardBits, 32) = TRUE
          BY <1>14
    <2> HIDE DEF Yes
    <2> QED BY <1>14, <1>18, <2>2, <2>3, Zenon DEF TokenOf
  <1> QED BY <1>5, <1>6, <1>7, <1>10, <1>12, <1>15, <1>17, <1>19, Zenon DEF SplitIs, MakeShardTokenOut

-----------------------------------------------------------------------------
(* Pushes *)

(* The length that goes before a push is read back, whichever of its forms *)
(* it has                                                                  *)
LEMMA PushPrefixIs ==
  ASSUME NEW n \in Number, NEW b, NEW got, ByteString(b),
         NEW first, first = Take(At(Join(PushPrefix(n), b), got), 1)
  PROVE  /\ ByteString(PushPrefix(n)) /\ Length(PushPrefix(n)) \in {1, 2, 3, 5}
         /\ first.ok /\ first.got[1][1] = "byte" /\ PushSize(first, first.got[1][2]) = At(b, n)
         /\ n < 76 => Length(PushPrefix(n)) = 1
  <1>0. n \in Nat
        BY NumberIsNat
  <1>1. CASE n < 76
    <2>1. PushPrefix(n) = LE(n, 1) /\ Low(n, 1) = n /\ Digit(n, 1) = n
          BY <1>0, <1>1, LowOfSmall, SMT DEF PushPrefix
    <2>2. ByteString(LE(n, 1)) /\ Length(LE(n, 1)) = 1
          BY LEIsString
    <2>3. first = At(b, LE(n, 1))
          BY <2>1, <2>2, TakePart
    <2>4. LE(n, 1)[1] = Byte(n)
      <3>1. 1 \in 1 .. 1 /\ 1 \in Nat
            OBVIOUS
      <3> QED BY <1>0, <2>1, <3>1, DigitsOfLE
    <2>5. first.ok /\ first.got[1][1] = "byte" /\ first.got[1][2] = n
          BY <2>3, <2>4, WidthOfByte, Parts
    <2>6. PushSize(first, n) = NumberOf(first)
          BY <1>0, <1>1, SMT DEF PushSize
    <2>7. FromLE(LE(n, 1)) = n
          BY <2>1, FromLEOfLE
    <2> QED BY <2>1, <2>2, <2>3, <2>5, <2>6, <2>7, NumberOfAt
  <1>2. CASE n >= 76 /\ n <= 255
    <2>1. PushPrefix(n) = Join(<<Byte(76)>>, LE(n, 1)) /\ Low(n, 1) = n
      <3>1. PushPrefix(n) = <<Byte(76)>> \o LE(n, 1)
            BY <1>0, <1>2, SMT DEF PushPrefix
      <3>2. Low(n, 1) = n
            BY <1>0, <1>2, LowOfSmall, SMT
      <3> HIDE <1>2
      <3> QED BY <3>1, <3>2, Zenon DEF Join
    <2>0. ~(n < 76)
          BY <1>0, <1>2, SMT
    <2> HIDE <1>2
    <2>2. ByteString(LE(n, 1)) /\ Length(LE(n, 1)) = 1 /\ ByteString(<<Byte(76)>>) /\ Length(<<Byte(76)>>) = 1
          BY LEIsString, ByteIsString
    <2>3. ByteString(PushPrefix(n)) /\ Length(PushPrefix(n)) = 1 + 1
          BY <2>1, <2>2, JoinIs
    <2>4. Join(PushPrefix(n), b) = Join(<<Byte(76)>>, Join(LE(n, 1), b)) /\ ByteString(Join(LE(n, 1), b))
          BY <2>1, <2>2, JoinRegroups, JoinIs
    <2>5. first = At(Join(LE(n, 1), b), <<Byte(76)>>)
          BY <2>4, ByteFrom
    <2>6. first.ok /\ first.got[1][1] = "byte" /\ first.got[1][2] = 76
          BY <2>5, ByteIsString, WidthOfByte, Parts
    <2>7. PushSize(first, 76) = NumberOf(Take(first, 1))
          BY SMT DEF PushSize
    <2>8. NumberOf(Take(At(Join(LE(n, 1), b), <<Byte(76)>>), 1)) = At(b, n)
          BY <2>1, TakeNumber DEF Join
    <2>9. 1 + 1 \in {1, 2, 3, 5}
          OBVIOUS
    <2> QED BY <2>0, <2>3, <2>5, <2>6, <2>7, <2>8, <2>9
  <1>3. CASE n >= 256 /\ n <= 65535
    <2>1. PushPrefix(n) = Join(<<Byte(77)>>, LE(n, 2)) /\ Low(n, 2) = n
      <3>1. PushPrefix(n) = <<Byte(77)>> \o LE(n, 2)
            BY <1>0, <1>3, SMT DEF PushPrefix
      <3>2. Low(n, 2) = n
            BY <1>0, <1>3, LowOfSmall, SMT
      <3> HIDE <1>3
      <3> QED BY <3>1, <3>2, Zenon DEF Join
    <2>0. ~(n < 76)
          BY <1>0, <1>3, SMT
    <2> HIDE <1>3
    <2>2. ByteString(LE(n, 2)) /\ Length(LE(n, 2)) = 2 /\ ByteString(<<Byte(77)>>) /\ Length(<<Byte(77)>>) = 1
          BY LEIsString, ByteIsString
    <2>3. ByteString(PushPrefix(n)) /\ Length(PushPrefix(n)) = 1 + 2
          BY <2>1, <2>2, JoinIs
    <2>4. Join(PushPrefix(n), b) = Join(<<Byte(77)>>, Join(LE(n, 2), b)) /\ ByteString(Join(LE(n, 2), b))
          BY <2>1, <2>2, JoinRegroups, JoinIs
    <2>5. first = At(Join(LE(n, 2), b), <<Byte(77)>>)
          BY <2>4, ByteFrom
    <2>6. first.ok /\ first.got[1][1] = "byte" /\ first.got[1][2] = 77
          BY <2>5, ByteIsString, WidthOfByte, Parts
    <2>7. PushSize(first, 77) = NumberOf(Take(first, 2))
          BY SMT DEF PushSize
    <2>8. NumberOf(Take(At(Join(LE(n, 2), b), <<Byte(77)>>), 2)) = At(b, n)
          BY <2>1, TakeNumber DEF Join
    <2>9. 1 + 2 \in {1, 2, 3, 5}
          OBVIOUS
    <2> QED BY <2>0, <2>3, <2>5, <2>6, <2>7, <2>8, <2>9
  <1>4. CASE n > 65535
    <2>1. PushPrefix(n) = Join(<<Byte(78)>>, LE(n, 4)) /\ Low(n, 4) = n
      <3>1. PushPrefix(n) = <<Byte(78)>> \o LE(n, 4)
            BY <1>0, <1>4, SMT DEF PushPrefix
      <3>2. Low(n, 4) = n
            BY <1>0, <1>4, LowOfSmall, SMT
      <3> HIDE <1>4
      <3> QED BY <3>1, <3>2, Zenon DEF Join
    <2>0. ~(n < 76)
          BY <1>0, <1>4, SMT
    <2> HIDE <1>4
    <2>2. ByteString(LE(n, 4)) /\ Length(LE(n, 4)) = 4 /\ ByteString(<<Byte(78)>>) /\ Length(<<Byte(78)>>) = 1
          BY LEIsString, ByteIsString
    <2>3. ByteString(PushPrefix(n)) /\ Length(PushPrefix(n)) = 1 + 4
          BY <2>1, <2>2, JoinIs
    <2>4. Join(PushPrefix(n), b) = Join(<<Byte(78)>>, Join(LE(n, 4), b)) /\ ByteString(Join(LE(n, 4), b))
          BY <2>1, <2>2, JoinRegroups, JoinIs
    <2>5. first = At(Join(LE(n, 4), b), <<Byte(78)>>)
          BY <2>4, ByteFrom
    <2>6. first.ok /\ first.got[1][1] = "byte" /\ first.got[1][2] = 78
          BY <2>5, ByteIsString, WidthOfByte, Parts
    <2>7. PushSize(first, 78) = NumberOf(Take(first, 4))
          BY SMT DEF PushSize
    <2>8. NumberOf(Take(At(Join(LE(n, 4), b), <<Byte(78)>>), 4)) = At(b, n)
          BY <2>1, TakeNumber DEF Join
    <2>9. 1 + 4 \in {1, 2, 3, 5}
          OBVIOUS
    <2> QED BY <2>0, <2>3, <2>5, <2>6, <2>7, <2>8, <2>9
  <1> QED BY <1>0, <1>1, <1>2, <1>3, <1>4, SMT

(* A push is longer than what it pushes by one, two, three or five bytes *)
LEMMA PushIsString ==
  ASSUME NEW s, ByteString(s), Length(s) \in Number
  PROVE  /\ ByteString(Push(s)) /\ Length(Push(s)) \in {Length(s) + 1, Length(s) + 2, Length(s) + 3, Length(s) + 5}
         /\ Push(s) = Join(PushPrefix(Length(s)), s) /\ Push(s) # <<>>
         /\ Length(s) < 76 => Length(Push(s)) = Length(s) + 1
  <1>1. /\ ByteString(PushPrefix(Length(s))) /\ Length(PushPrefix(Length(s))) \in {1, 2, 3, 5}
        /\ Length(s) < 76 => Length(PushPrefix(Length(s))) = 1
    <2>1. ByteString(<<>>)
          BY EmptyString
    <2> QED BY <2>1, PushPrefixIs
  <1>2. Push(s) = Join(PushPrefix(Length(s)), s)
        BY Zenon DEF Push, Join
  <1>3. Length(s) \in Nat
        BY LengthIsNatural
  <1>4. ByteString(Push(s)) /\ Length(Push(s)) = Length(PushPrefix(Length(s))) + Length(s)
        BY <1>1, <1>2, JoinIs
  <1>5. Length(Push(s)) # 0
        BY <1>1, <1>3, <1>4
  <1> QED BY <1>1, <1>2, <1>3, <1>4, <1>5, EmptyString

(* One push is read back *)
LEMMA NextPushIs ==
  ASSUME NEW s, ByteString(s), Length(s) \in Number, NEW b, ByteString(b), NEW got, NEW pushes
  PROVE  NextPush([reader |-> At(Join(Push(s), b), got), pushes |-> pushes])
         = [reader |-> At(b, s), pushes |-> Append(pushes, s)]
  <1> PICK p : p = [reader |-> At(Join(Push(s), b), got), pushes |-> pushes]
      OBVIOUS
  <1>0. p.reader = At(Join(Push(s), b), got) /\ p.pushes = pushes
        OBVIOUS
  <1>1. ByteString(Push(s)) /\ Push(s) = Join(PushPrefix(Length(s)), s) /\ Push(s) # <<>>
        BY PushIsString
  <1>2. ByteString(Join(s, b)) /\ ByteString(PushPrefix(Length(s)))
        BY JoinIs, PushPrefixIs
  <1>3. Join(Push(s), b) = Join(PushPrefix(Length(s)), Join(s, b))
        BY <1>1, <1>2, JoinRegroups
  <1> PICK first : first = Take(p.reader, 1)
      OBVIOUS
  <1>4. first = Take(At(Join(PushPrefix(Length(s)), Join(s, b)), got), 1)
        BY <1>0, <1>3
  <1>5. first.ok /\ first.got[1][1] = "byte" /\ PushSize(first, first.got[1][2]) = At(Join(s, b), Length(s))
        BY <1>2, <1>4, PushPrefixIs
  <1>6. PushAt(first) = Take(At(Join(s, b), Length(s)), Length(s))
        BY <1>5, Parts DEF PushAt, TakeCounted
  <1>7. PushAt(first) = At(b, s)
        BY <1>6, TakePart
  <1>8. p.reader.rest # <<>> /\ p.reader.ok
    <2>1. p.reader.rest = Join(Push(s), b) /\ p.reader.ok
          BY <1>0, Parts
    <2>2. Length(Join(Push(s), b)) = Length(Push(s)) + Length(b)
          BY <1>1, JoinIs
    <2>3. Length(b) \in Nat /\ Length(Push(s)) \in Nat /\ Length(Push(s)) # 0
          BY <1>1, LengthIsNatural, ShortString
    <2>4. Length(Join(Push(s), b)) # 0
          BY <2>2, <2>3
    <2> QED BY <2>1, <2>4, EmptyString
  <1>9. NextPush(p) = Pushed(p, PushAt(first))
        BY <1>8 DEF NextPush
  <1>10. Pushed(p, At(b, s)) = [reader |-> At(b, s), pushes |-> Append(pushes, s)]
         BY <1>0, Parts DEF Pushed
  <1> QED BY <1>7, <1>9, <1>10

(* At the end of the script nothing is read *)
LEMMA NoPushLeft ==
  ASSUME NEW got, NEW pushes
  PROVE  NextPush([reader |-> At(<<>>, got), pushes |-> pushes]) = [reader |-> At(<<>>, got), pushes |-> pushes]
  BY Parts DEF NextPush

ParseFrom(base, script) == Fold(LAMBDA st, i : NextPush(st), base, script)

(* A trace of NextPush ends in what the fold returns *)
LEMMA ParseTrace ==
  ASSUME NEW script, Len(script) \in Nat, NEW b,
         NEW t, Steps(t, Len(script)), t[0] = b,
         \A i \in 1 .. Len(script) : t[i] = NextPush(t[i - 1])
  PROVE  ParseFrom(b, script) = t[Len(script)]
  <1> DEFINE Step(i, r) == CHOOSE v \in {NextPush(q) : q \in {r}} : TRUE
             Trace(g) == g = [i \in 0 .. Len(script) |-> IF i = 0 THEN b ELSE Step(i, g[i - 1])]
             Result == CHOOSE g : Trace(g)
  <1>1. \A i, r : Step(i, r) = NextPush(r)
        BY Zenon
  <1>2. \A i \in 1 .. Len(script) : t[i] = Step(i, t[i - 1])
        BY <1>1
  <1>3. ParseFrom(b, script) = Result[Len(script)]
        BY Zenon DEF ParseFrom, Fold
  <1> HIDE DEF Step
  <1>4. Trace(t)
    <2>1. \A i \in 0 .. Len(script) : t[i] = IF i = 0 THEN b ELSE Step(i, t[i - 1])
          BY <1>2
    <2> QED BY <2>1, Zenon DEF Steps
  <1>5. Trace(Result)
        BY <1>4, Zenon
  <1> HIDE DEF Result
  <1>6. \A i \in 0 .. Len(script) : Result[i] = IF i = 0 THEN b ELSE Step(i, Result[i - 1])
        BY <1>5
  <1> HIDE DEF Trace
  <1>7. Alike(Result, t, Len(script))
        BY <1>2, <1>6 DEF Alike
  <1> QED BY <1>3, <1>7, SameTrace

(* A script that pushes the items: u[i] is what is left of it after i of them *)
Pushing(u, items, script) ==
  /\ Len(items) \in Nat /\ items = [i \in 1 .. Len(items) |-> items[i]]
  /\ u[0] = script /\ u[Len(items)] = <<>>
  /\ \A i \in 0 .. Len(items) : ByteString(u[i])
  /\ \A i \in 1 .. Len(items) : /\ ByteString(items[i]) /\ Length(items[i]) \in Number
                                /\ u[i - 1] = Join(Push(items[i]), u[i])

(* One atom, at least, to a push *)
LEMMA OneMore ==
  ASSUME NEW m \in Nat, NEW x \in Nat, NEW y \in Nat \ {0}, x >= m - 1
  PROVE  y + x >= m
  OBVIOUS

(* A script has no fewer atoms than pushes: the fold of ParseScriptPushes  *)
(* is long enough                                                          *)
LEMMA AtomsOfPushes ==
  ASSUME NEW u, NEW items, NEW script, Pushing(u, items, script)
  PROVE  Len(items) <= Len(script)
  <1> DEFINE n == Len(items)
             Good(k) == Len(u[n - k]) >= k
             Bad == {k \in 0 .. n : ~Good(k)}
  <1>0. n \in Nat /\ \A i \in 0 .. n : ByteString(u[i]) /\ Len(u[i]) \in Nat
        BY StringIsSeq DEF Pushing
  <1> HIDE DEF Good
  <1>1. Bad = {}
    <2> SUFFICES ASSUME Bad # {} PROVE FALSE
        OBVIOUS
    <2>1. Bad \in SUBSET Nat
          OBVIOUS
    <2> HIDE DEF Bad
    <2>2. PICK m \in Bad : \A l \in Bad : m <= l
          BY <2>1, LeastNatural
    <2> USE DEF Bad
    <2>3. CASE m = 0
      <3>1. Len(u[n - 0]) >= 0
            BY <1>0
      <3> QED BY <2>2, <2>3, <3>1 DEF Good
    <2>4. CASE m # 0
      <3>1. m \in 1 .. n /\ m - 1 \in 0 .. n /\ m - 1 \notin Bad
            BY <1>0, <2>2, <2>4
      <3> PICK i : i = n - (m - 1)
          OBVIOUS
      <3>2. i \in 1 .. n /\ i \in 0 .. n /\ i - 1 = n - m /\ i - 1 \in 0 .. n
            BY <1>0, <3>1
      <3> PICK j : j = n - m
          OBVIOUS
      <3>3. Len(u[i]) >= m - 1 /\ Len(u[i]) \in Nat
            BY <1>0, <3>1, <3>2 DEF Good
      <3>4. u[j] = Join(Push(items[i]), u[i]) /\ ByteString(items[i]) /\ Length(items[i]) \in Number
            BY <3>2 DEF Pushing
      <3>5. ByteString(Push(items[i])) /\ Push(items[i]) # <<>>
            BY <3>4, PushIsString
      <3>6. Len(Push(items[i])) \in Nat \ {0}
        <4> PICK q : q = Push(items[i])
            OBVIOUS
        <4>1. q \in Seq(Range(q)) /\ q # <<>>
              BY <3>5, StringIsSeq
        <4> QED BY <4>1, EmptySeq
      <3>7. Len(u[j]) = Len(Push(items[i])) + Len(u[i])
            BY <1>0, <3>2, <3>4, <3>5, JoinedStrings DEF Join
      <3>8. Len(u[j]) >= m
        <4> PICK x : x = Len(u[i])
            OBVIOUS
        <4> PICK y : y = Len(Push(items[i]))
            OBVIOUS
        <4>1. m \in Nat /\ x \in Nat /\ y \in Nat \ {0} /\ x >= m - 1
              BY <2>1, <3>3, <3>6 DEF Bad
        <4>2. y + x >= m
              BY <4>1, OneMore
        <4> QED BY <3>7, <4>2
      <3> QED BY <2>2, <3>8 DEF Good
    <2> QED BY <2>3, <2>4
  <1>2. Len(u[n - n]) >= n
        BY <1>0, <1>1 DEF Good
  <1>3. u[n - n] = script
        BY <1>0 DEF Pushing
  <1> QED BY <1>2, <1>3

(* parseScriptPushes reads back every item that was pushed, in order *)
LEMMA ParseIs ==
  ASSUME NEW u, NEW items, NEW script, Pushing(u, items, script)
  PROVE  ParseScriptPushes(script) = [ok |-> Yes, pushes |-> items]
  <1> DEFINE n == Len(items)
             last(i) == IF i = 0 THEN <<>> ELSE items[i]
             state(i) == [reader |-> At(u[i], last(i)), pushes |-> Part(items, i)]
             t == [i \in 0 .. Len(script) |-> IF i <= n THEN state(i) ELSE state(n)]
  <1>1. /\ n \in Nat /\ Len(script) \in Nat /\ n <= Len(script)
        /\ u[0] = script /\ u[n] = <<>> /\ \A i \in 0 .. n : ByteString(u[i])
    <2>1. ByteString(script)
          BY DEF Pushing
    <2> QED BY <2>1, AtomsOfPushes, StringIsSeq DEF Pushing
  <1>2. \A i \in 1 .. n : /\ ByteString(items[i]) /\ Length(items[i]) \in Number
                          /\ u[i - 1] = Join(Push(items[i]), u[i])
        BY DEF Pushing
  <1>3. Part(items, n) = items /\ Part(items, 0) = <<>>
    <2>1. Part(items, n) = items
          BY DEF Part, Pushing
    <2>2. Part(items, 0) = <<>>
          BY DEF Part
    <2> QED BY <2>1, <2>2
  <1>4. Steps(t, Len(script))
        BY DEF Steps
  <1>5. t[0] = state(0) /\ t[Len(script)] = state(n) /\ \A i \in 0 .. Len(script) : t[i] = IF i <= n THEN state(i) ELSE state(n)
        BY <1>1
  <1> HIDE DEF n, state
  <1>6. state(0) = [reader |-> Reader(script), pushes |-> <<>>]
        BY <1>1, <1>3, ReaderAt DEF state
  <1>7. state(n).reader = At(<<>>, last(n)) /\ state(n).pushes = items /\ state(n) = [reader |-> At(<<>>, last(n)), pushes |-> items]
        BY <1>1, <1>3 DEF state
  <1>8. ASSUME NEW i \in 1 .. n
        PROVE  state(i) = NextPush(state(i - 1))
    <2>1. i - 1 \in 0 .. n /\ i \in 0 .. n /\ i - 1 \in Nat /\ i - 1 + 1 = i /\ i # 0
          BY <1>1
    <2> PICK k : k = i - 1
        OBVIOUS
    <2>2. state(k) = [reader |-> At(Join(Push(items[i]), u[i]), last(k)), pushes |-> Part(items, k)]
          BY <1>2 DEF state
    <2>3. NextPush([reader |-> At(Join(Push(items[i]), u[i]), last(k)), pushes |-> Part(items, k)])
          = [reader |-> At(u[i], items[i]), pushes |-> Append(Part(items, k), items[i])]
          BY <1>1, <1>2, <2>1, NextPushIs
    <2>4. Append(Part(items, k), items[i]) = Part(items, i)
          BY <2>1, AppendPart
    <2>5. state(i) = [reader |-> At(u[i], items[i]), pushes |-> Part(items, i)]
          BY <2>1 DEF state
    <2> QED BY <2>2, <2>3, <2>4, <2>5
  <1>9. state(n) = NextPush(state(n))
        BY <1>7, NoPushLeft
  <1>10. ASSUME NEW i \in 1 .. Len(script)
         PROVE  t[i] = NextPush(t[i - 1])
    <2>1. i - 1 \in 0 .. Len(script) /\ i \in 0 .. Len(script)
          BY <1>1
    <2> HIDE DEF t
    <2>2. CASE i <= n
      <3>1. i \in 1 .. n /\ i - 1 <= n
            BY <1>1, <2>2
      <3>2. t[i] = state(i) /\ t[i - 1] = state(i - 1)
            BY <1>5, <2>1, <2>2, <3>1
      <3> QED BY <1>8, <3>1, <3>2
    <2>3. CASE ~(i <= n)
      <3>1. t[i] = state(n)
            BY <1>5, <2>1, <2>3
      <3>2. t[i - 1] = state(n)
        <4>1. CASE i - 1 = n
              BY <1>1, <1>5, <2>1, <4>1
        <4>2. CASE i - 1 # n
          <5>1. ~(i - 1 <= n)
                BY <1>1, <2>3, <4>2
          <5> QED BY <1>5, <2>1, <5>1
        <4> QED BY <4>1, <4>2
      <3> QED BY <1>9, <3>1, <3>2
    <2> QED BY <2>2, <2>3
  <1> HIDE DEF t
  <1>11. ParseFrom(state(0), script) = t[Len(script)]
         BY <1>1, <1>4, <1>5, <1>10, ParseTrace
  <1> DEFINE p == ParseFrom([reader |-> Reader(script), pushes |-> <<>>], script)
  <1>12. ParseScriptPushes(script) = [ok |-> p.reader.ok, pushes |-> p.pushes]
         BY Zenon DEF ParseScriptPushes, ParseFrom
  <1>13. p = state(n)
         BY <1>5, <1>6, <1>11
  <1> HIDE DEF p
  <1>14. p.reader.ok = Yes
         BY <1>7, <1>13 DEF At
  <1> QED BY <1>7, <1>12, <1>13, <1>14

(* Two pushes: the script of a signature, and the tail of the covenant's *)
LEMMA TwoPushes ==
  ASSUME NEW a, NEW b, ByteString(a), Length(a) \in Number, ByteString(b), Length(b) \in Number
  PROVE  ParseScriptPushes(Push(a) \o Push(b)) = [ok |-> Yes, pushes |-> <<a, b>>]
  <1> PICK items : items = <<a, b>>
      OBVIOUS
  <1> DEFINE u == [i \in 0 .. 2 |-> CASE i = 0 -> Join(Push(a), Push(b)) [] i = 1 -> Push(b) [] OTHER -> <<>>]
  <1>1. ByteString(Push(a)) /\ ByteString(Push(b))
        BY PushIsString
  <1>2. Push(b) = Join(Push(b), <<>>)
        BY <1>1, JoinNothing DEF Join
  <1>3. u[0] = Join(Push(a), Push(b)) /\ u[1] = Push(b) /\ u[2] = <<>>
        OBVIOUS
  <1> HIDE DEF u
  <1>4. Len(items) = 2 /\ items = [i \in 1 .. 2 |-> items[i]] /\ items[1] = a /\ items[2] = b
        OBVIOUS
  <1>5. ByteString(u[0]) /\ ByteString(u[1]) /\ ByteString(u[2])
        BY <1>1, <1>3, JoinIs, EmptyString
  <1>6. \A i \in 0 .. 2 : i = 0 \/ i = 1 \/ i = 2
        OBVIOUS
  <1>7. \A i \in 1 .. 2 : (i = 1 /\ i - 1 = 0) \/ (i = 2 /\ i - 1 = 1)
        OBVIOUS
  <1>8. Pushing(u, items, Join(Push(a), Push(b)))
    <2>1. \A i \in 1 .. 2 : /\ ByteString(items[i]) /\ Length(items[i]) \in Number
                            /\ u[i - 1] = Join(Push(items[i]), u[i])
          BY <1>2, <1>3, <1>4, <1>7
    <2>2. \A i \in 0 .. 2 : ByteString(u[i])
          BY <1>5, <1>6
    <2> QED BY <1>3, <1>4, <2>1, <2>2 DEF Pushing
  <1> QED BY <1>8, ParseIs DEF Join

(* A P2PKH lock: 25 bytes, its hash is read back, and it carries no token *)
LEMMA P2PKHIs ==
  ASSUME NEW hash, ByteString(hash), Length(hash) = 20
  PROVE  /\ ByteString(P2PKH(hash)) /\ Length(P2PKH(hash)) = 25
         /\ P2PKHHash(P2PKH(hash)) = hash
         /\ SplitCashTokensPrefix(P2PKH(hash)) = [ok |-> Yes, token |-> NoToken, locking |-> P2PKH(hash)]
  <1> DEFINE b3 == <<118, 169, 20>>
             b2 == <<136, 172>>
             head == [i \in 1 .. 3 |-> Byte(b3[i])]
             tail == [i \in 1 .. 2 |-> Byte(b2[i])]
  <1>1. ByteString(head) /\ Length(head) = 3 /\ ByteString(tail) /\ Length(tail) = 2
        BY BytesAreStrings, ZenonT(30)
  <1>2. P2PKH(hash) = Join(Join(head, hash), tail)
    <2>1. <<Byte(118), Byte(169), Byte(20)>> = head /\ <<Byte(136), Byte(172)>> = tail
          OBVIOUS
    <2> QED BY <2>1, Zenon DEF P2PKH, Join
  <1>3. head[1] = Byte(118) /\ Len(head) = 3
        OBVIOUS
  <1> HIDE DEF head, tail
  <1>4. P2PKH(hash) = Join(head, Join(hash, tail)) /\ ByteString(Join(hash, tail))
        BY <1>1, <1>2, JoinRegroups, JoinIs
  <1>5. ByteString(P2PKH(hash)) /\ Length(P2PKH(hash)) = 25
    <2>1. Length(Join(hash, tail)) = 22 /\ Length(P2PKH(hash)) = Length(head) + Length(Join(hash, tail)) /\ ByteString(P2PKH(hash))
          BY <1>1, <1>4, JoinIs
    <2> QED BY <1>1, <2>1
  <1>6. Take(Take(Reader(P2PKH(hash)), 3), 20) = At(tail, hash)
    <2>1. Take(Reader(P2PKH(hash)), 3) = At(Join(hash, tail), head)
          BY <1>1, <1>4, ReaderAt, TakePart
    <2> QED BY <1>1, <2>1, TakePart
  <1>7. P2PKHHash(P2PKH(hash)) = hash
    <2>1. Take(Take(Reader(P2PKH(hash)), 3), 20).got = hash
          BY <1>6, Parts
    <2> QED BY <1>5, <2>1 DEF P2PKHHash
  <1>8. P2PKH(hash) # <<>> /\ P2PKH(hash)[1] = Byte(118)
    <2>1. P2PKH(hash) # <<>>
          BY <1>5, EmptyString
    <2>2. \A i \in 1 .. Len(head) : Join(head, Join(hash, tail))[i] = head[i]
          BY <1>1, <1>4, JoinedStrings DEF Join
    <2> QED BY <1>3, <1>4, <2>1, <2>2
  <1>9. Byte(118) # Byte(TOKEN_MARK)
        BY WidthOfByte DEF TOKEN_MARK
  <1> QED BY <1>5, <1>7, <1>8, <1>9 DEF SplitCashTokensPrefix, Yes

HashString(s) == \E x : s = << <<"hash", x>> >>

(* A hash is 32 bytes *)
LEMMA HashIsWord ==
  ASSUME NEW s, HashString(s)
  PROVE  Word(s) /\ ByteString(s) /\ Length(s) = 32 /\ s # <<>>
  <1>1. PICK x : s = << <<"hash", x>> >>
        BY DEF HashString
  <1> PICK a : a = <<"hash", x>>
      OBVIOUS
  <1>2. a[1] = "hash"
        OBVIOUS
  <1>3. Width(a) = 32
        BY <1>2 DEF Width
  <1>4. 32 \in Nat \ {0}
        OBVIOUS
  <1>5. ByteString(<<a>>) /\ Length(<<a>>) = 32
        BY <1>3, <1>4, AtomString
  <1> QED BY <1>1, <1>5 DEF Word

(* What is hashed is a hash *)
LEMMA HashesAreHashes ==
  ASSUME NEW s
  PROVE  HashString(Sha256(s)) /\ HashString(Hash256(s))
  BY Zenon DEF HashString, Sha256, Hash256

(* A public key is 33 bytes, its hash 20 and a signature 64 *)
LEMMA KeyStrings ==
  ASSUME NEW key, NEW digest
  PROVE  /\ ByteString(PublicKey(key)) /\ Length(PublicKey(key)) = 33 /\ PublicKey(key)[1][2] = key
         /\ ByteString(Hash160(PublicKey(key))) /\ Length(Hash160(PublicKey(key))) = 20
         /\ ByteString(SchnorrSign(digest, key)) /\ Length(SchnorrSign(digest, key)) = 64
  <1> PICK a : a = <<"pub", key>>
      OBVIOUS
  <1> PICK h : h = <<"hash160", <<a>> >>
      OBVIOUS
  <1> PICK g : g = <<"sig", <<key, digest>> >>
      OBVIOUS
  <1>1. a[1] = "pub" /\ a[2] = key /\ h[1] = "hash160" /\ g[1] = "sig"
        OBVIOUS
  <1>2. Width(a) = 33 /\ Width(h) = 20 /\ Width(g) = 64
        BY <1>1 DEF Width
  <1>3. 33 \in Nat \ {0} /\ 20 \in Nat \ {0} /\ 64 \in Nat \ {0}
        OBVIOUS
  <1>4. /\ ByteString(<<a>>) /\ Length(<<a>>) = 33 /\ ByteString(<<h>>) /\ Length(<<h>>) = 20
        /\ ByteString(<<g>>) /\ Length(<<g>>) = 64
        BY <1>2, <1>3, AtomString
  <1>5. PublicKey(key) = <<a>> /\ Hash160(PublicKey(key)) = <<h>> /\ SchnorrSign(digest, key) = <<g>>
        BY Zenon DEF PublicKey, Hash160, SchnorrSign
  <1>6. <<a>>[1] = a
        OBVIOUS
  <1> QED BY <1>1, <1>4, <1>5, <1>6

(* Signing *)

Digest(tx, i, coin) == Hash256(GetPreimage(tx, i, coin.lock, coin.value, <<>>))
Signature(tx, i, coin) == SchnorrSign(Digest(tx, i, coin), coin.key) \o <<Byte(HASHTYPE)>>
SigScript(tx, i, coin) == Push(Signature(tx, i, coin)) \o Push(PublicKey(coin.key))

(* The script of a signed input pushes the signature and the key *)
LEMMA SigScriptIs ==
  ASSUME NEW tx, NEW i, NEW coin
  PROVE  /\ ByteString(SigScript(tx, i, coin)) /\ Length(SigScript(tx, i, coin)) = 100
         /\ ParseScriptPushes(SigScript(tx, i, coin)) = [ok |-> Yes, pushes |-> <<Signature(tx, i, coin), PublicKey(coin.key)>>]
  <1> PICK sig : sig = Signature(tx, i, coin)
      OBVIOUS
  <1> PICK pub : pub = PublicKey(coin.key)
      OBVIOUS
  <1>1. ByteString(sig) /\ Length(sig) = 65
    <2>1. sig = Join(SchnorrSign(Digest(tx, i, coin), coin.key), <<Byte(HASHTYPE)>>)
          BY Zenon DEF Signature, Join
    <2>2. ByteString(sig) /\ Length(sig) = 64 + 1
          BY <2>1, KeyStrings, ByteIsString, JoinIs
    <2> QED BY <2>2
  <1>2. ByteString(pub) /\ Length(pub) = 33
        BY KeyStrings
  <1>3. Length(sig) \in Number /\ Length(pub) \in Number
        BY <1>1, <1>2, SmallNumbers
  <1>4. ByteString(Push(sig)) /\ Length(Push(sig)) = 66 /\ ByteString(Push(pub)) /\ Length(Push(pub)) = 34
        BY <1>1, <1>2, <1>3, PushIsString
  <1>5. SigScript(tx, i, coin) = Join(Push(sig), Push(pub))
        BY Zenon DEF SigScript, Join
  <1>6. ByteString(Join(Push(sig), Push(pub))) /\ Length(Join(Push(sig), Push(pub))) = 100
    <2>1. ByteString(Join(Push(sig), Push(pub))) /\ Length(Join(Push(sig), Push(pub))) = 66 + 34
          BY <1>4, JoinIs
    <2> QED BY <2>1
  <1>7. ParseScriptPushes(Push(sig) \o Push(pub)) = [ok |-> Yes, pushes |-> <<sig, pub>>]
        BY <1>1, <1>2, <1>3, TwoPushes
  <1> QED BY <1>5, <1>6, <1>7 DEF Join

(* The scripts of the inputs are no part of what is signed *)
AlikeButScripts(t1, t2) ==
  /\ t1.version = t2.version /\ t1.locktime = t2.locktime /\ t1.outputs = t2.outputs
  /\ Len(t1.inputs) = Len(t2.inputs)
  /\ \A j \in 1 .. Len(t1.inputs) : /\ t1.inputs[j].txid = t2.inputs[j].txid
                                    /\ t1.inputs[j].vout = t2.inputs[j].vout
                                    /\ t1.inputs[j].sequence = t2.inputs[j].sequence

(* Two transactions alike but for those scripts have the same preimages *)
LEMMA PreimageIgnoresScripts ==
  ASSUME NEW t1, NEW t2, AlikeButScripts(t1, t2), NEW i \in 1 .. Len(t1.inputs), NEW code0, NEW value, NEW prefix
  PROVE  GetPreimage(t1, i, code0, value, prefix) = GetPreimage(t2, i, code0, value, prefix)
  <1> USE DEF AlikeButScripts
  <1>1. ASSUME NEW j \in 1 .. Len(t1.inputs)
        PROVE  GetOutpoint(t1.inputs[j]) = GetOutpoint(t2.inputs[j])
        BY Zenon DEF GetOutpoint
  <1>2. [j \in 1 .. Len(t1.inputs) |-> GetOutpoint(t1.inputs[j])]
        = [j \in 1 .. Len(t2.inputs) |-> GetOutpoint(t2.inputs[j])]
        BY <1>1
  <1>3. [j \in 1 .. Len(t1.inputs) |-> LE(t1.inputs[j].sequence, 4)]
        = [j \in 1 .. Len(t2.inputs) |-> LE(t2.inputs[j].sequence, 4)]
        OBVIOUS
  <1>4. GetAllPrevOut(t1.inputs) = GetAllPrevOut(t2.inputs)
        BY <1>2, Zenon DEF GetAllPrevOut, Concat
  <1>5. GetAllSequences(t1.inputs) = GetAllSequences(t2.inputs)
        BY <1>3, Zenon DEF GetAllSequences, Concat
  <1>6. GetOutpoint(t1.inputs[i]) = GetOutpoint(t2.inputs[i]) /\ t1.inputs[i].sequence = t2.inputs[i].sequence
        BY <1>1
  <1> QED BY <1>4, <1>5, <1>6, Zenon DEF GetPreimage

WithScript(tx, i, s) == [tx EXCEPT !.inputs[i].scriptSig = s]

(* signInput sets the script of its input and nothing else *)
LEMMA SignInputIs ==
  ASSUME NEW tx, NEW i, NEW coin, ByteString(GetOutpoint(tx.inputs[i]))
  PROVE  SignInput(tx, i, coin.key, coin.lock, coin.value)
         = WithScript(tx, i, SigScript(tx, i, coin))
  <1> DEFINE a == LE(tx.version, 4)
             p == Hash256(GetAllPrevOut(tx.inputs))
             q == Hash256(GetAllSequences(tx.inputs))
             o == GetOutpoint(tx.inputs[i])
  <1>1. Join(Join(Join(Join(a, p), q), o), <<>>) = Join(Join(Join(a, p), q), o)
    <2>1. ByteString(a) /\ ByteString(p) /\ ByteString(q) /\ ByteString(o)
          BY LEIsString, HashIsWord, HashesAreHashes
    <2> HIDE DEF a, p, q, o
    <2>2. ByteString(Join(a, p)) /\ ByteString(Join(Join(a, p), q)) /\ ByteString(Join(Join(Join(a, p), q), o))
          BY <2>1, JoinIs
    <2> QED BY <2>2, JoinNothing DEF Join
  <1> DEFINE v == VarInt(Length(coin.lock))
             l == coin.lock
             w == LE(coin.value, 8)
             s == LE(tx.inputs[i].sequence, 4)
             r == Hash256(GetAllOutputs(tx.outputs))
             k == LE(tx.locktime, 4)
             h == LE(HASHTYPE, 4)
             preimage == a \o p \o q \o o \o v \o l \o w \o s \o r \o k \o h
  <1>2. GetPreimage(tx, i, coin.lock, coin.value, <<>>) = a \o p \o q \o o \o <<>> \o v \o l \o w \o s \o r \o k \o h
        BY Zenon DEF GetPreimage
  <1>3. a \o p \o q \o o \o <<>> = a \o p \o q \o o
        BY <1>1, Zenon DEF Join
  <1>4. GetPreimage(tx, i, coin.lock, coin.value, <<>>) = preimage
        BY <1>2, <1>3, Zenon
  <1>5. SignInput(tx, i, coin.key, coin.lock, coin.value)
        = [tx EXCEPT !.inputs[i].scriptSig =
             Push(SchnorrSign(Hash256(preimage), coin.key) \o <<Byte(HASHTYPE)>>) \o Push(PublicKey(coin.key))]
        BY Zenon DEF SignInput
  <1> HIDE DEF preimage
  <1>6. SigScript(tx, i, coin)
        = Push(SchnorrSign(Hash256(preimage), coin.key) \o <<Byte(HASHTYPE)>>) \o Push(PublicKey(coin.key))
        BY <1>4, Zenon DEF SigScript, Signature, Digest
  <1> QED BY <1>5, <1>6, Zenon DEF WithScript

SignNext(coins, t, i) ==
  IF coins[i].key = "covenant" THEN t ELSE SignInput(t, i, coins[i].key, coins[i].lock, coins[i].value)

(* A trace of SignNext ends in what the fold returns *)
LEMMA SignedTrace ==
  ASSUME NEW coins, NEW b, Len(UpTo(Len(coins))) \in Nat,
         NEW t, Steps(t, Len(UpTo(Len(coins)))), t[0] = b,
         \A i \in 1 .. Len(UpTo(Len(coins))) : t[i] = SignNext(coins, t[i - 1], UpTo(Len(coins))[i])
  PROVE  Signed(b, coins) = t[Len(UpTo(Len(coins)))]
  <1> DEFINE Step(i, r) == CHOOSE v \in {SignNext(coins, q, UpTo(Len(coins))[i]) : q \in {r}} : TRUE
             Trace(g) == g = [i \in 0 .. Len(UpTo(Len(coins))) |-> IF i = 0 THEN b ELSE Step(i, g[i - 1])]
             Result == CHOOSE g : Trace(g)
  <1>1. \A i, r : Step(i, r) = SignNext(coins, r, UpTo(Len(coins))[i])
        BY Zenon
  <1>2. \A i \in 1 .. Len(UpTo(Len(coins))) : t[i] = Step(i, t[i - 1])
        BY <1>1
  <1>3. Signed(b, coins) = Result[Len(UpTo(Len(coins)))]
        BY Zenon DEF Signed, Fold, SignNext
  <1> HIDE DEF Step
  <1>4. Trace(t)
    <2>1. \A i \in 0 .. Len(UpTo(Len(coins))) : t[i] = IF i = 0 THEN b ELSE Step(i, t[i - 1])
          BY <1>2
    <2> QED BY <2>1, Zenon DEF Steps
  <1>5. Trace(Result)
        BY <1>4, Zenon
  <1> HIDE DEF Result
  <1>6. \A i \in 0 .. Len(UpTo(Len(coins))) : Result[i] = IF i = 0 THEN b ELSE Step(i, Result[i - 1])
        BY <1>5
  <1> HIDE DEF Trace
  <1>7. Alike(Result, t, Len(UpTo(Len(coins))))
        BY <1>2, <1>6 DEF Alike
  <1> QED BY <1>3, <1>7, SameTrace

(* The coins of a transaction, and the transaction that spends them *)
CoinFits(coin) ==
  /\ TxidString(coin.txid) /\ coin.vout \in Number /\ coin.value \in Number
  /\ ByteString(coin.lock) /\ Length(coin.lock) \in Number
CoinsFit(coins) ==
  /\ Len(coins) \in Number /\ coins = [i \in 1 .. Len(coins) |-> coins[i]]
  /\ \A i \in 1 .. Len(coins) : CoinFits(coins[i])

InputOf(coin, script) ==
  [txid |-> coin.txid, vout |-> coin.vout, sequence |-> SEQUENCE_FINAL, scriptSig |-> script]
Spend(outputs, inputs) == [version |-> 2, locktime |-> 0, outputs |-> outputs, inputs |-> inputs]

(* The fields of such a transaction *)
LEMMA SpendParts ==
  ASSUME NEW outputs, NEW inputs
  PROVE  LET tx == Spend(outputs, inputs)
         IN tx.version = 2 /\ tx.locktime = 0 /\ tx.outputs = outputs /\ tx.inputs = inputs
  BY DEF Spend

ScriptOf(tx, coins, unlocking, i) ==
  IF coins[i].key = "covenant" THEN unlocking ELSE SigScript(tx, i, coins[i])

SignedInputs(tx, coins, unlocking) ==
  [i \in 1 .. Len(coins) |-> InputOf(coins[i], ScriptOf(tx, coins, unlocking, i))]

(* Signing one input after the other gives the transaction in which every  *)
(* script is over the others as they end up                                *)
LEMMA SignedIs ==
  ASSUME NEW coins, CoinsFit(coins), NEW unlocking, NEW outputs,
         NEW tx, tx = Signed(Unsigned(coins, unlocking, outputs), coins)
  PROVE  tx = Spend(outputs, SignedInputs(tx, coins, unlocking))
  <1> DEFINE n == Len(coins)
             u == Unsigned(coins, unlocking, outputs)
             first(j) == IF coins[j].key = "covenant" THEN unlocking ELSE <<>>
             script(i, j) == IF j <= i THEN ScriptOf(u, coins, unlocking, j) ELSE first(j)
             inputs(i) == [j \in 1 .. n |-> InputOf(coins[j], script(i, j))]
             t == [i \in 0 .. n |-> Spend(outputs, inputs(i))]
  <1>0. n \in Nat /\ Len(UpTo(n)) = n /\ \A i \in 1 .. n : UpTo(n)[i] = i
        BY NumberIsNat, UpToIs DEF CoinsFit, UpTo
  <1>1. u = Spend(outputs, [j \in 1 .. n |-> InputOf(coins[j], first(j))])
        BY DEF Unsigned, Spend, InputOf
  <1>2. \A i \in 0 .. n : t[i] = Spend(outputs, inputs(i))
        OBVIOUS
  <1>3. Steps(t, n)
        BY DEF Steps
  <1> HIDE DEF first, t, u
  <1>4. t[0] = u
    <2>1. \A j \in 1 .. n : script(0, j) = first(j)
          BY <1>0
    <2>2. inputs(0) = [j \in 1 .. n |-> InputOf(coins[j], first(j))]
          BY <2>1
    <2> HIDE DEF inputs
    <2>3. t[0] = Spend(outputs, inputs(0))
          BY <1>0, <1>2
    <2> QED BY <1>1, <2>2, <2>3
  <1>5. \A i \in 0 .. n : /\ Len(inputs(i)) = n
                          /\ \A j \in 1 .. n : inputs(i)[j] = InputOf(coins[j], script(i, j))
        BY <1>0
  <1>6. \A i, j : /\ InputOf(coins[j], i).txid = coins[j].txid /\ InputOf(coins[j], i).vout = coins[j].vout
                  /\ InputOf(coins[j], i).sequence = SEQUENCE_FINAL
        BY DEF InputOf
  <1> HIDE DEF inputs, script
  <1>7. \A i \in 0 .. n : /\ t[i].version = 2 /\ t[i].locktime = 0 /\ t[i].outputs = outputs /\ t[i].inputs = inputs(i)
        BY <1>2, SpendParts
  <1>8. ASSUME NEW i \in 0 .. n, NEW j \in 1 .. n
        PROVE  /\ GetOutpoint(t[i].inputs[j]) = GetOutpoint(u.inputs[j])
               /\ ByteString(GetOutpoint(t[i].inputs[j]))
               /\ SigScript(t[i], j, coins[j]) = SigScript(u, j, coins[j])
    <2> PICK x : x = t[i]
        OBVIOUS
    <2> PICK y : y = t[0]
        OBVIOUS
    <2>1. 0 \in 0 .. n
          BY <1>0
    <2>2. /\ Len(x.inputs) = n /\ Len(y.inputs) = n /\ x.version = y.version /\ x.locktime = y.locktime
          /\ x.outputs = y.outputs
          BY <1>5, <1>7, <2>1
    <2>3. \A k \in 1 .. n : /\ x.inputs[k].txid = coins[k].txid /\ x.inputs[k].vout = coins[k].vout
                            /\ x.inputs[k].sequence = SEQUENCE_FINAL
                            /\ y.inputs[k].txid = coins[k].txid /\ y.inputs[k].vout = coins[k].vout
                            /\ y.inputs[k].sequence = SEQUENCE_FINAL
      <3>1. x.inputs = inputs(i) /\ y.inputs = inputs(0)
            BY <1>7, <2>1
      <3>2. ASSUME NEW k \in 1 .. n
            PROVE  x.inputs[k] = InputOf(coins[k], script(i, k)) /\ y.inputs[k] = InputOf(coins[k], script(0, k))
            BY <1>5, <2>1, <3>1
      <3>3. \A c, d : InputOf(c, d).txid = c.txid /\ InputOf(c, d).vout = c.vout /\ InputOf(c, d).sequence = SEQUENCE_FINAL
            BY DEF InputOf
      <3>4. ASSUME NEW k \in 1 .. n
            PROVE  /\ x.inputs[k].txid = coins[k].txid /\ x.inputs[k].vout = coins[k].vout
                   /\ x.inputs[k].sequence = SEQUENCE_FINAL
                   /\ y.inputs[k].txid = coins[k].txid /\ y.inputs[k].vout = coins[k].vout
                   /\ y.inputs[k].sequence = SEQUENCE_FINAL
            BY <3>2, <3>3
      <3> QED BY <3>4
    <2>3a. \A k \in 1 .. Len(x.inputs) : /\ x.inputs[k].txid = y.inputs[k].txid /\ x.inputs[k].vout = y.inputs[k].vout
                                         /\ x.inputs[k].sequence = y.inputs[k].sequence
          BY <2>2, <2>3
    <2>3b. j \in 1 .. Len(x.inputs) /\ Len(x.inputs) = Len(y.inputs)
          BY <2>2
    <2>3c. AlikeButScripts(x, y)
           BY <2>2, <2>3a DEF AlikeButScripts
    <2> HIDE DEF n
    <2>4. \A l, w, e : GetPreimage(x, j, l, w, e) = GetPreimage(y, j, l, w, e)
          BY <2>3b, <2>3c, PreimageIgnoresScripts
    <2>5. GetOutpoint(x.inputs[j]) = GetOutpoint(y.inputs[j])
          BY <2>3, Zenon DEF GetOutpoint
    <2>6. ByteString(GetOutpoint(x.inputs[j]))
      <3>1. TxidString(x.inputs[j].txid)
            BY <2>3 DEF CoinsFit, CoinFits, n
      <3>2. ByteString(ReverseBytes(x.inputs[j].txid)) /\ ByteString(LE(x.inputs[j].vout, 4))
            BY <3>1, TxidIs, LEIsString
      <3>3. GetOutpoint(x.inputs[j]) = Join(ReverseBytes(x.inputs[j].txid), LE(x.inputs[j].vout, 4))
            BY Zenon DEF GetOutpoint, Join
      <3> QED BY <3>2, <3>3, JoinIs
    <2> QED BY <1>4, <2>4, <2>5, <2>6, Zenon DEF SigScript, Signature, Digest
  <1>9. ASSUME NEW i \in 1 .. n
        PROVE  t[i] = SignNext(coins, t[i - 1], i)
    <2>1. i - 1 \in 0 .. n /\ i \in 0 .. n
          BY <1>0
    <2> PICK k \in 0 .. n : k = i - 1
        BY <2>1
    <2>2. \A j \in 1 .. n : j # i => script(i, j) = script(k, j)
          BY <1>0 DEF script
    <2>3. script(i, i) = ScriptOf(u, coins, unlocking, i) /\ script(k, i) = first(i)
          BY <1>0 DEF script
    <2>4. CASE coins[i].key = "covenant"
      <3>1. script(i, i) = script(k, i)
            BY <2>3, <2>4 DEF ScriptOf, first
      <3>2. \A j \in 1 .. n : script(i, j) = script(k, j)
            BY <2>2, <3>1
      <3>3. inputs(i) = inputs(k)
            BY <3>2 DEF inputs
      <3> QED BY <1>2, <2>1, <2>4, <3>3 DEF SignNext
    <2>5. CASE coins[i].key # "covenant"
      <3> PICK x : x = t[k]
          OBVIOUS
      <3> PICK sc : sc = SigScript(u, i, coins[i])
          OBVIOUS
      <3>1. SignNext(coins, x, i) = WithScript(x, i, sc)
        <4>1. SignInput(x, i, coins[i].key, coins[i].lock, coins[i].value)
              = WithScript(x, i, SigScript(x, i, coins[i]))
          <5>1. ByteString(GetOutpoint(x.inputs[i]))
                BY <1>8
          <5> PICK c : c = coins[i]
              OBVIOUS
          <5>2. SignInput(x, i, c.key, c.lock, c.value) = WithScript(x, i, SigScript(x, i, c))
                BY <5>1, SignInputIs
          <5> QED BY <5>2, Zenon
        <4> QED BY <1>8, <2>5, <4>1 DEF SignNext
      <3>2. script(i, i) = sc
            BY <2>3, <2>5 DEF ScriptOf
      <3>3. x = Spend(outputs, inputs(k)) /\ x.inputs = inputs(k)
            BY <1>2, <1>7
      <3>4. inputs(k) = [j \in 1 .. n |-> inputs(k)[j]] /\ inputs(k)[i] = InputOf(coins[i], script(k, i))
            BY <1>5 DEF inputs
      <3> PICK f : f = inputs(k)
          OBVIOUS
      <3>5. [f EXCEPT ![i].scriptSig = sc] = inputs(i)
        <4>1. [f[i] EXCEPT !.scriptSig = sc] = InputOf(coins[i], sc)
              BY <3>4 DEF InputOf
        <4>2. [f EXCEPT ![i].scriptSig = sc] = [j \in 1 .. n |-> IF j = i THEN [f[i] EXCEPT !.scriptSig = sc] ELSE f[j]]
              BY <3>4
        <4>3. \A j \in 1 .. n : j # i => f[j] = InputOf(coins[j], script(i, j))
              BY <1>5, <2>2
        <4> QED BY <3>2, <4>1, <4>2, <4>3 DEF inputs
      <3>6. WithScript(x, i, sc) = Spend(outputs, [f EXCEPT ![i].scriptSig = sc])
            BY <3>3 DEF Spend, WithScript
      <3>7. t[i] = Spend(outputs, inputs(i))
            BY <1>2, <2>1
      <3> QED BY <3>1, <3>5, <3>6, <3>7
    <2> QED BY <2>4, <2>5
  <1>10. tx = t[n]
    <2>1. \A i \in 1 .. n : t[i] = SignNext(coins, t[i - 1], UpTo(n)[i])
          BY <1>0, <1>9
    <2>2. tx = Signed(u, coins)
          BY DEF u
    <2> QED BY <1>0, <1>3, <1>4, <2>1, <2>2, SignedTrace DEF n
  <1>11. n \in 0 .. n
         BY <1>0
  <1>12. \A j \in 1 .. n : script(n, j) = ScriptOf(tx, coins, unlocking, j)
    <2> TAKE j \in 1 .. n
    <2>1. script(n, j) = ScriptOf(u, coins, unlocking, j)
          BY <1>0 DEF script
    <2>2. SigScript(tx, j, coins[j]) = SigScript(u, j, coins[j])
          BY <1>8, <1>10, <1>11
    <2> QED BY <2>1, <2>2 DEF ScriptOf
  <1>13. inputs(n) = SignedInputs(tx, coins, unlocking)
         BY <1>12 DEF inputs, SignedInputs, n
  <1>14. t[n] = Spend(outputs, inputs(n))
         BY <1>2, <1>11
  <1> QED BY <1>10, <1>13, <1>14

-----------------------------------------------------------------------------
(* The locks of the pool *)

Programmed(c) == << <<"code", c>> >>

(* The bytecode of a covenant is a string of its length *)
LEMMA ProgramIs ==
  ASSUME NEW c \in Nat \ {0}
  PROVE  ByteString(Programmed(c)) /\ Length(Programmed(c)) = c
  <1> PICK a : a = <<"code", c>>
      OBVIOUS
  <1>1. a[1] = "code" /\ a[2] = c
        OBVIOUS
  <1>2. Width(a) = c
        BY <1>1 DEF Width
  <1>3. Programmed(c) = <<a>>
        BY Zenon DEF Programmed
  <1> QED BY <1>2, <1>3, AtomString

(* A lock whose token, if any, is read back as it was written *)
ReadableLock(lock) ==
  LET split == SplitCashTokensPrefix(lock)
  IN split.ok /\ (split.token # NoToken => AddTokenToScript(split.token, split.locking) = lock)

CodeFits(c) == c \in Nat \ {0} /\ c + TOKEN_PREFIX \in Number

(* ShardLock, of a covenant of that length *)
LockOf(c, category, commitment) == AddTokenToScript(MakeShardTokenOut(category, commitment), Programmed(c))

(* The lock of a shard is that of its covenant *)
LEMMA ShardLockOf ==
  ASSUME NEW category, NEW commitment
  PROVE  ShardLock(category, commitment) = LockOf(code, category, commitment)
  BY Zenon DEF ShardLock, LockOf, Programmed

(* The lock of a shard fits its field, and its token and commitment are    *)
(* read back                                                               *)
LEMMA ShardLockIs ==
  ASSUME NEW c, CodeFits(c), NEW category, NEW commitment, Word(category), Word(commitment)
  PROVE  /\ ByteString(LockOf(c, category, commitment)) /\ Length(LockOf(c, category, commitment)) \in Number
         /\ SplitCashTokensPrefix(LockOf(c, category, commitment)) = SplitIs(category, commitment, Programmed(c))
         /\ ReadableLock(LockOf(c, category, commitment))
         /\ Commitment32(LockOf(c, category, commitment)) = commitment
  <1> PICK lock : lock = LockOf(c, category, commitment)
      OBVIOUS
  <1> PICK token : token = MakeShardTokenOut(category, commitment)
      OBVIOUS
  <1>1. ByteString(Programmed(c)) /\ Length(Programmed(c)) = c
        BY ProgramIs DEF CodeFits
  <1>2. lock = AddTokenToScript(token, Programmed(c))
        BY Zenon DEF LockOf
  <1>3. lock = TokenLock(category, commitment, Programmed(c)) /\ ByteString(lock) /\ Length(lock) = c + 67
        BY <1>1, <1>2, TokenLockIs
  <1>4. Length(lock) \in Number
        BY <1>3 DEF CodeFits, TOKEN_PREFIX
  <1>5. SplitCashTokensPrefix(lock) = SplitIs(category, commitment, Programmed(c))
        BY <1>1, <1>3, SplitTokenLock
  <1> PICK split : split = SplitIs(category, commitment, Programmed(c))
      OBVIOUS
  <1>6. split.ok = Yes /\ split.token = token /\ split.locking = Programmed(c)
        BY DEF SplitIs
  <1>7. ReadableLock(lock)
        BY <1>2, <1>5, <1>6 DEF ReadableLock, Yes
  <1>8. token.commitment = commitment
        BY DEF MakeShardTokenOut
  <1>9. Commitment32(lock) = commitment
        BY <1>5, <1>6, <1>8 DEF Commitment32, CommitmentOf, Word, Yes
  <1> QED BY <1>3, <1>4, <1>5, <1>7, <1>9

(* So does a lock that pays a key *)
LEMMA PayLockIs ==
  ASSUME NEW hash, ByteString(hash), Length(hash) = 20
  PROVE  ByteString(P2PKH(hash)) /\ Length(P2PKH(hash)) \in Number /\ ReadableLock(P2PKH(hash))
  <1>1. ByteString(P2PKH(hash)) /\ Length(P2PKH(hash)) = 25
        BY P2PKHIs
  <1> PICK split : split = [ok |-> Yes, token |-> NoToken, locking |-> P2PKH(hash)]
      OBVIOUS
  <1>2. SplitCashTokensPrefix(P2PKH(hash)) = split
        BY P2PKHIs
  <1>3. split.ok = Yes /\ split.token = NoToken
        OBVIOUS
  <1>4. ReadableLock(P2PKH(hash))
        BY <1>2, <1>3 DEF ReadableLock, Yes
  <1> QED BY <1>1, <1>4, SmallNumbers

(* Whom a transaction of the pool pays: the keys of the wallet that take   *)
(* change, and what an address that was typed decodes to                   *)
Paid(hash) ==
  \/ \E key \in {"owner", "fee"} : hash = Hash160(PublicKey(key))
  \/ \E decoded \in Payees : Len(decoded) = 20 /\ hash = [k \in 1 .. Len(decoded) |-> Byte(decoded[k])]

(* The locks a transaction of the pool makes *)
PoolLock(c, category, lock) ==
  \/ \E hash : ByteString(hash) /\ Length(hash) = 20 /\ Paid(hash) /\ lock = P2PKH(hash)
  \/ \E commitment : Word(commitment) /\ lock = LockOf(c, category, commitment)

(* So do all the locks of the pool *)
LEMMA PoolLockIs ==
  ASSUME NEW c, CodeFits(c), NEW category, Word(category), NEW lock, PoolLock(c, category, lock)
  PROVE  ByteString(lock) /\ Length(lock) \in Number /\ ReadableLock(lock)
  BY ShardLockIs, PayLockIs DEF PoolLock

(* What a builder hands to Submit *)
OutputsOfPool(c, category, outputs) ==
  /\ Len(outputs) \in Number /\ outputs = [i \in 1 .. Len(outputs) |-> outputs[i]]
  /\ \A i \in 1 .. Len(outputs) :
        /\ outputs[i] = [value |-> outputs[i].value, lock |-> outputs[i].lock] /\ outputs[i].value \in Number
        /\ PoolLock(c, category, outputs[i].lock)

(* A transaction of the pool has numbers that fit their fields *)
LEMMA SpendFits ==
  ASSUME NEW c, CodeFits(c), NEW coins, CoinsFit(coins), NEW category, Word(category),
         NEW outputs, OutputsOfPool(c, category, outputs),
         NEW unlocking, ByteString(unlocking), Length(unlocking) \in Number,
         NEW t, NEW tx, tx = Spend(outputs, SignedInputs(t, coins, unlocking))
  PROVE  TxFits(tx) /\ \A i \in 1 .. Len(outputs) : ReadableLock(outputs[i].lock)
  <1> PICK inputs : inputs = [i \in 1 .. Len(coins) |-> InputOf(coins[i], ScriptOf(t, coins, unlocking, i))]
      OBVIOUS
  <1>0. tx = Spend(outputs, inputs)
        BY DEF SignedInputs
  <1>1. tx.inputs = inputs /\ tx.outputs = outputs
        BY <1>0, SpendParts
  <1>2. Len(coins) \in Number /\ Len(coins) \in Nat
        BY NumberIsNat DEF CoinsFit
  <1>3. Len(inputs) = Len(coins) /\ inputs = [i \in 1 .. Len(inputs) |-> inputs[i]]
        BY <1>2
  <1>4. ASSUME NEW i \in 1 .. Len(inputs)
        PROVE  InputFits(inputs[i])
    <2> PICK s : s = ScriptOf(t, coins, unlocking, i)
        OBVIOUS
    <2>1. inputs[i] = InputOf(coins[i], s) /\ i \in 1 .. Len(coins)
          BY <1>3
    <2>2. ByteString(s) /\ Length(s) \in Number
      <3>1. CASE coins[i].key = "covenant"
            BY <3>1 DEF ScriptOf
      <3>2. CASE coins[i].key # "covenant"
        <4>1. s = SigScript(t, i, coins[i])
              BY <3>2 DEF ScriptOf
        <4>2. 100 \in Number
              BY SmallNumbers
        <4> QED BY <4>1, <4>2, SigScriptIs
      <3> QED BY <3>1, <3>2
    <2>3. CoinFits(coins[i])
          BY <2>1 DEF CoinsFit
    <2>4. /\ inputs[i].txid = coins[i].txid /\ inputs[i].vout = coins[i].vout /\ inputs[i].scriptSig = s
          BY <2>1 DEF InputOf
    <2> QED BY <2>2, <2>3, <2>4 DEF InputFits, CoinFits
  <1>5. InputsFit(inputs)
        BY <1>2, <1>3, <1>4 DEF InputsFit
  <1>6. \A i \in 1 .. Len(outputs) : PoolLock(c, category, outputs[i].lock)
        BY DEF OutputsOfPool
  <1>7. \A i \in 1 .. Len(outputs) : /\ ByteString(outputs[i].lock) /\ Length(outputs[i].lock) \in Number
                                     /\ ReadableLock(outputs[i].lock)
        BY <1>6, PoolLockIs
  <1>8. OutputsFit(outputs)
        BY <1>7 DEF OutputsFit, OutputFits, OutputsOfPool
  <1> QED BY <1>1, <1>5, <1>7, <1>8 DEF TxFits

(* ... is read back *)
LEMMA ReadsBack ==
  ASSUME TxFits(built.tx), \A i \in 1 .. Len(built.tx.outputs) : ReadableLock(built.tx.outputs[i].lock),
         built.raw = BuildRawTx(built.tx)
  PROVE  ReadBack
  <1> PICK tx : tx = built.tx
      OBVIOUS
  <1> PICK parsed : parsed = ParseTx(built.raw)
      OBVIOUS
  <1> PICK read : read = [i \in 1 .. Len(tx.inputs) |-> InputRead(tx.inputs[i])]
      OBVIOUS
  <1>1. parsed = [ok |-> Yes, inputs |-> read, outputs |-> tx.outputs]
        BY ParseTxIs
  <1>2. parsed.ok = Yes /\ parsed.inputs = read /\ parsed.outputs = tx.outputs
        BY <1>1
  <1>3. DOMAIN tx.inputs = 1 .. Len(tx.inputs) /\ DOMAIN tx.outputs = 1 .. Len(tx.outputs) /\ Len(tx.outputs) \in Nat
    <2>1. tx.inputs = [i \in 1 .. Len(tx.inputs) |-> tx.inputs[i]]
          BY DEF TxFits, InputsFit
    <2>2. tx.outputs = [i \in 1 .. Len(tx.outputs) |-> tx.outputs[i]]
          BY DEF TxFits, OutputsFit
    <2>3. Len(tx.outputs) \in Nat
          BY NumberIsNat DEF TxFits, OutputsFit
    <2>4. DOMAIN tx.inputs = 1 .. Len(tx.inputs)
          BY <2>1
    <2>5. DOMAIN tx.outputs = 1 .. Len(tx.outputs)
          BY <2>2
    <2> QED BY <2>3, <2>4, <2>5
  <1>4. read = [i \in DOMAIN tx.inputs |->
                  [txid |-> tx.inputs[i].txid, vout |-> tx.inputs[i].vout, scriptSig |-> tx.inputs[i].scriptSig]]
        BY <1>3 DEF InputRead
  <1>5. ASSUME NEW v \in 1 .. Len(tx.outputs)
        PROVE  GetPrevoutScriptAndValue(built.raw, v - 1) = tx.outputs[v]
    <2>1. v - 1 \in Nat /\ v - 1 + 1 = v
          BY <1>3
    <2> QED BY <2>1, PrevoutIs
  <1>6. \A v \in DOMAIN tx.outputs :
          LET split == SplitCashTokensPrefix(tx.outputs[v].lock)
          IN /\ GetPrevoutScriptAndValue(built.raw, v - 1) = tx.outputs[v]
             /\ split.ok
             /\ split.token # NoToken => AddTokenToScript(split.token, split.locking) = tx.outputs[v].lock
        BY <1>3, <1>5 DEF ReadableLock
  <1>7. (/\ parsed.ok /\ parsed.outputs = built.tx.outputs
         /\ parsed.inputs = [i \in DOMAIN built.tx.inputs |->
                               [txid |-> built.tx.inputs[i].txid, vout |-> built.tx.inputs[i].vout,
                                scriptSig |-> built.tx.inputs[i].scriptSig]])
        BY <1>2, <1>4 DEF Yes
  <1> QED BY <1>6, <1>7, Zenon DEF ReadBack

-----------------------------------------------------------------------------
(* Lists and totals *)

List(s) == Len(s) \in Nat /\ s = [i \in 1 .. Len(s) |-> s[i]]

(* A list is a sequence of its items ... *)
LEMMA ListIsSeq ==
  ASSUME NEW s, List(s)
  PROVE  s \in Seq({s[i] : i \in 1 .. Len(s)}) /\ DOMAIN s = 1 .. Len(s)
  BY DEF List

(* ... and of any set that holds them *)
LEMMA ListInto ==
  ASSUME NEW s, List(s), NEW S, \A i \in 1 .. Len(s) : s[i] \in S
  PROVE  s \in Seq(S)
  <1> PICK n \in Nat : n = Len(s)
      BY DEF List
  <1>1. s \in [1 .. n -> S]
    <2>1. s = [i \in 1 .. n |-> s[i]]
          BY DEF List
    <2> QED BY <2>1
  <1> QED BY <1>1, SeqDef

(* A sequence is a list *)
LEMMA SeqIsList ==
  ASSUME NEW S, NEW s \in Seq(S)
  PROVE  List(s)
  <1>1. Len(s) \in Nat /\ s \in [1 .. Len(s) -> S]
        BY LenProperties
  <1>2. s = [i \in 1 .. Len(s) |-> s[i]]
        BY <1>1
  <1> QED BY <1>1, <1>2 DEF List

(* Two lists joined *)
LEMMA JoinedLists ==
  ASSUME NEW a, NEW b, List(a), List(b)
  PROVE  /\ List(a \o b) /\ Len(a \o b) = Len(a) + Len(b)
         /\ \A i \in 1 .. Len(a) : (a \o b)[i] = a[i]
         /\ \A i \in 1 .. Len(b) : (a \o b)[Len(a) + i] = b[i]
         /\ \A i \in 1 .. Len(a \o b) : (a \o b)[i] = IF i <= Len(a) THEN a[i] ELSE b[i - Len(a)]
  <1> DEFINE S == {a[i] : i \in 1 .. Len(a)} \cup {b[i] : i \in 1 .. Len(b)}
  <1>1. a \in Seq(S) /\ b \in Seq(S)
        BY ListInto
  <1> HIDE DEF S
  <1>2. /\ a \o b \in Seq(S) /\ Len(a \o b) = Len(a) + Len(b)
        /\ \A i \in 1 .. Len(a) + Len(b) : (a \o b)[i] = IF i <= Len(a) THEN a[i] ELSE b[i - Len(a)]
        BY <1>1, ConcatProperties
  <1> PICK c : c = a \o b
      OBVIOUS
  <1>3. List(c)
    <2>1. c \in Seq(S)
          BY <1>2
    <2> QED BY <2>1, SeqIsList
  <1>4. Len(a) \in Nat /\ Len(b) \in Nat
        BY DEF List
  <1>5. \A i \in 1 .. Len(a) : c[i] = a[i]
        BY <1>2, <1>4
  <1>6. ASSUME NEW i \in 1 .. Len(b) PROVE c[Len(a) + i] = b[i]
    <2>1. Len(a) + i \in 1 .. Len(a) + Len(b) /\ ~(Len(a) + i <= Len(a)) /\ Len(a) + i - Len(a) = i
          BY <1>4
    <2> PICK k : k = Len(a) + i
        OBVIOUS
    <2>2. c[k] = b[k - Len(a)]
          BY <1>2, <2>1
    <2> QED BY <2>1, <2>2
  <1> QED BY <1>2, <1>3, <1>5, <1>6

(* Lists of no item and of one *)
LEMMA ShortLists ==
  /\ List(<<>>) /\ Len(<<>>) = 0
  /\ \A x : List(<<x>>) /\ Len(<<x>>) = 1 /\ <<x>>[1] = x
  BY DEF List

(* A trace of the running total ends in the total *)
LEMMA TotalTrace ==
  ASSUME NEW c, Len(c) \in Nat,
         NEW t, Steps(t, Len(c)), t[0] = 0,
         \A i \in 1 .. Len(c) : t[i] = t[i - 1] + c[i].value
  PROVE  Total(c) = t[Len(c)]
  <1> DEFINE Step(i, r) == CHOOSE v \in {q + c[i].value : q \in {r}} : TRUE
             Trace(g) == g = [i \in 0 .. Len(c) |-> IF i = 0 THEN 0 ELSE Step(i, g[i - 1])]
             Result == CHOOSE g : Trace(g)
  <1>1. \A i, r : Step(i, r) = r + c[i].value
        BY Zenon
  <1>2. \A i \in 1 .. Len(c) : t[i] = Step(i, t[i - 1])
        BY <1>1
  <1>3. Total(c) = Result[Len(c)]
        BY Zenon DEF Total, Fold
  <1> HIDE DEF Step
  <1>4. Trace(t)
    <2>1. \A i \in 0 .. Len(c) : t[i] = IF i = 0 THEN 0 ELSE Step(i, t[i - 1])
          BY <1>2
    <2> QED BY <2>1, Zenon DEF Steps
  <1>5. Trace(Result)
        BY <1>4, Zenon
  <1> HIDE DEF Result
  <1>6. \A i \in 0 .. Len(c) : Result[i] = IF i = 0 THEN 0 ELSE Step(i, Result[i - 1])
        BY <1>5
  <1> HIDE DEF Trace
  <1>7. Alike(Result, t, Len(c))
        BY <1>2, <1>6 DEF Alike
  <1> QED BY <1>3, <1>7, SameTrace

Valued(s) == List(s) /\ \A i \in 1 .. Len(s) : s[i].value \in Nat
IsTotals(t, s) == Steps(t, Len(s)) /\ t[0] = 0 /\ \A i \in 1 .. Len(s) : t[i] = t[i - 1] + s[i].value

(* There is such a trace *)
LEMMA TotalsExist ==
  ASSUME NEW s, Valued(s)
  PROVE  \E t \in [0 .. Len(s) -> Nat] : IsTotals(t, s) /\ Total(s) = t[Len(s)]
  <1> DEFINE IsUpTo(t, n) == t[0] = 0 /\ \A i \in 1 .. n : t[i] = t[i - 1] + s[i].value
             Good(n) == \E t \in [0 .. n -> Nat] : IsUpTo(t, n)
             Bad == {n \in 0 .. Len(s) : ~Good(n)}
  <1>0. Len(s) \in Nat /\ \A i \in 1 .. Len(s) : s[i].value \in Nat
        BY DEF Valued, List
  <1> HIDE DEF Good
  <1>1. Bad = {}
    <2> SUFFICES ASSUME Bad # {} PROVE FALSE
        OBVIOUS
    <2>1. Bad \in SUBSET Nat
          OBVIOUS
    <2> HIDE DEF Bad
    <2>2. PICK m \in Bad : \A l \in Bad : m <= l
          BY <2>1, LeastNatural
    <2> USE DEF Bad
    <2>3. CASE m = 0
      <3> DEFINE t == [i \in 0 .. 0 |-> 0]
      <3>1. t \in [0 .. m -> Nat] /\ t[0] = 0 /\ 1 .. m = {}
            BY <2>3
      <3> HIDE DEF t
      <3>2. Good(m)
            BY <3>1 DEF Good
      <3> QED BY <3>2
    <2>4. CASE m # 0
      <3>1. m \in 1 .. Len(s) /\ m - 1 \in 0 .. Len(s) /\ m - 1 \notin Bad /\ m \in Nat
            BY <1>0, <2>2, <2>4
      <3>2. PICK t \in [0 .. m - 1 -> Nat] : IsUpTo(t, m - 1)
            BY <3>1 DEF Good
      <3> DEFINE w == [i \in 0 .. m |-> IF i = m THEN t[m - 1] + s[m].value ELSE t[i]]
      <3>3. w[m] = t[m - 1] + s[m].value /\ \A i \in 0 .. m - 1 : w[i] = t[i]
            BY <3>1
      <3>4. w \in [0 .. m -> Nat]
        <4>1. t[m - 1] \in Nat /\ s[m].value \in Nat /\ \A i \in 0 .. m - 1 : t[i] \in Nat
              BY <1>0, <3>1, <3>2
        <4>2. \A i \in 0 .. m : i # m => i \in 0 .. m - 1
              BY <3>1
        <4> QED BY <4>1, <4>2
      <3> HIDE DEF w
      <3>5. w[0] = 0
            BY <3>1, <3>2, <3>3
      <3>6. ASSUME NEW i \in 1 .. m PROVE w[i] = w[i - 1] + s[i].value
        <4>1. CASE i = m
          <5>1. m - 1 \in 0 .. m - 1
                BY <3>1
          <5> QED BY <3>3, <4>1, <5>1
        <4>2. CASE i # m
          <5>1. i \in 1 .. m - 1 /\ i \in 0 .. m - 1 /\ i - 1 \in 0 .. m - 1
                BY <3>1, <4>2
          <5> QED BY <3>2, <3>3, <5>1
        <4> QED BY <4>1, <4>2
      <3>7. IsUpTo(w, m)
            BY <3>5, <3>6
      <3>8. Good(m)
            BY <3>4, <3>7, Zenon DEF Good
      <3> QED BY <3>8
    <2> QED BY <2>3, <2>4
  <1>2. Good(Len(s))
        BY <1>0, <1>1
  <1>3. PICK t \in [0 .. Len(s) -> Nat] : IsUpTo(t, Len(s))
        BY <1>2 DEF Good
  <1>4. Steps(t, Len(s))
        BY DEF Steps
  <1>5. Total(s) = t[Len(s)]
        BY <1>0, <1>3, <1>4, TotalTrace
  <1> QED BY <1>3, <1>4, <1>5 DEF IsTotals

(* The total of nothing, and of one item *)
LEMMA ShortTotals ==
  /\ Total(<<>>) = 0
  /\ \A x : x.value \in Nat => Total(<<x>>) = x.value /\ Valued(<<x>>)
  /\ Valued(<<>>)
  <1>1. Valued(<<>>)
        BY ShortLists DEF Valued
  <1>2. Total(<<>>) = 0
    <2>1. PICK t \in [0 .. Len(<<>>) -> Nat] : IsTotals(t, <<>>) /\ Total(<<>>) = t[Len(<<>>)]
          BY <1>1, TotalsExist
    <2> QED BY <2>1, ShortLists DEF IsTotals
  <1>3. ASSUME NEW x, x.value \in Nat
        PROVE  Total(<<x>>) = x.value /\ Valued(<<x>>)
    <2> PICK s : s = <<x>>
        OBVIOUS
    <2>1. Len(s) = 1 /\ s[1] = x /\ Valued(s)
          BY <1>3, ShortLists DEF Valued
    <2>2. PICK t \in [0 .. Len(s) -> Nat] : IsTotals(t, s) /\ Total(s) = t[Len(s)]
          BY <2>1, TotalsExist
    <2>3. t[1] = t[1 - 1] + s[1].value /\ t[0] = 0
          BY <2>1, <2>2 DEF IsTotals
    <2> QED BY <1>3, <2>1, <2>2, <2>3
  <1> QED BY <1>1, <1>2, <1>3

(* The total of two lists joined is the sum of their totals *)
LEMMA JoinedTotals ==
  ASSUME NEW a, NEW b, Valued(a), Valued(b)
  PROVE  Valued(a \o b) /\ Total(a \o b) = Total(a) + Total(b) /\ Total(a) \in Nat /\ Total(b) \in Nat
  <1> PICK c : c = a \o b
      OBVIOUS
  <1>1. /\ List(c) /\ Len(c) = Len(a) + Len(b) /\ Len(a) \in Nat /\ Len(b) \in Nat
        /\ \A i \in 1 .. Len(a) : c[i] = a[i]
        /\ \A i \in 1 .. Len(b) : c[Len(a) + i] = b[i]
        /\ \A i \in 1 .. Len(c) : c[i] = IF i <= Len(a) THEN a[i] ELSE b[i - Len(a)]
    <2>1. List(a) /\ List(b) /\ Len(a) \in Nat /\ Len(b) \in Nat
          BY DEF Valued, List
    <2> QED BY <2>1, JoinedLists
  <1>2. ASSUME NEW i \in 1 .. Len(c) PROVE c[i].value \in Nat
    <2>1. CASE i <= Len(a)
          BY <1>1, <2>1 DEF Valued
    <2>2. CASE ~(i <= Len(a))
      <3>1. i - Len(a) \in 1 .. Len(b) /\ c[i] = b[i - Len(a)]
            BY <1>1, <2>2
      <3> QED BY <3>1 DEF Valued
    <2> QED BY <2>1, <2>2
  <1>3. Valued(c)
        BY <1>1, <1>2 DEF Valued
  <1>4. PICK t \in [0 .. Len(a) -> Nat] : IsTotals(t, a) /\ Total(a) = t[Len(a)]
        BY TotalsExist
  <1>5. PICK w \in [0 .. Len(b) -> Nat] : IsTotals(w, b) /\ Total(b) = w[Len(b)]
        BY TotalsExist
  <1> PICK n \in Nat : n = Len(a)
      BY <1>1
  <1> PICK m \in Nat : m = Len(b)
      BY <1>1
  <1> DEFINE z == [i \in 0 .. n + m |-> IF i <= n THEN t[i] ELSE t[n] + w[i - n]]
  <1>6. Steps(z, Len(c))
        BY <1>1 DEF Steps
  <1>7. \A i \in 0 .. n : z[i] = t[i]
        OBVIOUS
  <1>8. \A i \in 0 .. m : z[n + i] = t[n] + w[i]
    <2> TAKE i \in 0 .. m
    <2>1. CASE i = 0
      <3>1. n + i = n /\ w[0] = 0 /\ t[n] \in Nat
            BY <1>4, <1>5, <2>1 DEF IsTotals
      <3>2. z[n] = t[n]
            BY <1>7
      <3> QED BY <2>1, <3>1, <3>2
    <2>2. CASE i # 0
      <3>1. n + i \in 0 .. n + m /\ ~(n + i <= n) /\ n + i - n = i
            BY <2>2
      <3> PICK k : k = n + i
          OBVIOUS
      <3>2. z[k] = t[n] + w[k - n]
            BY <3>1
      <3> QED BY <3>1, <3>2
    <2> QED BY <2>1, <2>2
  <1> HIDE DEF z
  <1>9. ASSUME NEW i \in 1 .. Len(c) PROVE z[i] = z[i - 1] + c[i].value
    <2>1. CASE i <= n
      <3>1. i \in 1 .. n /\ i \in 0 .. n /\ i - 1 \in 0 .. n
            BY <2>1
      <3>2. c[i] = a[i] /\ t[i] = t[i - 1] + a[i].value
            BY <1>1, <1>4, <3>1 DEF IsTotals
      <3> QED BY <1>7, <3>1, <3>2
    <2>2. CASE ~(i <= n)
      <3> PICK j : j = i - n
          OBVIOUS
      <3>1. j \in 1 .. m /\ j \in 0 .. m /\ j - 1 \in 0 .. m /\ n + j = i /\ n + (j - 1) = i - 1
            BY <1>1, <2>2
      <3>2. c[i] = b[j] /\ w[j] = w[j - 1] + b[j].value
            BY <1>1, <1>5, <3>1 DEF IsTotals
      <3>3. z[i] = t[n] + w[j] /\ z[i - 1] = t[n] + w[j - 1]
            BY <1>8, <3>1
      <3>4. t[n] \in Nat /\ w[j - 1] \in Nat /\ b[j].value \in Nat
        <4>1. j \in 1 .. Len(b) /\ n \in 0 .. Len(a) /\ j - 1 \in 0 .. Len(b)
              BY <1>1, <3>1
        <4>2. b[j].value \in Nat
              BY <4>1 DEF Valued
        <4>3. t[n] \in Nat /\ w[j - 1] \in Nat
              BY <1>4, <1>5, <4>1
        <4> QED BY <4>2, <4>3
      <3> PICK x \in Nat : x = b[j].value
          BY <3>4
      <3> QED BY <3>2, <3>3, <3>4, SMTT(30)
    <2> QED BY <2>1, <2>2
  <1>10. z[0] = 0 /\ z[Len(c)] = t[n] + w[m]
         BY <1>1, <1>4, <1>7, <1>8 DEF IsTotals
  <1>11. Total(c) = z[Len(c)]
         BY <1>1, <1>6, <1>9, <1>10, TotalTrace
  <1> QED BY <1>3, <1>4, <1>5, <1>10, <1>11

(* ... of outputs that are all worth the same *)
LEMMA EqualTotals ==
  ASSUME NEW n \in Nat, NEW v \in Nat, NEW s, List(s), Len(s) = n, \A i \in 1 .. n : s[i].value = v
  PROVE  Valued(s) /\ Total(s) = n * v
  <1> DEFINE t == [i \in 0 .. n |-> i * v]
  <1>1. Steps(t, Len(s)) /\ t[0] = 0 /\ t[n] = n * v
        BY DEF Steps
  <1>2. ASSUME NEW i \in 1 .. n PROVE t[i] = t[i - 1] + s[i].value
    <2>1. i \in 0 .. n /\ i - 1 \in 0 .. n /\ i \in Nat
          OBVIOUS
    <2>2. i * v = (i - 1) * v + v
          BY <2>1
    <2> QED BY <2>1, <2>2
  <1> HIDE DEF t
  <1>3. Total(s) = t[Len(s)]
        BY <1>1, <1>2, TotalTrace
  <1> QED BY <1>1, <1>3 DEF Valued

-----------------------------------------------------------------------------
(* Unlocking data *)

(* Limbs that can be folded, and the script that pushes them *)
LimbsFit(limbs) ==
  /\ List(limbs) /\ Len(limbs) + 1 \in Number
  /\ \A i \in 1 .. Len(limbs) : ByteString(limbs[i]) /\ Length(limbs[i]) \in Number
  /\ Length(Concat(Push, limbs)) + TWO_WORDS \in Number

PushedBytes(limbs) == Concat(Push, limbs)

(* No limb, nothing pushed *)
LEMMA NothingPushed == PushedBytes(<<>>) = <<>>
  <1> DEFINE seqs == [i \in 1 .. Len(<<>>) |-> Push(<<>>[i])]
  <1>1. PushedBytes(<<>>) = FlattenSeq(seqs)
        BY Zenon DEF PushedBytes, Concat
  <1>2. seqs = <<>>
        BY ShortLists
  <1> HIDE DEF seqs
  <1>3. Strings(seqs) /\ Len(seqs) = 0
        BY <1>2, ShortLists DEF Strings
  <1>4. PICK u : Left(u, seqs)
        BY <1>3, LeftExists
  <1> QED BY <1>1, <1>3, <1>4 DEF Left

(* No limbs can be folded *)
LEMMA NoLimbsFit == LimbsFit(<<>>)
  <1>1. Length(PushedBytes(<<>>)) = 0
        BY NothingPushed, EmptyString
  <1>2. 0 + 1 \in Number /\ 0 + TWO_WORDS \in Number
        BY SmallNumbers DEF TWO_WORDS
  <1>3. PushedBytes(<<>>) = Concat(Push, <<>>)
        BY Zenon DEF PushedBytes
  <1>4. Length(Concat(Push, <<>>)) + TWO_WORDS \in Number
        BY <1>1, <1>2, <1>3, Zenon
  <1>5. 1 .. 0 = {}
        OBVIOUS
  <1> QED BY <1>2, <1>4, <1>5, ShortLists, Zenon DEF LimbsFit

(* LimbAssumption says that the callers' limbs can be folded *)
LEMMA LimbsAreFit ==
  ASSUME NEW limbs \in Limbs \cup {<<>>}
  PROVE  LimbsFit(limbs)
  <1>1. CASE limbs = <<>>
        BY <1>1, NoLimbsFit
  <1>2. CASE limbs \in Limbs
    <2>1. limbs \in Seq(Range(limbs)) /\ Len(limbs) + 1 \in Number
          BY <1>2, LimbAssumption, Zenon
    <2>2. List(limbs)
          BY <2>1, SeqIsList
    <2>3. DOMAIN limbs = 1 .. Len(limbs)
          BY <2>2, ListIsSeq
    <2>4. \A i \in 1 .. Len(limbs) : ByteString(limbs[i]) /\ Length(limbs[i]) \in Number
          BY <1>2, <2>3, LimbAssumption, Zenon
    <2>5. Length(Concat(Push, limbs)) + TWO_WORDS \in Number
          BY <1>2, LimbAssumption, Zenon
    <2> QED BY <2>1, <2>2, <2>4, <2>5, Zenon DEF LimbsFit
  <1> QED BY <1>1, <1>2

(* A list with one more item *)
LEMMA AppendIs ==
  ASSUME NEW s, NEW x, List(s)
  PROVE  /\ List(Append(s, x)) /\ Len(Append(s, x)) = Len(s) + 1
         /\ Append(s, x)[Len(s) + 1] = x /\ \A i \in 1 .. Len(s) : Append(s, x)[i] = s[i]
  <1> DEFINE S == {s[i] : i \in 1 .. Len(s)} \cup {x}
  <1>1. s \in Seq(S) /\ x \in S
        BY ListInto
  <1> HIDE DEF S
  <1>2. /\ Append(s, x) \in Seq(S) /\ Len(Append(s, x)) = Len(s) + 1
        /\ Append(s, x)[Len(s) + 1] = x /\ \A i \in 1 .. Len(s) : Append(s, x)[i] = s[i]
        BY <1>1, AppendProperties
  <1> QED BY <1>2, SeqIsList

(* The pushes of the unlocking data that                                   *)
(* buildPoolHashFoldUnlockingBytecode writes, for any limbs: the limbs in  *)
(* order, the note hash, the proof                                         *)
THEOREM UnlockingIs ==
  ASSUME NEW limbs, LimbsFit(limbs), NEW note, Word(note), NEW blob, Word(blob)
  PROVE  /\ ByteString(Unlocking(limbs, note, blob)) /\ Length(Unlocking(limbs, note, blob)) \in Number
         /\ ParseScriptPushes(Unlocking(limbs, note, blob)) = [ok |-> Yes, pushes |-> Append(Append(limbs, note), blob)]
  <1> PICK n \in Nat : n = Len(limbs)
      BY DEF LimbsFit, List
  <1> DEFINE seqs == [i \in 1 .. Len(limbs) |-> Push(limbs[i])]
  <1> PICK script : script = Unlocking(limbs, note, blob)
      OBVIOUS
  <1>1. ByteString(note) /\ ByteString(blob) /\ Length(note) \in Number /\ Length(blob) \in Number /\ Length(note) = 32 /\ Length(blob) = 32
        BY SmallNumbers DEF Word
  <1>2. /\ ByteString(Push(note)) /\ ByteString(Push(blob)) /\ Length(Push(note)) = 33 /\ Length(Push(blob)) = 33
        BY <1>1, PushIsString
  <1>3. Len(seqs) = n /\ \A i \in 1 .. n : seqs[i] = Push(limbs[i])
        OBVIOUS
  <1>4. \A i \in 1 .. n : ByteString(limbs[i]) /\ Length(limbs[i]) \in Number
        BY DEF LimbsFit
  <1>5. Strings(seqs)
        BY <1>3, <1>4, PushIsString DEF Strings
  <1>6. PushedBytes(limbs) = FlattenSeq(seqs)
        BY Zenon DEF PushedBytes, Concat
  <1> HIDE DEF seqs
  <1>7. PICK u : Left(u, seqs)
        BY <1>5, LeftExists
  <1>8. /\ u[0] = PushedBytes(limbs) /\ u[n] = <<>> /\ \A i \in 0 .. n : ByteString(u[i])
        /\ \A i \in 1 .. n : u[i - 1] = Join(Push(limbs[i]), u[i])
    <2>1. \A i \in 1 .. n : u[i - 1] = seqs[i] \o u[i]
          BY <1>3, <1>7 DEF Left
    <2>2. \A i \in 1 .. n : seqs[i] \o u[i] = Join(seqs[i], u[i])
          BY Zenon DEF Join
    <2> QED BY <1>3, <1>6, <1>7, <2>1, <2>2 DEF Left
  <1>9. script = Join(Join(PushedBytes(limbs), Push(note)), Push(blob))
        BY Zenon DEF Unlocking, PushedBytes, Join
  <1> PICK tail : tail = Join(Push(note), Push(blob))
      OBVIOUS
  <1>10. ByteString(tail) /\ Length(tail) = 66
    <2>1. ByteString(tail) /\ Length(tail) = 33 + 33
          BY <1>2, JoinIs
    <2> QED BY <2>1
  <1>11. ByteString(PushedBytes(limbs))
         BY <1>8
  <1>12. script = Join(PushedBytes(limbs), tail)
         BY <1>2, <1>9, <1>11, JoinRegroups
  <1>13. ByteString(script) /\ Length(script) = Length(PushedBytes(limbs)) + 66
         BY <1>10, <1>11, <1>12, JoinIs
  <1>14. Length(script) \in Number
    <2>1. Length(PushedBytes(limbs)) + TWO_WORDS \in Number
          BY Zenon DEF LimbsFit, PushedBytes
    <2> QED BY <1>13, <2>1 DEF TWO_WORDS
  <1> PICK items : items = Append(Append(limbs, note), blob)
      OBVIOUS
  <1>15. /\ List(items) /\ Len(items) = n + 2 /\ items[n + 1] = note /\ items[n + 2] = blob
         /\ \A i \in 1 .. n : items[i] = limbs[i]
    <2> PICK a : a = Append(limbs, note)
        OBVIOUS
    <2>1. List(a) /\ Len(a) = n + 1 /\ a[n + 1] = note /\ \A i \in 1 .. n : a[i] = limbs[i]
          BY AppendIs DEF LimbsFit
    <2>2. List(items) /\ Len(items) = n + 1 + 1 /\ items[n + 1 + 1] = blob /\ \A i \in 1 .. n + 1 : items[i] = a[i]
          BY <2>1, AppendIs
    <2>3. n + 1 \in 1 .. n + 1 /\ \A i \in 1 .. n : i \in 1 .. n + 1
          OBVIOUS
    <2> QED BY <2>1, <2>2, <2>3
  <1> DEFINE w == [i \in 0 .. n + 2 |-> IF i <= n THEN Join(u[i], tail) ELSE IF i = n + 1 THEN Push(blob) ELSE <<>>]
  <1>16. /\ \A i \in 0 .. n : w[i] = Join(u[i], tail)
         /\ w[n + 1] = Push(blob) /\ w[n + 2] = <<>>
         OBVIOUS
  <1> HIDE DEF w
  <1>17. w[0] = script /\ w[n] = tail
    <2>1. Join(<<>>, tail) = tail
          BY <1>10, JoinNothing DEF Join
    <2> QED BY <1>8, <1>12, <1>16, <2>1
  <1>18. \A i \in 0 .. n + 2 : ByteString(w[i])
    <2> TAKE i \in 0 .. n + 2
    <2>1. i \in 0 .. n \/ i = n + 1 \/ i = n + 2
          OBVIOUS
    <2> QED BY <1>2, <1>8, <1>10, <1>16, <2>1, JoinIs, EmptyString
  <1>19. ASSUME NEW i \in 1 .. n + 2
         PROVE  ByteString(items[i]) /\ Length(items[i]) \in Number /\ w[i - 1] = Join(Push(items[i]), w[i])
    <2>1. CASE i \in 1 .. n
      <3>1. i \in 0 .. n /\ i - 1 \in 0 .. n
            BY <2>1
      <3> PICK k : k = i - 1
          OBVIOUS
      <3>2. w[k] = Join(u[k], tail) /\ w[i] = Join(u[i], tail) /\ u[k] = Join(Push(limbs[i]), u[i]) /\ ByteString(u[i])
            BY <1>8, <1>16, <2>1, <3>1
      <3>3. ByteString(Push(limbs[i]))
            BY <1>4, <2>1, PushIsString
      <3>4. Join(Join(Push(limbs[i]), u[i]), tail) = Join(Push(limbs[i]), Join(u[i], tail))
            BY <1>10, <3>2, <3>3, JoinRegroups
      <3> QED BY <1>4, <1>15, <2>1, <3>2, <3>4
    <2>2. CASE i = n + 1
      <3>1. i - 1 = n
            BY <2>2
      <3> QED BY <1>1, <1>15, <1>16, <1>17, <2>2, <3>1
    <2>3. CASE i = n + 2
      <3>1. i - 1 = n + 1
            BY <2>3
      <3>2. Join(Push(blob), <<>>) = Push(blob)
            BY <1>2, JoinNothing DEF Join
      <3> QED BY <1>1, <1>15, <1>16, <2>3, <3>1, <3>2
    <2>4. i \in 1 .. n \/ i = n + 1 \/ i = n + 2
          OBVIOUS
    <2> QED BY <2>1, <2>2, <2>3, <2>4
  <1>20. Pushing(w, items, script)
    <2>1. Len(items) \in Nat /\ Len(items) = n + 2
          BY <1>15
    <2> QED BY <1>15, <1>16, <1>17, <1>18, <1>19, <2>1 DEF Pushing, List
  <1> QED BY <1>13, <1>14, <1>20, ParseIs

-----------------------------------------------------------------------------
(* Amounts *)

(* A number less than one that the wire can hold can be held *)
LEMMA NumberBelow ==
  ASSUME NEW n \in Nat, NEW m \in Number, n <= m
  PROVE  n \in Number
  BY SMT DEF Number

(* So can both parts of a sum that can *)
LEMMA SumOfNaturals ==
  ASSUME NEW n \in Nat, NEW m \in Nat, n + m \in Number
  PROVE  n \in Number /\ m \in Number
  BY SMT DEF Number

(* The most a shard can be worth after n transactions *)
Worth(n) == ShardValue + n * DepositValue

(* AmountAssumption: while there is room on the chain, values fit *)
LEMMA WorthGrows ==
  ASSUME NEW n \in Nat, n < MaxTx
  PROVE  /\ Worth(n) \in Number /\ Worth(n + 1) \in Number /\ Worth(n) \in Nat /\ Worth(n + 1) \in Nat
         /\ Worth(n + 1) = Worth(n) + DepositValue
         /\ DepositValue \in Number /\ DepositValue \in Nat /\ ShardValue \in Nat /\ ShardValue <= Worth(n)
         /\ Payment \in Nat /\ Fee \in Nat
  <1>1. ShardValue \in Nat /\ DepositValue \in Nat /\ MaxTx \in Nat /\ Payment \in Nat /\ Fee \in Nat
        BY AmountAssumption, Zenon
  <1> PICK s \in Nat : s = ShardValue
      BY <1>1
  <1> PICK d \in Nat : d = DepositValue
      BY <1>1
  <1> PICK k \in Nat : k = MaxTx
      BY <1>1
  <1>2. s + k * d \in Number
        BY AmountAssumption, Zenon
  <1>3. (n + 1) * d = n * d + d /\ n * d \in Nat /\ k * d \in Nat
        OBVIOUS
  <1>4. (n + 1) * d <= k * d
    <2>1. k - (n + 1) \in Nat
          OBVIOUS
    <2> PICK e \in Nat : e = k - (n + 1)
        BY <2>1
    <2>2. k * d = (n + 1) * d + e * d /\ e * d \in Nat
      <3>1. k = (n + 1) + e
            OBVIOUS
      <3>2. ((n + 1) + e) * d = (n + 1) * d + e * d
            OBVIOUS
      <3> QED BY <3>1, <3>2
    <2>3. (n + 1) * d \in Nat
          OBVIOUS
    <2> PICK x \in Nat : x = (n + 1) * d
        BY <2>3
    <2> PICK y \in Nat : y = e * d
        BY <2>2
    <2>4. x <= x + y
          OBVIOUS
    <2> QED BY <2>2, <2>4
  <1> PICK p \in Nat : p = n * d
      BY <1>3
  <1> PICK q \in Nat : q = k * d
      BY <1>3
  <1>5. p + d <= q /\ s + q \in Number
        BY <1>2, <1>3, <1>4
  <1>6. s + p \in Nat /\ s + p + d \in Nat /\ s + p <= s + q /\ s + p + d <= s + q /\ d <= s + q
        BY <1>5
  <1>7. s + p \in Number /\ s + p + d \in Number /\ d \in Number
        BY <1>5, <1>6, NumberBelow
  <1>8. Worth(n) = s + p /\ Worth(n + 1) = s + p + d
    <2>1. Worth(n) = s + p
          BY DEF Worth
    <2>2. Worth(n + 1) = s + (n + 1) * d
          BY Zenon DEF Worth
    <2> QED BY <1>3, <2>1, <2>2
  <1> QED BY <1>1, <1>6, <1>7, <1>8

-----------------------------------------------------------------------------
(* The pool state and the chain *)

CategoryString(s) == \E t : TxidString(t) /\ s = ReverseBytes(t)

(* A category is 32 bytes and differs from its reverse *)
LEMMA CategoryIs ==
  ASSUME NEW c, CategoryString(c)
  PROVE  Word(c) /\ c # <<>> /\ ReverseBytes(c) # c
  <1>1. PICK t : TxidString(t) /\ c = ReverseBytes(t)
        BY DEF CategoryString
  <1> QED BY <1>1, TxidIs DEF Word

PointerHolds(c, category, pointer, ch) ==
  /\ pointer.txid \in 1 .. Len(ch) /\ pointer.vout \in Number /\ HashString(pointer.commitment)
  /\ \E v \in Nat : /\ v <= Worth(Len(ch))
                    /\ GetPrevoutScriptAndValue(ch[pointer.txid], pointer.vout)
                       = [value |-> v, lock |-> LockOf(c, category, pointer.commitment)]

PoolHolds(c, p, ch) ==
  /\ CategoryString(p.category) /\ p = [category |-> p.category, shards |-> [i \in Shard |-> p.shards[i]]]
  /\ \A i \in Shard : PointerHolds(c, p.category, p.shards[i], ch)

(* A pointer to an output of the transaction that is built, after n others *)
PointsInto(c, n, category, pointer, outputs) ==
  /\ pointer.txid = n + 1 /\ pointer.vout \in Number /\ pointer.vout + 1 \in 1 .. Len(outputs)
  /\ HashString(pointer.commitment)
  /\ \E v \in Nat : /\ v <= Worth(n + 1)
                    /\ outputs[pointer.vout + 1] = [value |-> v, lock |-> LockOf(c, category, pointer.commitment)]

NextFits(c, ch, next, outputs) ==
  /\ CategoryString(next.category)
  /\ next = [category |-> next.category, shards |-> [i \in Shard |-> next.shards[i]]]
  /\ \A i \in Shard : \/ PointerHolds(c, next.category, next.shards[i], ch)
                      \/ PointsInto(c, Len(ch), next.category, next.shards[i], outputs)

(* Once the transaction is on the chain, the pool state built with it is   *)
(* true of the chain                                                       *)
LEMMA NextHolds ==
  ASSUME NEW c, NEW chain0, List(chain0), Len(chain0) < MaxTx, NEW tx, TxFits(tx),
         NEW next, NextFits(c, chain0, next, tx.outputs)
  PROVE  PoolHolds(c, next, Append(chain0, BuildRawTx(tx)))
  <1> PICK raw : raw = BuildRawTx(tx)
      OBVIOUS
  <1> PICK n \in Nat : n = Len(chain0)
      BY DEF List
  <1> PICK ch : ch = Append(chain0, raw)
      OBVIOUS
  <1>1. Len(ch) = n + 1 /\ ch[n + 1] = raw /\ \A k \in 1 .. n : ch[k] = chain0[k]
        BY AppendIs
  <1>2. Worth(n) <= Worth(n + 1) /\ Worth(n) \in Nat /\ Worth(n + 1) \in Nat
        BY WorthGrows
  <1>3. ASSUME NEW i \in Shard PROVE PointerHolds(c, next.category, next.shards[i], ch)
    <2> PICK pointer : pointer = next.shards[i]
        OBVIOUS
    <2> PICK category : category = next.category
        OBVIOUS
    <2>1. PointerHolds(c, category, pointer, chain0) \/ PointsInto(c, n, category, pointer, tx.outputs)
          BY <1>3 DEF NextFits
    <2>2. CASE PointerHolds(c, category, pointer, chain0)
      <3>1. pointer.txid \in 1 .. n /\ pointer.vout \in Number /\ HashString(pointer.commitment)
            BY <2>2 DEF PointerHolds
      <3>2. PICK v \in Nat : /\ v <= Worth(n)
                             /\ GetPrevoutScriptAndValue(chain0[pointer.txid], pointer.vout)
                                = [value |-> v, lock |-> LockOf(c, category, pointer.commitment)]
            BY <2>2 DEF PointerHolds
      <3>3. pointer.txid \in 1 .. n + 1 /\ ch[pointer.txid] = chain0[pointer.txid]
            BY <1>1, <3>1
      <3>4. v <= Worth(n + 1)
            BY <1>2, <3>2
      <3> QED BY <1>1, <3>1, <3>2, <3>3, <3>4 DEF PointerHolds
    <2>3. CASE PointsInto(c, n, category, pointer, tx.outputs)
      <3>1. pointer.txid = n + 1 /\ pointer.vout \in Number /\ HashString(pointer.commitment)
            BY <2>3 DEF PointsInto
      <3>2. PICK v \in Nat : /\ v <= Worth(n + 1)
                             /\ tx.outputs[pointer.vout + 1] = [value |-> v, lock |-> LockOf(c, category, pointer.commitment)]
            BY <2>3 DEF PointsInto
      <3>3. GetPrevoutScriptAndValue(raw, pointer.vout) = tx.outputs[pointer.vout + 1]
        <4>1. pointer.vout \in Nat
              BY <3>1, NumberIsNat
        <4> QED BY <4>1, PrevoutIs
      <3>4. pointer.txid \in 1 .. n + 1 /\ ch[pointer.txid] = raw
            BY <1>1, <3>1
      <3> QED BY <1>1, <3>1, <3>2, <3>3, <3>4 DEF PointerHolds
    <2> QED BY <2>1, <2>2, <2>3
  <1> QED BY <1>3 DEF PoolHolds, NextFits

-----------------------------------------------------------------------------
(* What the builders hand over, from a pool p with covenants of length c *)

KeyLocked(coin) == coin.key # "covenant" => coin.lock = P2PKH(Hash160(PublicKey(coin.key)))
StateOut(fold, category) ==
  ComputePoolStateOut(fold.stateIn, category, fold.noteHash, fold.limbs, fold.mode)

FoldFits(fold) ==
  /\ fold.limbs \in Limbs \cup {<<>>} /\ fold.mode \in Mode
  /\ HashString(fold.stateIn) /\ HashString(fold.noteHash)

Founding(p, spent, unlocking, fold, next) ==
  /\ p = NoPool /\ fold = NoFold /\ unlocking = <<>>
  /\ spent[1].vout = 0 /\ ReverseBytes(spent[1].txid) = next.category
  /\ \A i \in 1 .. Len(spent) : spent[i].key # "covenant"
Spending(c, p, spent, unlocking, outputs, fold, next) ==
  /\ p # NoPool /\ next.category = p.category /\ Len(outputs) >= 1
  /\ spent[1].key = "covenant" /\ spent[1].lock = LockOf(c, p.category, fold.stateIn)
  /\ FoldFits(fold) /\ outputs[1].lock = LockOf(c, p.category, StateOut(fold, p.category))
  /\ \E blob : HashString(blob) /\ unlocking = Unlocking(fold.limbs, fold.noteHash, blob)

Orderly(c, p, spent, unlocking, outputs, fold, next) ==
  /\ CoinsFit(spent) /\ Len(spent) >= 1 /\ \A i \in 1 .. Len(spent) : KeyLocked(spent[i])
  /\ CategoryString(next.category) /\ OutputsOfPool(c, next.category, outputs)
  /\ Total(outputs) <= Total(spent)
  /\ Founding(p, spent, unlocking, fold, next) \/ Spending(c, p, spent, unlocking, outputs, fold, next)

Sealed(c, p, ch, b) ==
  /\ b.raw = BuildRawTx(b.tx)
  /\ TxFits(b.tx) /\ \A i \in 1 .. Len(b.tx.outputs) : ReadableLock(b.tx.outputs[i].lock)
  /\ \E unlocking :
       /\ Orderly(c, p, b.spent, unlocking, b.tx.outputs, b.fold, b.next)
       /\ b.tx = Spend(b.tx.outputs, SignedInputs(b.tx, b.spent, unlocking))
  /\ PoolHolds(c, b.next, Append(ch, b.raw))
  /\ Len(ch) < MaxTx

(* The unlocking data fits its field *)
LEMMA OrderlyUnlocking ==
  ASSUME NEW c, NEW p, NEW spent, NEW unlocking, NEW outputs, NEW fold, NEW next,
         Orderly(c, p, spent, unlocking, outputs, fold, next)
  PROVE  ByteString(unlocking) /\ Length(unlocking) \in Number
  <1>1. CASE Founding(p, spent, unlocking, fold, next)
    <2>1. 0 \in Number
          BY SmallNumbers
    <2> QED BY <1>1, <2>1, EmptyString DEF Founding
  <1>2. CASE Spending(c, p, spent, unlocking, outputs, fold, next)
    <2>1. PICK blob : HashString(blob) /\ unlocking = Unlocking(fold.limbs, fold.noteHash, blob)
          BY <1>2 DEF Spending
    <2>2. LimbsFit(fold.limbs) /\ Word(fold.noteHash) /\ Word(blob)
          BY <1>2, <2>1, LimbsAreFit, HashIsWord DEF Spending, FoldFits
    <2> QED BY <2>1, <2>2, UnlockingIs
  <1> QED BY <1>1, <1>2 DEF Orderly

(* Orderly inputs and outputs, submitted, make a sealed transaction *)
LEMMA SubmitSeals ==
  ASSUME CodeFits(code), List(chain), Len(chain) < MaxTx,
         NEW coins, NEW witness, NEW unlocking, NEW outputs, NEW fold, NEW next,
         Orderly(code, pool, coins \o witness, unlocking, outputs, fold, next), NextFits(code, chain, next, outputs),
         Submit(coins, witness, unlocking, outputs, fold, next)
  PROVE  Sealed(code, pool, chain, built)' /\ stage' = "node" /\ UNCHANGED <<code, pool, chain, machine>>
  <1> PICK spent : spent = coins \o witness
      OBVIOUS
  <1> PICK tx : tx = Signed(Unsigned(spent, unlocking, outputs), spent)
      OBVIOUS
  <1>1. /\ built' = [raw |-> BuildRawTx(tx), tx |-> tx, spent |-> spent, fold |-> fold, next |-> next]
        /\ stage' = "node" /\ UNCHANGED <<code, pool, chain, machine>>
        BY Zenon DEF Submit
  <1>2. CoinsFit(spent) /\ OutputsOfPool(code, next.category, outputs) /\ CategoryString(next.category)
        BY DEF Orderly
  <1> PICK inputs : inputs = SignedInputs(tx, spent, unlocking)
      OBVIOUS
  <1>3. tx = Spend(outputs, inputs)
        BY <1>2, SignedIs
  <1>4. tx.outputs = outputs
    <2>1. Spend(outputs, inputs).outputs = outputs
          BY SpendParts, Zenon
    <2> QED BY <1>3, <2>1, Zenon
  <1>5. TxFits(tx) /\ \A i \in 1 .. Len(outputs) : ReadableLock(outputs[i].lock)
        BY <1>2, <1>3, OrderlyUnlocking, CategoryIs, SpendFits
  <1>6. PoolHolds(code, next, Append(chain, BuildRawTx(tx)))
        BY <1>4, <1>5, NextHolds
  <1> PICK b : b = [raw |-> BuildRawTx(tx), tx |-> tx, spent |-> spent, fold |-> fold, next |-> next]
      OBVIOUS
  <1>7. b.raw = BuildRawTx(tx) /\ b.tx = tx /\ b.spent = spent /\ b.fold = fold /\ b.next = next
        OBVIOUS
  <1>8. Orderly(code, pool, spent, unlocking, outputs, fold, next)
        OBVIOUS
  <1>9. Sealed(code, pool, chain, b)
    <2>1. b.tx = Spend(b.tx.outputs, SignedInputs(b.tx, b.spent, unlocking))
          BY <1>3, <1>4, <1>7
    <2>2. Orderly(code, pool, b.spent, unlocking, b.tx.outputs, b.fold, b.next)
          BY <1>4, <1>7, <1>8
    <2> QED BY <1>4, <1>5, <1>6, <1>7, <2>1, <2>2 DEF Sealed
  <1>10. Sealed(code', pool', chain', built')
         BY <1>1, <1>9
  <1> QED BY <1>1, <1>10

-----------------------------------------------------------------------------
(* The accumulator *)

HashNext(acc, limb) == Hash256(acc \o limb)
HashedFrom(base, limbs) == Fold(LAMBDA acc, limb : Hash256(acc \o limb), base, limbs)

(* A trace of the accumulator ends in what the fold returns *)
LEMMA HashedTrace ==
  ASSUME NEW limbs, Len(limbs) \in Nat, NEW b,
         NEW t, Steps(t, Len(limbs)), t[0] = b,
         \A i \in 1 .. Len(limbs) : t[i] = Hash256(t[i - 1] \o limbs[i])
  PROVE  HashedFrom(b, limbs) = t[Len(limbs)]
  <1> DEFINE Step(i, r) == CHOOSE v \in {Hash256(q \o limbs[i]) : q \in {r}} : TRUE
             Trace(g) == g = [i \in 0 .. Len(limbs) |-> IF i = 0 THEN b ELSE Step(i, g[i - 1])]
             Result == CHOOSE g : Trace(g)
  <1>1. \A i, r : Step(i, r) = Hash256(r \o limbs[i])
        BY Zenon
  <1>2. \A i \in 1 .. Len(limbs) : t[i] = Step(i, t[i - 1])
        BY <1>1
  <1>3. HashedFrom(b, limbs) = Result[Len(limbs)]
        BY Zenon DEF HashedFrom, Fold
  <1> HIDE DEF Step
  <1>4. Trace(t)
    <2>1. \A i \in 0 .. Len(limbs) : t[i] = IF i = 0 THEN b ELSE Step(i, t[i - 1])
          BY <1>2
    <2> QED BY <2>1, Zenon DEF Steps
  <1>5. Trace(Result)
        BY <1>4, Zenon
  <1> HIDE DEF Result
  <1>6. \A i \in 0 .. Len(limbs) : Result[i] = IF i = 0 THEN b ELSE Step(i, Result[i - 1])
        BY <1>5
  <1> HIDE DEF Trace
  <1>7. Alike(Result, t, Len(limbs))
        BY <1>2, <1>6 DEF Alike
  <1> QED BY <1>3, <1>7, SameTrace

IsHashes(t, base, limbs) ==
  /\ Steps(t, Len(limbs)) /\ t[0] = base
  /\ \A i \in 1 .. Len(limbs) : t[i] = HashNext(t[i - 1], limbs[i])

(* The accumulator has a trace *)
LEMMA HashesExist ==
  ASSUME NEW base, NEW limbs, List(limbs)
  PROVE  \E t : IsHashes(t, base, limbs) /\ HashedFrom(base, limbs) = t[Len(limbs)]
  <1> DEFINE IsUpTo(t, n) == Steps(t, n) /\ t[0] = base /\ \A i \in 1 .. n : t[i] = HashNext(t[i - 1], limbs[i])
             Good(n) == \E t : IsUpTo(t, n)
             Bad == {n \in 0 .. Len(limbs) : ~Good(n)}
  <1>0. Len(limbs) \in Nat
        BY DEF List
  <1> HIDE DEF Good
  <1>1. Bad = {}
    <2> SUFFICES ASSUME Bad # {} PROVE FALSE
        OBVIOUS
    <2>1. Bad \in SUBSET Nat
          OBVIOUS
    <2> HIDE DEF Bad
    <2>2. PICK m \in Bad : \A l \in Bad : m <= l
          BY <2>1, LeastNatural
    <2> USE DEF Bad
    <2>3. CASE m = 0
      <3> DEFINE t == [i \in 0 .. 0 |-> base]
      <3>1. Steps(t, m) /\ t[0] = base /\ 1 .. m = {}
            BY <2>3 DEF Steps
      <3> HIDE DEF t
      <3>2. Good(m)
            BY <3>1 DEF Good
      <3> QED BY <3>2
    <2>4. CASE m # 0
      <3>1. m \in 1 .. Len(limbs) /\ m - 1 \in 0 .. Len(limbs) /\ m - 1 \notin Bad /\ m \in Nat
            BY <1>0, <2>2, <2>4
      <3>2. PICK t : IsUpTo(t, m - 1)
            BY <3>1 DEF Good
      <3> DEFINE w == [i \in 0 .. m |-> IF i = m THEN HashNext(t[m - 1], limbs[m]) ELSE t[i]]
      <3>3. w[m] = HashNext(t[m - 1], limbs[m]) /\ \A i \in 0 .. m - 1 : w[i] = t[i]
            BY <3>1
      <3>4. Steps(w, m)
            BY DEF Steps
      <3> HIDE DEF w
      <3>5. w[0] = base
            BY <3>1, <3>2, <3>3
      <3>6. ASSUME NEW i \in 1 .. m PROVE w[i] = HashNext(w[i - 1], limbs[i])
        <4>1. CASE i = m
          <5>1. m - 1 \in 0 .. m - 1
                BY <3>1
          <5> QED BY <3>3, <4>1, <5>1
        <4>2. CASE i # m
          <5>1. i \in 1 .. m - 1 /\ i \in 0 .. m - 1 /\ i - 1 \in 0 .. m - 1
                BY <3>1, <4>2
          <5> QED BY <3>2, <3>3, <5>1
        <4> QED BY <4>1, <4>2
      <3>7. IsUpTo(w, m)
            BY <3>4, <3>5, <3>6
      <3>8. Good(m)
            BY <3>7, Zenon DEF Good
      <3> QED BY <3>8
    <2> QED BY <2>3, <2>4
  <1>2. Good(Len(limbs))
        BY <1>0, <1>1
  <1>3. PICK t : IsUpTo(t, Len(limbs))
        BY <1>2 DEF Good
  <1>4. \A i \in 1 .. Len(limbs) : t[i] = Hash256(t[i - 1] \o limbs[i])
        BY <1>3 DEF HashNext
  <1>5. HashedFrom(base, limbs) = t[Len(limbs)]
        BY <1>0, <1>3, <1>4, HashedTrace
  <1> QED BY <1>3, <1>5 DEF IsHashes

(* Two traces of the same accumulator agree *)
LEMMA HashesAgree ==
  ASSUME NEW base, NEW limbs, List(limbs), NEW t, IsHashes(t, base, limbs)
  PROVE  HashedFrom(base, limbs) = t[Len(limbs)]
  <1>0. Len(limbs) \in Nat /\ Steps(t, Len(limbs)) /\ t[0] = base
        BY DEF List, IsHashes
  <1>1. \A i \in 1 .. Len(limbs) : t[i] = Hash256(t[i - 1] \o limbs[i])
        BY DEF HashNext, IsHashes
  <1> QED BY <1>0, <1>1, HashedTrace

(* Nothing folded, and one limb more *)
LEMMA HashedNothing ==
  ASSUME NEW base
  PROVE  HashedFrom(base, <<>>) = base
  <1>1. List(<<>>) /\ Len(<<>>) = 0
        BY ShortLists
  <1> PICK e : e = <<>>
      OBVIOUS
  <1>2. PICK t : IsHashes(t, base, e) /\ HashedFrom(base, e) = t[Len(e)]
        BY <1>1, HashesExist
  <1> QED BY <1>1, <1>2 DEF IsHashes

LEMMA HashedMore ==
  ASSUME NEW base, NEW limbs, List(limbs), NEW limb
  PROVE  HashedFrom(base, Append(limbs, limb)) = Hash256(HashedFrom(base, limbs) \o limb)
  <1> PICK n \in Nat : n = Len(limbs)
      BY DEF List
  <1> PICK more : more = Append(limbs, limb)
      OBVIOUS
  <1>1. List(more) /\ Len(more) = n + 1 /\ more[n + 1] = limb /\ \A i \in 1 .. n : more[i] = limbs[i]
        BY AppendIs
  <1>2. PICK t : IsHashes(t, base, more) /\ HashedFrom(base, more) = t[Len(more)]
        BY <1>1, HashesExist
  <1> DEFINE u == [i \in 0 .. n |-> t[i]]
  <1>3. Steps(u, n) /\ \A i \in 0 .. n : u[i] = t[i]
        BY DEF Steps
  <1> HIDE DEF u
  <1>4. ASSUME NEW i \in 1 .. n PROVE u[i] = HashNext(u[i - 1], limbs[i])
    <2>1. i \in 0 .. n /\ i - 1 \in 0 .. n /\ i \in 1 .. Len(more)
          BY <1>1
    <2>2. t[i] = HashNext(t[i - 1], more[i])
          BY <1>2, <2>1 DEF IsHashes
    <2> QED BY <1>1, <1>3, <2>1, <2>2
  <1>5. u[0] = base /\ u[n] = t[n]
        BY <1>2, <1>3 DEF IsHashes
  <1>6. HashedFrom(base, limbs) = u[n]
        BY <1>3, <1>4, <1>5, HashesAgree DEF IsHashes
  <1>7. t[n + 1] = HashNext(t[n], limb)
    <2>1. n + 1 \in 1 .. Len(more) /\ n + 1 - 1 = n
          BY <1>1
    <2> PICK k : k = n + 1
        OBVIOUS
    <2>2. t[k] = HashNext(t[k - 1], more[k])
          BY <1>2, <2>1 DEF IsHashes
    <2> QED BY <1>1, <2>1, <2>2
  <1> QED BY <1>1, <1>2, <1>5, <1>6, <1>7, Zenon DEF HashNext

(* A hash stays a hash *)
LEMMA HashedIsHash ==
  ASSUME NEW base, HashString(base), NEW limbs, List(limbs)
  PROVE  HashString(HashedFrom(base, limbs))
  <1>1. PICK t : IsHashes(t, base, limbs) /\ HashedFrom(base, limbs) = t[Len(limbs)]
        BY HashesExist
  <1>2. CASE Len(limbs) = 0
        BY <1>1, <1>2 DEF IsHashes
  <1>3. CASE Len(limbs) # 0
    <2>1. Len(limbs) \in 1 .. Len(limbs)
          BY <1>3 DEF List
    <2>2. t[Len(limbs)] = HashNext(t[Len(limbs) - 1], limbs[Len(limbs)])
          BY <1>1, <2>1 DEF IsHashes
    <2> QED BY <1>1, <2>2, HashesAreHashes DEF HashNext
  <1> QED BY <1>2, <1>3

-----------------------------------------------------------------------------
(* The commitment the builder foretells *)

BaseOf(stateIn, category, noteHash, mode) ==
  Hash256(Hash256(Hash256(Hash256(stateIn \o stateIn) \o stateIn) \o CategoryBytes(category, mode) \o CapByte)
            \o noteHash)

(* computePoolStateOut is that fold, from the base, of the limbs reversed *)
LEMMA ComputeIs ==
  ASSUME NEW stateIn, NEW category, NEW noteHash, NEW limbs, NEW mode
  PROVE  ComputePoolStateOut(stateIn, category, noteHash, limbs, mode)
         = HashedFrom(BaseOf(stateIn, category, noteHash, mode), Reverse(limbs))
  BY Zenon DEF ComputePoolStateOut, HashedFrom, BaseOf

(* A list reversed *)
LEMMA ReverseIs ==
  ASSUME NEW s, List(s)
  PROVE  /\ List(Reverse(s)) /\ Len(Reverse(s)) = Len(s)
         /\ \A i \in 1 .. Len(s) : Reverse(s)[i] = s[Len(s) + 1 - i]
  <1> PICK n \in Nat : n = Len(s)
      BY DEF List
  <1>1. Reverse(s) = [i \in 1 .. n |-> s[n - i + 1]]
        BY DEF Reverse
  <1>2. \A i \in 1 .. n : n - i + 1 = n + 1 - i
        OBVIOUS
  <1> QED BY <1>1, <1>2 DEF List

(* The commitment is a hash *)
LEMMA StateOutIsHash ==
  ASSUME NEW stateIn, NEW category, NEW noteHash, NEW limbs, List(limbs), NEW mode
  PROVE  HashString(ComputePoolStateOut(stateIn, category, noteHash, limbs, mode))
  <1>1. HashString(BaseOf(stateIn, category, noteHash, mode))
        BY HashesAreHashes DEF BaseOf
  <1> QED BY <1>1, ComputeIs, ReverseIs, HashedIsHash

-----------------------------------------------------------------------------
(* The coins a command spends *)

WalletCoin(coin) == CoinFits(coin) /\ KeyLocked(coin) /\ coin.key # "covenant"
Wallet(coins) == List(coins) /\ Len(coins) <= 1 /\ \A i \in 1 .. Len(coins) : WalletCoin(coins[i])

(* A coin of the wallet *)
LEMMA CoinIs ==
  ASSUME NEW key, key # "covenant", NEW value \in Number
  PROVE  /\ WalletCoin(Coin(key, value)) /\ Coin(key, value).value = value /\ Coin(key, value).vout = 0
         /\ TxidString(Coin(key, value).txid) /\ Coin(key, value).lock = P2PKH(Hash160(PublicKey(key)))
  <1> PICK coin : coin = Coin(key, value)
      OBVIOUS
  <1> PICK lock : lock = P2PKH(Hash160(PublicKey(key)))
      OBVIOUS
  <1>1. ByteString(lock) /\ Length(lock) \in Number
        BY KeyStrings, PayLockIs
  <1> PICK x : x = <<"txid", <<key, Len(chain)>> >>
      OBVIOUS
  <1>2. coin = [txid |-> <<x>>, vout |-> 0, value |-> value, lock |-> lock, key |-> key]
        BY DEF Coin
  <1>3. coin.txid = <<x>> /\ coin.vout = 0 /\ coin.value = value /\ coin.lock = lock /\ coin.key = key
        BY <1>2
  <1>4. TxidString(<<x>>)
        BY DEF TxidString
  <1>5. 0 \in Number
        BY SmallNumbers
  <1>6. CoinFits(coin)
        BY <1>1, <1>3, <1>4, <1>5 DEF CoinFits
  <1> QED BY <1>3, <1>4, <1>6 DEF WalletCoin, KeyLocked

(* A wallet of one coin *)
LEMMA OneCoin ==
  ASSUME NEW coin, WalletCoin(coin)
  PROVE  Wallet(<<coin>>) /\ Wallet(<<>>) /\ Len(<<coin>>) = 1 /\ Len(<<>>) = 0 /\ <<coin>>[1] = coin
  BY ShortLists DEF Wallet

(* A wallet of none *)
LEMMA NoCoin == Wallet(<<>>)
  BY ShortLists DEF Wallet

(* The witness coin, if a caller has one *)
LEMMA WitnessIs ==
  ASSUME NEW witness \in Witness
  PROVE  Wallet(witness)
  <1>1. 1000 \in Number
        BY SMT DEF Number
  <1>2. WalletCoin(Coin("witness", 1000))
        BY <1>1, CoinIs
  <1> QED BY <1>2, OneCoin, NoCoin DEF Witness

(* What a wallet is worth *)
LEMMA WalletIsValued ==
  ASSUME NEW coins, Wallet(coins)
  PROVE  /\ Valued(coins) /\ Total(coins) \in Nat
         /\ coins = <<>> => Total(coins) = 0
         /\ \A coin : coins = <<coin>> => Total(coins) = coin.value
  <1>1. \A i \in 1 .. Len(coins) : coins[i].value \in Nat
        BY NumberIsNat DEF Wallet, WalletCoin, CoinFits
  <1>2. Valued(coins)
        BY <1>1 DEF Wallet, Valued
  <1>3. Total(coins) \in Nat
        BY <1>2, ShortTotals, JoinedTotals
  <1>4. ASSUME NEW coin, coins = <<coin>> PROVE Total(coins) = coin.value
    <2>1. 1 \in 1 .. Len(coins) /\ coins[1] = coin
          BY <1>4, ShortLists
    <2> QED BY <1>1, <1>4, <2>1, ShortTotals
  <1> QED BY <1>2, <1>3, <1>4, ShortTotals

CoinsAre(first, coins, witness, spent) ==
  /\ CoinsFit(spent) /\ Len(spent) >= 1 /\ spent[1] = first
  /\ \A i \in 1 .. Len(spent) : KeyLocked(spent[i])
  /\ \A i \in 1 .. Len(spent) : i # 1 => spent[i].key # "covenant"
  /\ Total(spent) = first.value + Total(coins) + Total(witness)
  /\ Total(coins) \in Nat /\ Total(witness) \in Nat /\ first.value \in Nat

(* The coins of a command: its first, the wallet's and the witness *)
LEMMA CoinsJoin ==
  ASSUME NEW first, CoinFits(first), KeyLocked(first), NEW coins, Wallet(coins), NEW witness, Wallet(witness),
         NEW spent, spent = (<<first>> \o coins) \o witness
  PROVE  CoinsAre(first, coins, witness, spent)
  <1> PICK one : one = <<first>>
      OBVIOUS
  <1>1. List(one) /\ Len(one) = 1 /\ one[1] = first
        BY ShortLists
  <1> PICK two : two = one \o coins
      OBVIOUS
  <1>2. Len(coins) \in 0 .. 1 /\ List(coins) /\ Len(witness) \in 0 .. 1 /\ List(witness)
        BY DEF Wallet, List
  <1>3. /\ List(two) /\ Len(two) = 1 + Len(coins)
        /\ \A i \in 1 .. Len(two) : two[i] = IF i <= 1 THEN one[i] ELSE coins[i - 1]
    <2>1. /\ List(two) /\ Len(two) = Len(one) + Len(coins)
          /\ \A i \in 1 .. Len(two) : two[i] = IF i <= Len(one) THEN one[i] ELSE coins[i - Len(one)]
          BY <1>1, <1>2, JoinedLists
    <2> QED BY <1>1, <2>1
  <1>4. /\ List(spent) /\ Len(spent) = Len(two) + Len(witness)
        /\ \A i \in 1 .. Len(spent) : spent[i] = IF i <= Len(two) THEN two[i] ELSE witness[i - Len(two)]
        BY <1>2, <1>3, JoinedLists
  <1>5. ASSUME NEW i \in 1 .. Len(spent)
        PROVE  IF i = 1 THEN spent[i] = first ELSE WalletCoin(spent[i])
    <2>1. i \in Nat /\ Len(two) \in Nat
          BY <1>2, <1>3, <1>4
    <2>2. CASE i = 1
      <3>1. i \in 1 .. Len(two) /\ i <= Len(two)
            BY <1>2, <1>3, <2>2
      <3> QED BY <1>1, <1>3, <1>4, <2>2, <3>1
    <2>3. CASE i # 1 /\ i <= Len(two)
      <3>1. i \in 1 .. Len(two) /\ i - 1 \in 1 .. Len(coins) /\ ~(i <= 1)
            BY <1>2, <1>3, <2>1, <2>3
      <3>2. spent[i] = coins[i - 1]
            BY <1>3, <1>4, <2>3, <3>1
      <3> QED BY <2>3, <3>1, <3>2 DEF Wallet
    <2>4. CASE i # 1 /\ ~(i <= Len(two))
      <3>1. i - Len(two) \in 1 .. Len(witness)
            BY <1>2, <1>3, <1>4, <2>1, <2>4
      <3>2. spent[i] = witness[i - Len(two)]
            BY <1>4, <2>4
      <3> QED BY <2>4, <3>1, <3>2 DEF Wallet
    <2> QED BY <2>2, <2>3, <2>4
  <1>6. Len(spent) \in 1 .. 3
        BY <1>2, <1>3, <1>4, SMTT(30)
  <1>7. Len(spent) \in Number
        BY <1>6, SmallNumbers
  <1>8. \A i \in 1 .. Len(spent) : CoinFits(spent[i]) /\ KeyLocked(spent[i]) /\ (i # 1 => spent[i].key # "covenant")
        BY <1>5 DEF WalletCoin
  <1>9. CoinsFit(spent)
        BY <1>4, <1>7, <1>8 DEF CoinsFit, List
  <1>10. spent[1] = first
         BY <1>5, <1>6
  <1>11. first.value \in Nat
         BY NumberIsNat DEF CoinFits
  <1>12. Valued(one) /\ Total(one) = first.value
         BY <1>11, ShortTotals
  <1>13. Valued(coins) /\ Total(coins) \in Nat /\ Valued(witness) /\ Total(witness) \in Nat
         BY WalletIsValued, Zenon
  <1>14. Valued(two) /\ Total(two) = Total(one) + Total(coins)
         BY <1>12, <1>13, JoinedTotals, Zenon
  <1>15. Total(spent) = Total(two) + Total(witness)
         BY <1>13, <1>14, JoinedTotals, Zenon
  <1>16. Total(spent) = first.value + Total(coins) + Total(witness)
         BY <1>12, <1>14, <1>15
  <1> QED BY <1>6, <1>8, <1>9, <1>10, <1>11, <1>13, <1>16 DEF CoinsAre

-----------------------------------------------------------------------------
(* The outputs it makes *)

PoolOutput(c, category, out) ==
  out = [value |-> out.value, lock |-> out.lock] /\ out.value \in Number /\ PoolLock(c, category, out.lock)
Payouts(c, category, payouts) ==
  /\ List(payouts) /\ Len(payouts) + 1 \in Number
  /\ \A i \in 1 .. Len(payouts) : PoolOutput(c, category, payouts[i])

(* What the payouts are worth *)
LEMMA PayoutsAreValued ==
  ASSUME NEW c, NEW category, NEW payouts, Payouts(c, category, payouts)
  PROVE  Valued(payouts) /\ Total(payouts) \in Nat
  <1>1. \A i \in 1 .. Len(payouts) : payouts[i].value \in Nat
        BY NumberIsNat DEF Payouts, PoolOutput
  <1>2. Valued(payouts)
        BY <1>1 DEF Payouts, Valued
  <1> QED BY <1>2, ShortTotals, JoinedTotals

OutputsAre(c, category, out, payouts, outputs) ==
  /\ OutputsOfPool(c, category, outputs) /\ Len(outputs) = Len(payouts) + 1 /\ Len(outputs) >= 1
  /\ outputs[1] = out /\ \A i \in 1 .. Len(payouts) : outputs[i + 1] = payouts[i]
  /\ Total(outputs) = out.value + Total(payouts) /\ Total(payouts) \in Nat /\ out.value \in Nat

(* The outputs of a command: its first and the payouts *)
LEMMA OutputsJoin ==
  ASSUME NEW c, NEW category, NEW out, PoolOutput(c, category, out), NEW payouts, Payouts(c, category, payouts),
         NEW outputs, outputs = <<out>> \o payouts
  PROVE  OutputsAre(c, category, out, payouts, outputs)
  <1> PICK one : one = <<out>>
      OBVIOUS
  <1>1. List(one) /\ Len(one) = 1 /\ one[1] = out
        BY ShortLists
  <1> PICK n \in Nat : n = Len(payouts)
      BY DEF Payouts, List
  <1>2. /\ List(outputs) /\ Len(outputs) = n + 1
        /\ \A i \in 1 .. Len(outputs) : outputs[i] = IF i <= 1 THEN one[i] ELSE payouts[i - 1]
    <2>1. List(payouts)
          BY DEF Payouts
    <2>2. /\ List(outputs) /\ Len(outputs) = Len(one) + Len(payouts)
          /\ \A i \in 1 .. Len(outputs) : outputs[i] = IF i <= Len(one) THEN one[i] ELSE payouts[i - Len(one)]
          BY <1>1, <2>1, JoinedLists
    <2> QED BY <1>1, <2>2
  <1>3. outputs[1] = out
        BY <1>1, <1>2
  <1>4. ASSUME NEW i \in 1 .. n PROVE outputs[i + 1] = payouts[i]
    <2>1. i + 1 \in 1 .. Len(outputs) /\ ~(i + 1 <= 1) /\ i + 1 - 1 = i
          BY <1>2
    <2> PICK k : k = i + 1
        OBVIOUS
    <2>2. outputs[k] = payouts[k - 1]
          BY <1>2, <2>1
    <2> QED BY <2>1, <2>2
  <1>5. ASSUME NEW i \in 1 .. Len(outputs) PROVE PoolOutput(c, category, outputs[i])
    <2>1. CASE i = 1
          BY <1>3, <2>1
    <2>2. CASE i # 1
      <3>1. i - 1 \in 1 .. n /\ ~(i <= 1)
            BY <1>2, <2>2
      <3>2. outputs[i] = payouts[i - 1]
            BY <1>2, <3>1
      <3> QED BY <3>1, <3>2 DEF Payouts
    <2> QED BY <2>1, <2>2
  <1>6. OutputsOfPool(c, category, outputs)
    <2>1. Len(outputs) \in Number
          BY <1>2 DEF Payouts
    <2>2. \A i \in 1 .. Len(outputs) :
             /\ outputs[i] = [value |-> outputs[i].value, lock |-> outputs[i].lock] /\ outputs[i].value \in Number
             /\ PoolLock(c, category, outputs[i].lock)
          BY <1>5, Zenon DEF PoolOutput
    <2> QED BY <1>2, <2>1, <2>2 DEF OutputsOfPool, List
  <1>7. out.value \in Nat
        BY NumberIsNat DEF PoolOutput
  <1>8. Valued(one) /\ Total(one) = out.value
        BY <1>7, ShortTotals
  <1>9. Valued(payouts) /\ Total(payouts) \in Nat
        BY PayoutsAreValued
  <1>10. Total(outputs) = out.value + Total(payouts)
         BY <1>8, <1>9, JoinedTotals
  <1> QED BY <1>2, <1>3, <1>4, <1>6, <1>7, <1>9, <1>10 DEF OutputsAre

(* An output that pays a key is one of the pool's *)
LEMMA PaysIs ==
  ASSUME NEW c, NEW category, NEW hash, ByteString(hash), Length(hash) = 20, Paid(hash), NEW value \in Number
  PROVE  PoolOutput(c, category, [value |-> value, lock |-> P2PKH(hash)])
  BY DEF PoolOutput, PoolLock

(* A shard is one of the pool's outputs *)
LEMMA ShardIs ==
  ASSUME NEW c, NEW category, NEW commitment, Word(commitment), NEW value \in Number
  PROVE  PoolOutput(c, category, [value |-> value, lock |-> LockOf(c, category, commitment)])
  BY DEF PoolOutput, PoolLock

(* One payout before the others *)
LEMMA OnePayoutMore ==
  ASSUME NEW c, NEW category, NEW out, PoolOutput(c, category, out),
         NEW rest, Payouts(c, category, rest), Len(rest) \in 0 .. 1
  PROVE  Payouts(c, category, <<out>> \o rest) /\ Total(<<out>> \o rest) = out.value + Total(rest)
  <1> PICK outs : outs = <<out>> \o rest
      OBVIOUS
  <1>0. OutputsAre(c, category, out, rest, outs)
        BY OutputsJoin, Zenon
  <1>1. OutputsOfPool(c, category, outs)
        BY <1>0 DEF OutputsAre
  <1>2. Len(outs) = Len(rest) + 1
        BY <1>0 DEF OutputsAre
  <1>3. Total(outs) = out.value + Total(rest)
        BY <1>0 DEF OutputsAre
  <1>4. Len(outs) + 1 \in 0 .. 3 /\ Len(outs) + 1 \in Number /\ Len(outs) \in Nat
        BY <1>2, SmallNumbers
  <1>5. \A i \in 1 .. Len(outs) : PoolOutput(c, category, outs[i])
        BY <1>1, Zenon DEF OutputsOfPool, PoolOutput
  <1>6. List(outs)
        BY <1>1, <1>4, Zenon DEF OutputsOfPool, List
  <1> QED BY <1>3, <1>4, <1>5, <1>6, Zenon DEF Payouts

(* No payout, and one *)
LEMMA FewPayouts ==
  ASSUME NEW c, NEW category
  PROVE  /\ Payouts(c, category, <<>>) /\ Total(<<>>) = 0
         /\ \A out : PoolOutput(c, category, out) =>
              Payouts(c, category, <<out>>) /\ Total(<<out>>) = out.value
  <1>0. \A n \in 0 .. 3 : n \in Number
        BY SmallNumbers
  <1>1. Payouts(c, category, <<>>)
        BY <1>0, ShortLists DEF Payouts
  <1>2. ASSUME NEW out, PoolOutput(c, category, out)
        PROVE  Payouts(c, category, <<out>>) /\ Total(<<out>>) = out.value
    <2>1. out.value \in Nat
          BY <1>2, NumberIsNat DEF PoolOutput
    <2> QED BY <1>0, <1>2, <2>1, ShortLists, ShortTotals DEF Payouts
  <1> QED BY <1>1, <1>2, ShortTotals

-----------------------------------------------------------------------------
(* The commands *)

(* The shard coin that a command reads from the raw transaction is the     *)
(* shard of the pool state: its lock, its commitment, and no more than a   *)
(* shard can be worth                                                      *)
LEMMA ShardCoinIs ==
  ASSUME CodeFits(code), List(chain), Len(chain) < MaxTx, PoolHolds(code, pool, chain), NEW i \in Shard
  PROVE  /\ CoinFits(ShardCoin(i)) /\ KeyLocked(ShardCoin(i)) /\ ShardCoin(i).key = "covenant"
         /\ ShardCoin(i).lock = LockOf(code, pool.category, pool.shards[i].commitment)
         /\ HashString(pool.shards[i].commitment) /\ Commitment32(ShardCoin(i).lock) = pool.shards[i].commitment
         /\ ShardCoin(i).value \in Nat /\ ShardCoin(i).value <= Worth(Len(chain))
         /\ Length(ShardCoin(i).lock) \in Nat
  <1> PICK pointer : pointer = pool.shards[i]
      OBVIOUS
  <1> PICK coin : coin = ShardCoin(i)
      OBVIOUS
  <1> PICK lock : lock = LockOf(code, pool.category, pointer.commitment)
      OBVIOUS
  <1>1. CategoryString(pool.category) /\ PointerHolds(code, pool.category, pointer, chain)
        BY DEF PoolHolds
  <1>2. pointer.vout \in Number /\ HashString(pointer.commitment)
        BY <1>1 DEF PointerHolds
  <1>3. PICK v \in Nat : /\ v <= Worth(Len(chain))
                         /\ GetPrevoutScriptAndValue(chain[pointer.txid], pointer.vout) = [value |-> v, lock |-> lock]
        BY <1>1 DEF PointerHolds
  <1>4. Prevout(pointer) = [value |-> v, lock |-> lock]
        BY <1>3, Zenon DEF Prevout
  <1>5. coin = [txid |-> TxidOf(pointer.txid), vout |-> pointer.vout, value |-> Prevout(pointer).value,
                lock |-> Prevout(pointer).lock, key |-> "covenant"]
        BY Zenon DEF ShardCoin
  <1>6. coin.txid = TxidOf(pointer.txid) /\ coin.vout = pointer.vout /\ coin.value = v /\ coin.lock = lock
        /\ coin.key = "covenant"
        BY <1>4, <1>5
  <1>7. TxidString(TxidOf(pointer.txid))
        BY DEF TxidString, TxidOf
  <1>8. Word(pool.category) /\ Word(pointer.commitment)
        BY <1>1, <1>2, CategoryIs, HashIsWord
  <1>9. ByteString(lock) /\ Length(lock) \in Number /\ Commitment32(lock) = pointer.commitment
        BY <1>8, ShardLockIs
  <1>10. Len(chain) \in Nat
         BY DEF List
  <1>11. Worth(Len(chain)) \in Number
         BY <1>10, WorthGrows
  <1>12. v \in Number
         BY <1>3, <1>11, NumberBelow
  <1>13. CoinFits(coin)
         BY <1>2, <1>6, <1>7, <1>9, <1>12 DEF CoinFits
  <1>14. KeyLocked(coin)
         BY <1>6 DEF KeyLocked
  <1> QED BY <1>2, <1>3, <1>6, <1>9, <1>13, <1>14, NumberIsNat

(* The index of the covenant's output fits its field *)
LEMMA ZeroIsNumber == 0 \in Number
  BY SmallNumbers

Replaced(p, i, new, next) ==
  /\ next.category = p.category /\ next.shards[i] = new
  /\ \A k \in Shard : k # i => next.shards[k] = p.shards[k]
  /\ next = [category |-> next.category, shards |-> [k \in Shard |-> next.shards[k]]]

(* The pool state with one pointer replaced *)
LEMMA ShardReplaced ==
  ASSUME NEW p, p = [category |-> p.category, shards |-> [k \in Shard |-> p.shards[k]]],
         NEW i \in Shard, NEW new, NEW next, next = [p EXCEPT !.shards[i] = new]
  PROVE  Replaced(p, i, new, next)
  <1> PICK category : category = p.category
      OBVIOUS
  <1> PICK shards : shards = p.shards
      OBVIOUS
  <1>1. p = [category |-> category, shards |-> shards] /\ shards = [k \in Shard |-> shards[k]]
        OBVIOUS
  <1>2. next = [category |-> category, shards |-> [shards EXCEPT ![i] = new]]
        BY <1>1
  <1>3. next.category = category /\ next.shards = [shards EXCEPT ![i] = new]
        BY <1>2
  <1>4. [shards EXCEPT ![i] = new] = [k \in Shard |-> IF k = i THEN new ELSE shards[k]]
        BY <1>1
  <1>5. next.shards = [k \in Shard |-> next.shards[k]]
        BY <1>3, <1>4
  <1>6. next = [category |-> next.category, shards |-> next.shards]
        BY <1>2, <1>3
  <1> QED BY <1>3, <1>4, <1>5, <1>6 DEF Replaced

(* A spend of a shard leaves a sealed transaction *)
LEMMA SpendSeals ==
  ASSUME CodeFits(code), List(chain), PoolHolds(code, pool, chain), Ready, NEW i \in Shard,
         NEW fold, FoldFits(fold), fold.stateIn = pool.shards[i].commitment,
         NEW blob, HashString(blob), NEW value \in Nat, value <= Worth(Len(chain) + 1),
         NEW coins, Wallet(coins), NEW witness \in Witness, NEW payouts, Payouts(code, pool.category, payouts),
         value + Total(payouts) <= ShardCoin(i).value + Total(coins),
         SpendShard(i, fold, blob, value, coins, witness, payouts)
  PROVE  Sealed(code, pool, chain, built)' /\ stage' = "node" /\ UNCHANGED <<code, pool, chain, machine>>
  <1> PICK category : category = pool.category
      OBVIOUS
  <1> PICK stateOut : stateOut = StateOut(fold, category)
      OBVIOUS
  <1> PICK unlocking : unlocking = Unlocking(fold.limbs, fold.noteHash, blob)
      OBVIOUS
  <1> PICK lock : lock = LockOf(code, category, stateOut)
      OBVIOUS
  <1> PICK outputs : outputs = <<[value |-> value, lock |-> lock]>> \o payouts
      OBVIOUS
  <1> PICK new : new = [txid |-> Len(chain) + 1, vout |-> 0, commitment |-> stateOut]
      OBVIOUS
  <1> PICK next : next = [pool EXCEPT !.shards[i] = new]
      OBVIOUS
  <1> PICK first : first = ShardCoin(i)
      OBVIOUS
  <1> PICK n \in Nat : n = Len(chain)
      BY DEF List
  <1>0. n < MaxTx /\ pool # NoPool
        BY DEF Ready
  <1>1. Submit(<<first>> \o coins, witness, unlocking, outputs, fold, next)
    <2>1. ShardLock(category, stateOut) = lock
          BY ShardLockOf
    <2> QED BY <2>1, Zenon DEF SpendShard, StateOut
  <1>2. /\ CoinFits(first) /\ KeyLocked(first) /\ first.key = "covenant"
        /\ first.lock = LockOf(code, category, fold.stateIn) /\ first.value \in Nat
        BY <1>0, ShardCoinIs
  <1> PICK spent : spent = (<<first>> \o coins) \o witness
      OBVIOUS
  <1>3. /\ CoinsFit(spent) /\ Len(spent) >= 1 /\ spent[1] = first
        /\ \A k \in 1 .. Len(spent) : KeyLocked(spent[k])
        /\ Total(spent) = first.value + Total(coins) + Total(witness)
        /\ Total(coins) \in Nat /\ Total(witness) \in Nat
    <2>1. Wallet(witness)
          BY WitnessIs
    <2>2. CoinsAre(first, coins, witness, spent)
          BY <1>2, <2>1, CoinsJoin, Zenon
    <2> QED BY <2>2 DEF CoinsAre
  <1>4. HashString(stateOut) /\ Word(stateOut)
    <2>1. List(fold.limbs)
          BY LimbsAreFit DEF FoldFits, LimbsFit
    <2>2. HashString(stateOut)
          BY <2>1, StateOutIsHash DEF StateOut
    <2> QED BY <2>2, HashIsWord
  <1>5. value \in Number
    <2>1. Worth(n + 1) \in Number
          BY <1>0, WorthGrows
    <2> QED BY <2>1, NumberBelow
  <1> PICK out : out = [value |-> value, lock |-> lock]
      OBVIOUS
  <1>6. PoolOutput(code, category, out) /\ out.value = value /\ out.lock = lock
        BY <1>4, <1>5, ShardIs
  <1>7. OutputsAre(code, category, out, payouts, outputs)
    <2>1. outputs = <<out>> \o payouts
          OBVIOUS
    <2> QED BY <1>6, <2>1, OutputsJoin, Zenon
  <1>8. /\ OutputsOfPool(code, category, outputs) /\ Len(outputs) >= 1 /\ Len(outputs) \in Nat
        /\ outputs[1] = out /\ Total(outputs) = value + Total(payouts)
        BY <1>6, <1>7, NumberIsNat DEF OutputsAre, OutputsOfPool
  <1>9. CategoryString(category) /\ pool = [category |-> category, shards |-> [k \in Shard |-> pool.shards[k]]]
        BY DEF PoolHolds
  <1>10. /\ next.category = category /\ next.shards[i] = new /\ \A k \in Shard : k # i => next.shards[k] = pool.shards[k]
         /\ next = [category |-> next.category, shards |-> [k \in Shard |-> next.shards[k]]]
    <2> PICK p : p = pool
        OBVIOUS
    <2>1. p = [category |-> p.category, shards |-> [k \in Shard |-> p.shards[k]]]
          BY <1>9
    <2>2. next = [p EXCEPT !.shards[i] = new]
          OBVIOUS
    <2>3. Replaced(p, i, new, next)
          BY <2>1, <2>2, ShardReplaced, Zenon
    <2> QED BY <2>3 DEF Replaced
  <1>11. NextFits(code, chain, next, outputs)
    <2>1. ASSUME NEW k \in Shard, k # i PROVE PointerHolds(code, next.category, next.shards[k], chain)
          BY <1>10, <2>1 DEF PoolHolds
    <2>2. PointsInto(code, n, next.category, new, outputs)
      <3>1. new.txid = n + 1 /\ new.vout = 0 /\ new.commitment = stateOut
            OBVIOUS
      <3>2. 0 + 1 = 1 /\ 1 \in 1 .. Len(outputs)
            BY <1>8
      <3>2a. 0 \in Number
            BY ZeroIsNumber
      <3>3. outputs[1] = [value |-> value, lock |-> LockOf(code, next.category, new.commitment)]
            BY <1>8, <1>10, <3>1
      <3>4. value <= Worth(n + 1)
            OBVIOUS
      <3> QED BY <1>4, <3>1, <3>2, <3>2a, <3>3, <3>4 DEF PointsInto
    <2> QED BY <1>9, <1>10, <2>1, <2>2 DEF NextFits
  <1>12. Orderly(code, pool, spent, unlocking, outputs, fold, next)
    <2>1. Spending(code, pool, spent, unlocking, outputs, fold, next)
          BY <1>0, <1>2, <1>3, <1>6, <1>8, <1>10 DEF Spending
    <2>2. Total(outputs) <= Total(spent)
      <3>1. value + Total(payouts) <= first.value + Total(coins)
            OBVIOUS
      <3> PICK x \in Nat : x = Total(coins)
          BY <1>3
      <3> PICK y \in Nat : y = Total(witness)
          BY <1>3
      <3>2. first.value + x <= first.value + x + y
            BY <1>2
      <3>3. Total(payouts) \in Nat
            BY PayoutsAreValued
      <3>4. value + Total(payouts) <= first.value + x + y
            BY <1>2, <3>1, <3>2, <3>3
      <3> QED BY <1>3, <1>8, <3>4
    <2> QED BY <1>3, <1>8, <1>9, <1>10, <2>1, <2>2 DEF Orderly
  <1>13. Len(chain) < MaxTx
         BY <1>0
  <1> QED
    <2>1. Orderly(code, pool, (<<first>> \o coins) \o witness, unlocking, outputs, fold, next)
          BY <1>12
    <2> QED BY <1>1, <1>11, <1>13, <2>1, SubmitSeals

(* What every builder leaves: a sealed transaction, and the rest as it was *)
Built == Sealed(code, pool, chain, built)' /\ stage' = "node" /\ UNCHANGED <<code, pool, chain, machine>>

(* The dust limit *)
LEMMA DustIs == DUST \in Nat /\ DUST = 546
  BY DEF DUST

(* importDepositToShard leaves a sealed transaction *)
LEMMA ImportSeals ==
  ASSUME CodeFits(code), List(chain), PoolHolds(code, pool, chain), ImportDepositToShard
  PROVE  Built
  <1>1. PICK i \in Shard, mode \in Mode, witness \in Witness :
           LET deposit == Coin("deposit", DepositValue)
               noteHash == OutpointHash32(deposit.txid, deposit.vout)
               value == ShardCoin(i).value + deposit.value - Fee
               fold == [mode |-> mode, limbs |-> <<>>, stateIn |-> pool.shards[i].commitment, noteHash |-> noteHash]
           IN value >= DUST /\ SpendShard(i, fold, MakeProofBlob(noteHash, 80), value, <<deposit>>, witness, <<>>)
        BY DEF ImportDepositToShard
  <1> PICK deposit : deposit = Coin("deposit", DepositValue)
      OBVIOUS
  <1> PICK noteHash : noteHash = OutpointHash32(deposit.txid, deposit.vout)
      OBVIOUS
  <1> PICK value : value = ShardCoin(i).value + deposit.value - Fee
      OBVIOUS
  <1> PICK fold : fold = [mode |-> mode, limbs |-> <<>>, stateIn |-> pool.shards[i].commitment, noteHash |-> noteHash]
      OBVIOUS
  <1> PICK blob : blob = MakeProofBlob(noteHash, 80)
      OBVIOUS
  <1> PICK coins : coins = <<deposit>>
      OBVIOUS
  <1>2. value >= DUST /\ SpendShard(i, fold, blob, value, coins, witness, <<>>)
        BY <1>1
  <1>3. Ready /\ Len(chain) < MaxTx /\ Len(chain) \in Nat
        BY DEF ImportDepositToShard, Ready, List
  <1>4. /\ DepositValue \in Number /\ DepositValue \in Nat /\ Fee \in Nat
        /\ Worth(Len(chain) + 1) = Worth(Len(chain)) + DepositValue /\ Worth(Len(chain)) \in Nat
        BY <1>3, WorthGrows
  <1>5. WalletCoin(deposit) /\ deposit.value = DepositValue
        BY <1>4, CoinIs
  <1>6. HashString(noteHash) /\ HashString(blob)
        BY HashesAreHashes DEF OutpointHash32, MakeProofBlob
  <1>7. HashString(pool.shards[i].commitment) /\ ShardCoin(i).value \in Nat /\ ShardCoin(i).value <= Worth(Len(chain))
        BY <1>3, ShardCoinIs
  <1>8. FoldFits(fold) /\ fold.stateIn = pool.shards[i].commitment
        BY <1>6, <1>7 DEF FoldFits
  <1>9. Wallet(coins) /\ Total(coins) = DepositValue
        BY <1>4, <1>5, OneCoin, WalletIsValued
  <1>10. Payouts(code, pool.category, <<>>) /\ Total(<<>>) = 0
         BY FewPayouts
  <1>11. value \in Nat /\ value <= Worth(Len(chain) + 1) /\ value + 0 <= ShardCoin(i).value + Total(coins)
    <2> PICK v \in Nat : v = ShardCoin(i).value
        BY <1>7
    <2> PICK w \in Nat : w = Worth(Len(chain))
        BY <1>4
    <2> PICK d \in Nat : d = DepositValue
        BY <1>4
    <2> PICK f \in Nat : f = Fee
        BY <1>4
    <2>1. value = v + d - f /\ v <= w /\ value >= 0
          BY <1>2, <1>5, <1>7, DustIs
    <2>2. value \in Nat /\ value <= w + d /\ value + 0 <= v + d
          BY <2>1
    <2> QED BY <1>4, <1>9, <2>2
  <1>12. value + Total(<<>>) <= ShardCoin(i).value + Total(coins)
         BY <1>10, <1>11
  <1> QED BY <1>2, <1>3, <1>6, <1>8, <1>9, <1>10, <1>11, <1>12, SpendSeals DEF Built

(* So does a caller that folds limbs *)
LEMMA FoldSeals ==
  ASSUME CodeFits(code), List(chain), PoolHolds(code, pool, chain), FoldLimbs
  PROVE  Built
  <1>0. 0 \in Shard
        BY ByteAssumption DEF Shard
  <1> PICK i \in Shard : i = 0
      BY <1>0
  <1>1. PICK limbs \in Limbs, mode \in Mode :
           LET noteHash == Sha256(<<Byte(Len(chain))>>)
               fold == [mode |-> mode, limbs |-> limbs, stateIn |-> Commitment32(ShardCoin(i).lock), noteHash |-> noteHash]
               value == ShardCoin(i).value - Fee
           IN value >= DUST /\ SpendShard(i, fold, MakeProofBlob(noteHash, 80), value, <<>>, <<>>, <<>>)
        BY DEF FoldLimbs
  <1> PICK noteHash : noteHash = Sha256(<<Byte(Len(chain))>>)
      OBVIOUS
  <1> PICK value : value = ShardCoin(i).value - Fee
      OBVIOUS
  <1> PICK fold : fold = [mode |-> mode, limbs |-> limbs, stateIn |-> Commitment32(ShardCoin(i).lock), noteHash |-> noteHash]
      OBVIOUS
  <1> PICK blob : blob = MakeProofBlob(noteHash, 80)
      OBVIOUS
  <1>2. value >= DUST /\ SpendShard(i, fold, blob, value, <<>>, <<>>, <<>>)
        BY <1>1
  <1>3. Ready /\ Len(chain) < MaxTx /\ Len(chain) \in Nat
        BY DEF FoldLimbs, Ready, List
  <1>4. /\ Fee \in Nat /\ Worth(Len(chain)) \in Nat /\ DepositValue \in Nat
        /\ Worth(Len(chain) + 1) = Worth(Len(chain)) + DepositValue
        BY <1>3, WorthGrows
  <1>6. HashString(noteHash) /\ HashString(blob)
        BY HashesAreHashes DEF MakeProofBlob
  <1>7. /\ HashString(pool.shards[i].commitment) /\ ShardCoin(i).value \in Nat
        /\ ShardCoin(i).value <= Worth(Len(chain)) /\ Commitment32(ShardCoin(i).lock) = pool.shards[i].commitment
        BY <1>3, ShardCoinIs
  <1>8. FoldFits(fold) /\ fold.stateIn = pool.shards[i].commitment
        BY <1>6, <1>7 DEF FoldFits
  <1>9. Wallet(<<>>) /\ <<>> \in Witness
        BY NoCoin DEF Witness
  <1>10. Payouts(code, pool.category, <<>>) /\ Total(<<>>) = 0
         BY FewPayouts
  <1>11. value \in Nat /\ value <= Worth(Len(chain) + 1) /\ value + 0 <= ShardCoin(i).value + 0
    <2> PICK v \in Nat : v = ShardCoin(i).value
        BY <1>7
    <2> PICK w \in Nat : w = Worth(Len(chain))
        BY <1>4
    <2> PICK d \in Nat : d = DepositValue
        BY <1>4
    <2> PICK f \in Nat : f = Fee
        BY <1>4
    <2>1. value = v - f /\ v <= w /\ value >= 0
          BY <1>2, <1>7, DustIs
    <2>2. value \in Nat /\ value <= w + d /\ value + 0 <= v + 0
          BY <2>1
    <2> QED BY <1>4, <2>2
  <1>12. value + Total(<<>>) <= ShardCoin(i).value + Total(<<>>)
         BY <1>10, <1>11
  <1> QED BY <1>2, <1>3, <1>6, <1>8, <1>9, <1>10, <1>11, <1>12, SpendSeals DEF Built

(* The dust threshold is a natural number *)
LEMMA DustThresholdIs ==
  ASSUME NEW lock, Length(lock) \in Nat
  PROVE  DustThreshold(lock) \in Nat
  BY DEF DustThreshold

(* The coin that pays the fee and the change it gets *)
LEMMA ChangeIs ==
  ASSUME NEW c, NEW category, NEW coins,
         coins \in {<<>>} \cup {<<Coin("fee", v)>> : v \in FeeCoinValue}, coins # <<>> => coins[1].value >= Fee
  PROVE  /\ Wallet(coins) /\ Payouts(c, category, ChangeOutput(coins)) /\ Len(ChangeOutput(coins)) \in 0 .. 1
         /\ Total(coins) \in Nat /\ Total(ChangeOutput(coins)) \in Nat
         /\ Total(ChangeOutput(coins)) <= Total(coins) - (IF coins = <<>> THEN 0 ELSE Fee)
  <1>0. Fee \in Nat
        BY AmountAssumption, Zenon
  <1>1. CASE coins = <<>>
    <2>1. ChangeOutput(coins) = <<>>
          BY <1>1 DEF ChangeOutput
    <2> QED BY <1>1, <2>1, NoCoin, FewPayouts, ShortLists, ShortTotals
  <1>2. CASE coins # <<>>
    <2>1. PICK v \in FeeCoinValue : coins = <<Coin("fee", v)>>
          BY <1>2
    <2>2. v \in Number
          BY AmountAssumption
    <2> PICK coin : coin = Coin("fee", v)
        OBVIOUS
    <2>3. /\ WalletCoin(coin) /\ coin.value = v /\ coin.lock = P2PKH(Hash160(PublicKey("fee")))
          BY <2>2, CoinIs
    <2>4. coins = <<coin>> /\ coins[1] = coin /\ Wallet(coins) /\ v \in Nat
          BY <2>1, <2>2, <2>3, OneCoin, NumberIsNat
    <2>5. Total(coins) = v
          BY <2>3, <2>4, WalletIsValued
    <2>6. CASE v - Fee < DUST
      <3>1. ChangeOutput(coins) = <<>>
            BY <2>3, <2>4, <2>6 DEF ChangeOutput
      <3>2. v >= Fee
            BY <1>2, <2>3, <2>4
      <3>3. 0 <= v - Fee
            BY <1>0, <2>4, <3>2
      <3> QED BY <1>2, <2>4, <2>5, <3>1, <3>3, FewPayouts, ShortLists, ShortTotals
    <2>7. CASE ~(v - Fee < DUST)
      <3> PICK out : out = [value |-> v - Fee, lock |-> P2PKH(Hash160(PublicKey("fee")))]
          OBVIOUS
      <3>1. ChangeOutput(coins) = <<out>>
            BY <1>2, <2>3, <2>4, <2>7 DEF ChangeOutput
      <3>2. v - Fee \in Nat /\ v - Fee <= v
            BY <1>0, <2>4, <2>7, DustIs
      <3>3. v - Fee \in Number
            BY <2>2, <3>2, NumberBelow
      <3>4. PoolOutput(c, category, out)
        <4>1. Paid(Hash160(PublicKey("fee")))
              BY DEF Paid
        <4> QED BY <3>3, <4>1, KeyStrings, PaysIs
      <3>5. Payouts(c, category, <<out>>) /\ Total(<<out>>) = v - Fee /\ Len(<<out>>) = 1
        <4>1. out.value = v - Fee /\ Len(<<out>>) = 1
              BY ShortLists
        <4>2. Payouts(c, category, <<out>>) /\ Total(<<out>>) = out.value
              BY <3>4, FewPayouts, Zenon
        <4> QED BY <4>1, <4>2
      <3> QED BY <1>2, <2>4, <2>5, <3>1, <3>2, <3>5
    <2> QED BY <2>6, <2>7
  <1> QED BY <1>1, <1>2

Leaves(v, p, f, t, value) == value = v - p - f /\ value >= t
WhatIsLeft(v, p, f, value) == value \in Nat /\ value + p + f = v /\ p <= v /\ value <= v

(* Payment and fee taken from a value that is left above a threshold *)
LEMMA LeavesIs ==
  ASSUME NEW v \in Nat, NEW p \in Nat, NEW f \in Nat, NEW t \in Nat, NEW value, Leaves(v, p, f, t, value)
  PROVE  WhatIsLeft(v, p, f, value)
  BY DEF Leaves, WhatIsLeft

(* What is paid out is no more than what comes in *)
LEMMA WhatIsPaid ==
  ASSUME NEW v \in Nat, NEW p \in Nat, NEW f \in Nat, NEW x \in Nat, NEW y \in Nat, NEW g \in Nat,
         NEW value \in Nat, value + p + f = v, y <= x - g
  PROVE  value + (p + y) <= v + x
  OBVIOUS

(* withdrawFromShard leaves a sealed transaction *)
LEMMA WithdrawSeals ==
  ASSUME CodeFits(code), List(chain), PoolHolds(code, pool, chain), WithdrawFromShard
  PROVE  Built
  <1>1. PICK i \in Shard, mode \in Mode, witness \in Witness, hash \in Payees,
             coins \in {<<>>} \cup {<<Coin("fee", v)>> : v \in FeeCoinValue} :
           LET paySpk == P2PKH([k \in 1 .. Len(hash) |-> Byte(hash[k])])
               stateIn == Commitment32(ShardCoin(i).lock)
               nullifier == Nullifier(stateIn, paySpk, Payment)
               value == ShardCoin(i).value - Payment - (IF coins = <<>> THEN Fee ELSE 0)
               fold == [mode |-> mode, limbs |-> <<>>, stateIn |-> stateIn, noteHash |-> nullifier]
           IN /\ Len(hash) = 20 /\ value >= DustThreshold(ShardCoin(i).lock)
              /\ coins # <<>> => coins[1].value >= Fee
              /\ SpendShard(i, fold, Sha256(nullifier \o <<Byte(2)>>), value, coins, witness,
                            <<[value |-> Payment, lock |-> paySpk]>> \o ChangeOutput(coins))
        BY ZenonT(30) DEF WithdrawFromShard
  <1> PICK bytes : bytes = [k \in 1 .. Len(hash) |-> Byte(hash[k])]
      OBVIOUS
  <1> PICK paySpk : paySpk = P2PKH(bytes)
      OBVIOUS
  <1> PICK stateIn : stateIn = Commitment32(ShardCoin(i).lock)
      OBVIOUS
  <1> PICK nullifier : nullifier = Nullifier(stateIn, paySpk, Payment)
      OBVIOUS
  <1> PICK value : value = ShardCoin(i).value - Payment - (IF coins = <<>> THEN Fee ELSE 0)
      OBVIOUS
  <1> PICK fold : fold = [mode |-> mode, limbs |-> <<>>, stateIn |-> stateIn, noteHash |-> nullifier]
      OBVIOUS
  <1> PICK blob : blob = Sha256(nullifier \o <<Byte(2)>>)
      OBVIOUS
  <1> PICK pay : pay = [value |-> Payment, lock |-> paySpk]
      OBVIOUS
  <1> PICK change : change = ChangeOutput(coins)
      OBVIOUS
  <1> PICK payouts : payouts = <<pay>> \o change
      OBVIOUS
  <1>2. /\ Len(hash) = 20 /\ value >= DustThreshold(ShardCoin(i).lock)
        /\ coins # <<>> => coins[1].value >= Fee
        /\ SpendShard(i, fold, blob, value, coins, witness, payouts)
        BY <1>1, Zenon
  <1>3. Ready /\ Len(chain) < MaxTx /\ Len(chain) \in Nat
        BY DEF WithdrawFromShard, Ready, List
  <1>4. /\ Payment \in Nat /\ Fee \in Nat /\ DepositValue \in Nat
        /\ Worth(Len(chain) + 1) = Worth(Len(chain)) + DepositValue
        /\ Worth(Len(chain)) \in Nat /\ Worth(Len(chain)) \in Number
        BY <1>3, WorthGrows
  <1>5. ByteString(bytes) /\ Length(bytes) = 20
    <2>1. bytes = [k \in 1 .. 20 |-> Byte(hash[k])]
          BY <1>2
    <2> DEFINE s == [k \in 1 .. 20 |-> Byte(hash[k])]
    <2>2. 20 \in Nat
          OBVIOUS
    <2>3. ByteString(s) /\ Length(s) = 20
          BY <2>2, BytesAreStrings, Zenon
    <2> QED BY <2>1, <2>3
  <1>6. HashString(nullifier) /\ HashString(blob)
        BY HashesAreHashes DEF Nullifier
  <1>7. /\ HashString(pool.shards[i].commitment) /\ ShardCoin(i).value \in Nat
        /\ ShardCoin(i).value <= Worth(Len(chain)) /\ stateIn = pool.shards[i].commitment
        /\ Length(ShardCoin(i).lock) \in Nat
        BY <1>3, ShardCoinIs
  <1>8. FoldFits(fold) /\ fold.stateIn = pool.shards[i].commitment
        BY <1>6, <1>7 DEF FoldFits
  <1>9. /\ Wallet(coins) /\ Payouts(code, pool.category, change) /\ Len(change) \in 0 .. 1
        /\ Total(coins) \in Nat /\ Total(change) \in Nat
        /\ Total(change) <= Total(coins) - (IF coins = <<>> THEN 0 ELSE Fee)
        BY <1>2, ChangeIs
  <1>10. value \in Nat /\ value + Payment + (IF coins = <<>> THEN Fee ELSE 0) = ShardCoin(i).value
         /\ Payment <= ShardCoin(i).value /\ value <= ShardCoin(i).value
    <2>1. DustThreshold(ShardCoin(i).lock) \in Nat
          BY <1>7, DustThresholdIs
    <2> PICK v \in Nat : v = ShardCoin(i).value
        BY <1>7
    <2> PICK t \in Nat : t = DustThreshold(ShardCoin(i).lock)
        BY <2>1
    <2> PICK f \in Nat : f = IF coins = <<>> THEN Fee ELSE 0
        BY <1>4
    <2>2. value = v - Payment - f /\ value >= t
          BY <1>2
    <2>3. value \in Nat /\ value + Payment + f = v /\ Payment <= v /\ value <= v
      <3> PICK p \in Nat : p = Payment
          BY <1>4
      <3>1. Leaves(v, p, f, t, value)
            BY <2>2 DEF Leaves
      <3>2. WhatIsLeft(v, p, f, value)
            BY <3>1, LeavesIs, Zenon
      <3> QED BY <3>2 DEF WhatIsLeft
    <2> QED BY <2>3
  <1>12. Payment \in Number
    <2>1. Payment <= Worth(Len(chain))
          BY <1>4, <1>7, <1>10
    <2> QED BY <1>4, <2>1, NumberBelow
  <1>13. PoolOutput(code, pool.category, pay)
    <2>1. Paid(bytes)
          BY <1>2 DEF Paid
    <2> QED BY <1>5, <1>12, <2>1, PaysIs
  <1>14. Payouts(code, pool.category, payouts) /\ Total(payouts) = Payment + Total(change)
    <2> PICK category : category = pool.category
        OBVIOUS
    <2>0. PoolOutput(code, category, pay) /\ Payouts(code, category, change) /\ Len(change) \in 0 .. 1
          BY <1>9, <1>13
    <2>1. Payouts(code, category, payouts) /\ Total(payouts) = pay.value + Total(change)
          BY <2>0, OnePayoutMore, SMTT(30)
    <2>2. pay.value = Payment
          OBVIOUS
    <2> QED BY <2>1, <2>2
  <1>15. value <= Worth(Len(chain) + 1)
         BY <1>4, <1>7, <1>10
  <1>16. value + Total(payouts) <= ShardCoin(i).value + Total(coins)
    <2> PICK v \in Nat : v = ShardCoin(i).value
        BY <1>7
    <2> PICK x \in Nat : x = Total(coins)
        BY <1>9
    <2> PICK y \in Nat : y = Total(change)
        BY <1>9
    <2> PICK f \in Nat : f = IF coins = <<>> THEN Fee ELSE 0
        BY <1>4
    <2> PICK g \in Nat : g = IF coins = <<>> THEN 0 ELSE Fee
        BY <1>4
    <2>1. value + Payment + f = v /\ y <= x - g
          BY <1>9, <1>10
    <2>2. value + (Payment + y) <= v + x
          BY <1>4, <1>10, <2>1, WhatIsPaid
    <2> QED BY <1>14, <2>2
  <1> QED BY <1>2, <1>3, <1>6, <1>8, <1>9, <1>10, <1>14, <1>15, <1>16, SpendSeals DEF Built

(* The amounts of initShardsTx fit their fields *)
LEMMA FundingFits ==
  /\ NShards \in Nat /\ NShards \in Number /\ NShards + 1 \in Number /\ ShardValue \in Nat /\ ShardValue \in Number
  /\ Fee \in Nat /\ NShards * ShardValue \in Nat /\ NShards * ShardValue + Fee + DUST \in Number
  /\ \A n \in Nat : n < MaxTx => ShardValue <= Worth(n + 1)
  <1>1. NShards \in Nat /\ NShards + 1 \in Number
        BY ByteAssumption, Zenon
  <1>2. ShardValue \in Nat /\ Fee \in Nat /\ DepositValue \in Nat /\ MaxTx \in Nat \ {0}
        BY AmountAssumption, Zenon
  <1>3. NShards * ShardValue + Fee + DUST \in Number
        BY AmountAssumption, Zenon
  <1>4. ASSUME NEW n \in Nat, n < MaxTx PROVE ShardValue <= Worth(n + 1) /\ Worth(n + 1) \in Number
    <2>1. /\ Worth(n + 1) = Worth(n) + DepositValue /\ ShardValue <= Worth(n) /\ Worth(n) \in Nat
          /\ Worth(n + 1) \in Number
          BY <1>4, WorthGrows
    <2> QED BY <1>2, <2>1
  <1>5. 0 \in Nat /\ 0 < MaxTx
        BY <1>2
  <1>6. ShardValue <= Worth(0 + 1) /\ Worth(0 + 1) \in Number
        BY <1>4, <1>5
  <1>7. ShardValue \in Number
        BY <1>2, <1>6, NumberBelow
  <1>8. NShards \in Number
        BY <1>1, NumberBelow
  <1>9. NShards * ShardValue \in Nat
        BY <1>1, <1>2
  <1> QED BY <1>1, <1>2, <1>3, <1>4, <1>7, <1>8, <1>9

(* initShardsTx leaves a sealed transaction *)
LEMMA InitSeals ==
  ASSUME CodeFits(code), chain = <<>>, InitShards
  PROVE  Built
  <1>1. PICK witness \in Witness :
          LET funding == Coin("owner", NShards * ShardValue + Fee + DUST)
              category == CategoryFromFundingTxid32(funding.txid)
              commitment == [i \in Shard |-> InitialShardCommitment32(category, i)]
              change == funding.value - NShards * ShardValue - Fee
          IN /\ change >= DUST
             /\ Submit(<<funding>>, witness, <<>>,
                       <<[value |-> change, lock |-> funding.lock]>>
                         \o [k \in 1 .. NShards |->
                               [value |-> ShardValue, lock |-> ShardLock(category, commitment[k - 1])]],
                       NoFold,
                       [category |-> category,
                        shards |-> [i \in Shard |-> [txid |-> Len(chain) + 1, vout |-> i + 1,
                                                     commitment |-> commitment[i]]]])
        BY Zenon DEF InitShards
  <1> PICK funding : funding = Coin("owner", NShards * ShardValue + Fee + DUST)
      OBVIOUS
  <1> PICK category : category = CategoryFromFundingTxid32(funding.txid)
      OBVIOUS
  <1> PICK commitment : commitment = [i \in Shard |-> InitialShardCommitment32(category, i)]
      OBVIOUS
  <1> PICK change : change = funding.value - NShards * ShardValue - Fee
      OBVIOUS
  <1> PICK out : out = [value |-> change, lock |-> funding.lock]
      OBVIOUS
  <1> PICK payouts : payouts = [k \in 1 .. NShards |-> [value |-> ShardValue, lock |-> ShardLock(category, commitment[k - 1])]]
      OBVIOUS
  <1> PICK outputs : outputs = <<out>> \o payouts
      OBVIOUS
  <1> PICK shards : shards = [i \in Shard |-> [txid |-> Len(chain) + 1, vout |-> i + 1, commitment |-> commitment[i]]]
      OBVIOUS
  <1> PICK next : next = [category |-> category, shards |-> shards]
      OBVIOUS
  <1>2. change >= DUST /\ Submit(<<funding>>, witness, <<>>, outputs, NoFold, next)
        BY <1>1, Zenon
  <1>3. Len(chain) = 0 /\ List(chain) /\ Len(chain) < MaxTx
        BY ShortLists, AmountAssumption
  <1>4. /\ NShards \in Nat /\ NShards \in Number /\ NShards + 1 \in Number /\ ShardValue \in Nat /\ ShardValue \in Number
        /\ Fee \in Nat /\ NShards * ShardValue \in Nat /\ NShards * ShardValue + Fee + DUST \in Number
        BY FundingFits, Zenon
  <1> PICK total : total = NShards * ShardValue + Fee + DUST
      OBVIOUS
  <1>5. /\ WalletCoin(funding) /\ funding.value = total /\ funding.vout = 0
        /\ TxidString(funding.txid) /\ funding.lock = P2PKH(Hash160(PublicKey("owner")))
        BY <1>4, CoinIs
  <1>6. CategoryString(category) /\ category = ReverseBytes(funding.txid)
        BY <1>5 DEF CategoryFromFundingTxid32, CategoryString
  <1>7. \A i \in Shard : HashString(commitment[i]) /\ Word(commitment[i])
    <2> TAKE i \in Shard
    <2>1. commitment[i] = InitialShardCommitment32(category, i)
          OBVIOUS
    <2>2. HashString(commitment[i])
          BY <2>1, HashesAreHashes DEF InitialShardCommitment32
    <2> QED BY <2>2, HashIsWord
  <1>8. change \in Nat /\ change <= total /\ change + NShards * ShardValue + Fee = total
    <2> PICK s \in Nat : s = NShards * ShardValue
        BY <1>4
    <2>1. total \in Nat
          BY <1>4, NumberIsNat
    <2> PICK t \in Nat : t = total
        BY <2>1
    <2> PICK f \in Nat : f = Fee
        BY <1>4
    <2>2. change = t - s - f /\ change >= 0
          BY <1>2, <1>5, DustIs
    <2>3. change \in Nat /\ change + s + f = t /\ s <= t /\ change <= t
      <3>1. Leaves(t, s, f, 0, change) /\ 0 \in Nat
            BY <2>2 DEF Leaves
      <3>2. WhatIsLeft(t, s, f, change)
            BY <3>1, LeavesIs, Zenon
      <3> QED BY <3>2 DEF WhatIsLeft
    <2> QED BY <2>3
  <1>9. PoolOutput(code, category, out) /\ out.value = change
    <2>1. change \in Number
          BY <1>4, <1>8, NumberBelow
    <2> PICK hash : hash = Hash160(PublicKey("owner"))
        OBVIOUS
    <2>2. ByteString(hash) /\ Length(hash) = 20
          BY KeyStrings
    <2>3. PoolOutput(code, category, [value |-> change, lock |-> P2PKH(hash)])
      <3>1. Paid(hash)
            BY DEF Paid
      <3> QED BY <2>1, <2>2, <3>1, PaysIs
    <2> QED BY <1>5, <2>3
  <1>10. /\ List(payouts) /\ Len(payouts) = NShards
         /\ \A k \in 1 .. NShards :
              /\ k - 1 \in Shard
              /\ payouts[k] = [value |-> ShardValue, lock |-> LockOf(code, category, commitment[k - 1])]
    <2>1. \A k \in 1 .. NShards : k - 1 \in Shard
          BY <1>4 DEF Shard
    <2>2. \A k \in 1 .. NShards : payouts[k] = [value |-> ShardValue, lock |-> ShardLock(category, commitment[k - 1])]
          OBVIOUS
    <2>3. Len(payouts) = NShards /\ payouts = [k \in 1 .. NShards |-> payouts[k]]
          BY <1>4
    <2> QED BY <1>4, <2>1, <2>2, <2>3, ShardLockOf DEF List
  <1>11. Payouts(code, category, payouts)
    <2>1. \A k \in 1 .. NShards : PoolOutput(code, category, payouts[k])
      <3> TAKE k \in 1 .. NShards
      <3> PICK word : word = commitment[k - 1]
          OBVIOUS
      <3>1. Word(word) /\ payouts[k] = [value |-> ShardValue, lock |-> LockOf(code, category, word)]
            BY <1>7, <1>10
      <3>2. PoolOutput(code, category, [value |-> ShardValue, lock |-> LockOf(code, category, word)])
            BY <1>4, <3>1, ShardIs
      <3> QED BY <3>1, <3>2
    <2> QED BY <1>4, <1>10, <2>1 DEF Payouts
  <1>12. Total(payouts) = NShards * ShardValue
    <2>1. \A k \in 1 .. NShards : payouts[k].value = ShardValue
          BY <1>10
    <2> QED BY <1>4, <1>10, <2>1, EqualTotals
  <1>13. OutputsAre(code, category, out, payouts, outputs)
         BY <1>9, <1>11, OutputsJoin, Zenon
  <1>14. /\ OutputsOfPool(code, category, outputs) /\ Len(outputs) = NShards + 1
         /\ \A k \in 1 .. NShards : outputs[k + 1] = payouts[k]
         /\ Total(outputs) = change + NShards * ShardValue
         BY <1>9, <1>10, <1>12, <1>13 DEF OutputsAre
  <1>15. next.category = category /\ next.shards = shards
         /\ next = [category |-> next.category, shards |-> [i \in Shard |-> next.shards[i]]]
         OBVIOUS
  <1>16. NextFits(code, chain, next, outputs)
    <2>1. ASSUME NEW i \in Shard PROVE PointsInto(code, Len(chain), category, shards[i], outputs)
      <3>1. i \in Nat /\ i + 1 \in 1 .. NShards /\ i + 1 - 1 = i
            BY <1>4 DEF Shard
      <3> PICK k \in 1 .. NShards : k = i + 1
          BY <3>1
      <3>2. shards[i] = [txid |-> Len(chain) + 1, vout |-> k, commitment |-> commitment[i]]
            OBVIOUS
      <3>3. shards[i].txid = Len(chain) + 1 /\ shards[i].vout = k /\ shards[i].commitment = commitment[i]
            BY <3>2
      <3>4. k \in Number /\ k + 1 \in 1 .. Len(outputs) /\ k - 1 = i
        <4>1. k \in Nat /\ k <= NShards
              BY <1>4
        <4>2. k \in Number
              BY <1>4, <4>1, NumberBelow
        <4> QED BY <1>4, <1>14, <3>1, <4>1, <4>2
      <3>5. outputs[k + 1] = [value |-> ShardValue, lock |-> LockOf(code, category, commitment[i])]
            BY <1>10, <1>14, <3>4, ZenonT(30)
      <3>6. ShardValue <= Worth(Len(chain) + 1)
            BY <1>3, FundingFits
      <3> QED BY <1>4, <1>7, <3>3, <3>4, <3>5, <3>6 DEF PointsInto
    <2> QED BY <1>6, <1>15, <2>1 DEF NextFits
  <1> PICK spent : spent = <<funding>> \o witness
      OBVIOUS
  <1>17. CoinsAre(funding, <<>>, witness, spent)
    <2>1. Wallet(witness) /\ List(<<funding>>)
          BY WitnessIs, ShortLists
    <2> PICK one : one = <<funding>>
        OBVIOUS
    <2>2. one \o <<>> = one
      <3>1. one \in Seq({one[i] : i \in 1 .. Len(one)})
            BY <2>1, ListIsSeq
      <3> QED BY <3>1
    <2>3. spent = (<<funding>> \o <<>>) \o witness
          BY <2>2
    <2> QED BY <1>5, <2>1, <2>3, NoCoin, CoinsJoin, Zenon DEF WalletCoin
  <1>18. Orderly(code, pool, spent, <<>>, outputs, NoFold, next)
    <2>1. /\ CoinsFit(spent) /\ Len(spent) >= 1 /\ spent[1] = funding
          /\ \A i \in 1 .. Len(spent) : KeyLocked(spent[i])
          /\ \A i \in 1 .. Len(spent) : i # 1 => spent[i].key # "covenant"
          BY <1>17 DEF CoinsAre
    <2>2. Founding(pool, spent, <<>>, NoFold, next)
          BY <1>5, <1>6, <1>15, <2>1 DEF Founding, InitShards, WalletCoin
    <2>3. Total(outputs) <= Total(spent)
      <3>1. Total(spent) = total + 0 + Total(witness) /\ Total(witness) \in Nat /\ total \in Nat
            BY <1>5, <1>17, ShortTotals DEF CoinsAre
      <3> PICK s \in Nat : s = NShards * ShardValue
          BY <1>4
      <3> PICK w \in Nat : w = Total(witness)
          BY <3>1
      <3>2. change + s <= change + s + Fee
            BY <1>4, <1>8, SMTT(30)
      <3>3. change + s + Fee = total
            BY <1>8
      <3> QED BY <1>8, <1>14, <3>1, <3>2, <3>3, SMTT(30)
    <2> QED BY <1>6, <1>14, <1>15, <2>1, <2>2, <2>3 DEF Orderly
  <1> QED
    <2>1. Orderly(code, pool, <<funding>> \o witness, <<>>, outputs, NoFold, next)
          BY <1>18
    <2> QED BY <1>2, <1>3, <1>16, <2>1, SubmitSeals DEF Built
=============================================================================
