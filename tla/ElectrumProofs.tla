--------------------------- MODULE ElectrumProofs ---------------------------
(***************************************************************************)
(* The calls to the nodes keep their promises for any number of nodes,     *)
(* rounds, faults and transactions, and whatever fees the nodes ask.       *)
(*                                                                         *)
(* None of the four properties is inductive: each speaks of calls that     *)
(* have ended, or of the state between calls.  EInv says what a call in    *)
(* progress has learned: which of its questions are left, that a           *)
(* transaction has been sent only if the question is asked, that the       *)
(* scan of a history still holds the spend it has not met, and that the    *)
(* rate it has and the rate kept bound the fee asked.                      *)
(***************************************************************************)
EXTENDS ElectrumCalls, FiniteSetTheorems, TLAPS

Entry == {"fund", "other", "spend"}
Question == {"send", "tx", "relay", "estimate", "list", "history"} \cup Entry
Result == {"none", "ok", "failed", "yes", "no"}
Field == {"op", "todo", "try", "round", "seen", "rate", "sure", "was", "due", "res"}
IsCall(c) ==
  /\ DOMAIN c = Field
  /\ c.todo \in Seq(Question) /\ c.try \in Nat /\ c.round \in Nat /\ c.rate \in Nat /\ c.due \in Nat
  /\ c.sure \in BOOLEAN /\ c.was \in BOOLEAN /\ c.res \in Result

(* the questions a call may have left *)
Left ==
  [broadcast |-> {<<"send">>, <<>>},
   prevout |-> {<<"tx", "tx">>, <<"tx">>, <<>>},
   fee |-> {<<"relay", "estimate">>, <<"estimate">>, <<>>},
   listed |-> {<<"list">>, <<>>},
   history |-> {<<"tx", "history">>, <<"history">>} \cup Seq(Entry)]

Typed ==
  /\ pc \in {"idle", "dial", "ask", "pending"}
  /\ IsCall(call) /\ IsCall(last) /\ chain \in Seq(Entry)
  /\ cache \in [rate : Nat, age : Nat, sure : BOOLEAN]
  /\ relay \in Nat /\ relay >= Floor /\ since \in Nat
  /\ sent \in Nat /\ taken \in BOOLEAN

(* the socket of the call, and no other *)
Sockets == open = IF pc = "idle" THEN {} ELSE {at}

(* a call in progress has some of its own questions left *)
Asking ==
  pc # "idle" =>
    /\ call.op \in DOMAIN Questions /\ call.todo \in Left[call.op]
    /\ pc = "dial" => call.todo = Questions[call.op]
    /\ pc = "pending" => call.todo # <<>>

(* a transaction is sent by the one question of the call, never by its retries *)
Sending ==
  /\ pc = "idle" => sent <= 1 /\ (last.op = "broadcast" /\ last.res = "ok" => taken)
  /\ pc # "idle" /\ call.op # "broadcast" => sent = 0
  /\ pc # "idle" /\ call.op = "broadcast" =>
       IF call.todo = <<>> THEN sent <= 1 /\ (call.res = "ok" => taken)
       ELSE sent = IF pc = "pending" THEN 1 ELSE 0

(* a scan of the history of a spent outpoint has still to meet its spend *)
Meets(todo) == \E i \in DOMAIN todo : todo[i] = "spend"
Looking ==
  /\ UnspentTrue
  /\ pc # "idle" =>
       /\ call.was => Spent
       /\ call.op \notin {"listed", "history"} => call.res # "yes"
       /\ call.op = "listed" /\ call.res = "yes" => ~call.was
       /\ call.op = "history" /\ call.was /\ call.sure =>
            IF call.todo = <<>> THEN call.res # "yes"
            ELSE call.todo \in Seq(Entry) => Meets(call.todo)

(* the rate a call has, and the one kept, bound what the nodes ask *)
Rating ==
  /\ FeeEnough
  /\ cache.rate > 0 => /\ cache.rate >= Floor
                       /\ cache.sure /\ cache.age < since => cache.rate >= relay
  /\ pc # "idle" /\ call.op = "fee" =>
       /\ call.due <= relay
       /\ call.sure /\ call.todo = <<"estimate">> => call.rate = relay
       /\ call.sure /\ call.todo = <<>> => call.rate >= relay

EInv == Typed /\ Sockets /\ Asking /\ Sending /\ Looking /\ Rating

-----------------------------------------------------------------------------
(* What the parts of a step do to a call                                   *)

(* the constants a call is measured with are numbers *)
LEMMA Numbers == Floor \in Nat /\ Floor >= 1 /\ Ttl \in Nat /\ Ttl >= 1 /\ Retries \in Nat /\ Retries >= 1
  BY ElectrumAssumption

(* an ended call differs in what is left and in its result *)
LEMMA EndedIs ==
  ASSUME NEW c, IsCall(c), NEW r \in Result
  PROVE  /\ IsCall(Ended(c, r)) /\ Ended(c, r).todo = <<>> /\ Ended(c, r).res = r
         /\ Ended(c, r).op = c.op /\ Ended(c, r).was = c.was /\ Ended(c, r).sure = c.sure
         /\ Ended(c, r).rate = c.rate /\ Ended(c, r).due = c.due
  BY DEF Ended, IsCall, Field

(* a call that asks on differs in what is left *)
LEMMA AsksIs ==
  ASSUME NEW c, IsCall(c), NEW t \in Seq(Question)
  PROVE  /\ IsCall(Asks(c, t)) /\ Asks(c, t).todo = t /\ Asks(c, t).res = c.res
         /\ Asks(c, t).op = c.op /\ Asks(c, t).was = c.was /\ Asks(c, t).sure = c.sure
         /\ Asks(c, t).rate = c.rate /\ Asks(c, t).due = c.due
  BY DEF Asks, IsCall, Field

(* the call that is none *)
LEMMA NoCallIs ==
  /\ IsCall(NoCall) /\ NoCall.op = "none" /\ NoCall.res = "none" /\ NoCall.todo = <<>>
  /\ NoCall.was = FALSE /\ NoCall.sure = TRUE
  BY DEF NoCall, IsCall, Field, Result

(* the questions, one by one *)
LEMMA QuestionsAre ==
  /\ DOMAIN Questions = {"broadcast", "prevout", "fee", "listed", "history"}
  /\ Questions["broadcast"] = <<"send">> /\ Questions["prevout"] = <<"tx", "tx">>
  /\ Questions["fee"] = <<"relay", "estimate">> /\ Questions["listed"] = <<"list">>
  /\ Questions["history"] = <<"tx", "history">>
  BY DEF Questions
(* what may be left, one by one *)
LEMMA LeftIs ==
  /\ Left["broadcast"] = {<<"send">>, <<>>} /\ Left["prevout"] = {<<"tx", "tx">>, <<"tx">>, <<>>}
  /\ Left["fee"] = {<<"relay", "estimate">>, <<"estimate">>, <<>>} /\ Left["listed"] = {<<"list">>, <<>>}
  /\ Left["history"] = {<<"tx", "history">>, <<"history">>} \cup Seq(Entry)
  BY DEF Left
(* a call begins with its questions *)
LEMMA QuestionsAreLeft ==
  ASSUME NEW op \in DOMAIN Questions
  PROVE  Questions[op] \in Seq(Question) /\ Questions[op] # <<>> /\ Questions[op] \in Left[op]
  <1>1. /\ <<"send">> \in Seq(Question) /\ <<"tx", "tx">> \in Seq(Question) /\ <<"relay", "estimate">> \in Seq(Question)
        /\ <<"list">> \in Seq(Question) /\ <<"tx", "history">> \in Seq(Question)
        BY DEF Question
  <1>2. /\ <<"send">> # <<>> /\ <<"tx", "tx">> # <<>> /\ <<"relay", "estimate">> # <<>>
        /\ <<"list">> # <<>> /\ <<"tx", "history">> # <<>>
        OBVIOUS
  <1> QED
        BY <1>1, <1>2, QuestionsAre, LeftIs

(* The end of a call, or its repetition: only an outpoint is asked again   *)
LEMMA ReturnsIs ==
  ASSUME NEW c, IsCall(c), NEW r \in Result, NEW S, Returns(c, r, S)
  PROVE  \/ /\ pc' = "idle" /\ last' = Ended(c, r) /\ call' = NoCall
            /\ open' = S /\ at' = at
         \/ /\ c.op = "listed" /\ pc' = "dial" /\ at' = First /\ open' = S \cup {First} /\ last' = last
            /\ IsCall(call') /\ call'.op = "listed" /\ call'.todo = Questions["listed"]
            /\ call'.was = c.was /\ (call'.res = "yes" => r = "yes")
  <1>1. CASE c.op # "listed"
        BY <1>1 DEF Returns
  <1>2. CASE c.op = "listed"
    <2> DEFINE further == [c EXCEPT !.try = @ + 1, !.res = "none"]
               again == [c EXCEPT !.round = @ + 1, !.try = 1, !.res = "none"]
    <2>1. /\ IsCall(further) /\ further.op = c.op /\ further.was = c.was /\ further.res = "none"
          /\ IsCall(again) /\ again.op = c.op /\ again.was = c.was /\ again.res = "none"
          BY DEF IsCall, Field, Result
    <2>2. PICK more : /\ more \in {further, again, c}
                      /\ IF more = c THEN /\ pc' = "idle" /\ last' = Ended(c, r) /\ call' = NoCall
                                          /\ open' = S /\ UNCHANGED at
                         ELSE /\ pc' = "dial" /\ at' = First /\ open' = S \cup {First}
                              /\ call' = Asks(more, Questions["listed"]) /\ UNCHANGED last
          BY <1>2 DEF Returns, ListEnds
    <2>3. "listed" \in DOMAIN Questions
          BY DEF Questions
    <2> HIDE DEF further, again
    <2> QED
          BY <1>2, <2>1, <2>2, <2>3, QuestionsAreLeft, AsksIs
  <1> QED
        BY <1>1, <1>2

(* What an answer makes of a call, operation by operation *)
LEMMA HeardBroadcast ==
  ASSUME IsCall(call), call.op = "broadcast", call.todo = <<"send">>, NEW good \in BOOLEAN
  PROVE  /\ Head(call.todo) = "send"
         /\ Heard("send", good) = Ended(Asks(call, <<>>), IF good THEN "ok" ELSE "failed")
  BY DEF Heard

LEMMA HeardPrevout ==
  ASSUME IsCall(call), call.op = "prevout", call.todo \in {<<"tx", "tx">>, <<"tx">>}, NEW good \in BOOLEAN
  PROVE  /\ Head(call.todo) = "tx"
         /\ \/ \E r \in {"ok", "failed"} : \E t \in {<<"tx">>, <<>>} : Heard("tx", good) = Ended(Asks(call, t), r)
            \/ Heard("tx", good) = Asks(call, <<"tx">>)
  <1>0. <<>> \in Seq(Question) /\ <<"tx">> \in Seq(Question)
        BY DEF Question
  <1>1. CASE call.todo = <<"tx", "tx">>
    <2>1. Head(call.todo) = "tx" /\ Tail(call.todo) = <<"tx">> /\ <<"tx">> # <<>>
          BY <1>1
    <2>2. Asks(call, <<"tx">>).op = "prevout"
          BY <1>0, AsksIs
    <2>3. Heard("tx", good) = IF good THEN Ended(Asks(call, <<"tx">>), "ok") ELSE Asks(call, <<"tx">>)
          BY <2>1, <2>2 DEF Heard
    <2> QED
          BY <2>1, <2>3
  <1>2. CASE call.todo = <<"tx">>
    <2>1. Head(call.todo) = "tx" /\ Tail(call.todo) = <<>>
          BY <1>2
    <2>2. Asks(call, <<>>).op = "prevout"
          BY <1>0, AsksIs
    <2>3. Heard("tx", good) = Ended(Asks(call, <<>>), IF good THEN "ok" ELSE "failed")
          BY <2>1, <2>2 DEF Heard
    <2> QED
          BY <2>1, <2>3
  <1> QED
        BY <1>1, <1>2

LEMMA HeardListed ==
  ASSUME IsCall(call), call.op = "listed", call.todo = <<"list">>, NEW good \in BOOLEAN
  PROVE  /\ Head(call.todo) = "list"
         /\ \E r \in {"yes", "no", "failed"} :
              Heard("list", good) = Ended(Asks(call, <<>>), r) /\ (r = "yes" => ~Spent)
  BY DEF Heard

LEMMA HeardRelay ==
  ASSUME IsCall(call), relay \in Nat, call.op = "fee", call.todo = <<"relay", "estimate">>, NEW good \in BOOLEAN
  PROVE  LET c == Heard("relay", good)
         IN  /\ Head(call.todo) = "relay"
             /\ IsCall(c) /\ c.op = "fee" /\ c.todo = <<"estimate">> /\ c.due = call.due /\ c.was = call.was
             /\ c.res = call.res /\ (c.sure => c.rate = relay)
  <1> DEFINE d == Asks(call, <<"estimate">>)
  <1>1. <<"estimate">> \in Seq(Question)
        BY DEF Question
  <1>2. Head(call.todo) = "relay" /\ Tail(call.todo) = <<"estimate">>
        OBVIOUS
  <1>3. Heard("relay", good) = [d EXCEPT !.rate = IF good THEN relay ELSE 1, !.sure = good]
        BY <1>2 DEF Heard
  <1>4. /\ IsCall(d) /\ d.op = "fee" /\ d.todo = <<"estimate">> /\ d.due = call.due /\ d.was = call.was
        /\ d.res = call.res
        BY <1>1, AsksIs
  <1> HIDE DEF d
  <1>5. CASE good = TRUE
        BY <1>2, <1>3, <1>4, <1>5 DEF IsCall, Field
  <1>6. CASE good = FALSE
    <2> DEFINE e == [d EXCEPT !.rate = 1, !.sure = FALSE]
    <2>1. /\ IsCall(e) /\ e.op = "fee" /\ e.todo = <<"estimate">> /\ e.due = call.due /\ e.was = call.was
          /\ e.res = call.res /\ e.sure = FALSE
          BY <1>4 DEF IsCall, Field
    <2>2. Heard("relay", good) = e
          BY <1>3, <1>6
    <2> HIDE DEF e
    <2> QED
          BY <1>2, <2>1, <2>2
  <1> QED
        BY <1>5, <1>6

(* the rate chosen is one of the three it is chosen from, and the greatest *)
LEMMA ChosenIs ==
  ASSUME NEW r \in Nat
  PROVE  Chosen(r) \in Nat /\ Chosen(r) >= r /\ Chosen(r) >= Floor
  <1>1. \E x \in {r, 1, Floor} : \A y \in {r, 1, Floor} : x >= y
        BY Numbers
  <1> QED
        BY <1>1, Numbers DEF Chosen, Max

LEMMA HeardEstimate ==
  ASSUME IsCall(call), call.op = "fee", call.todo = <<"estimate">>, NEW good \in BOOLEAN
  PROVE  LET c == Heard("estimate", good)
         IN  /\ Head(call.todo) = "estimate"
             /\ IsCall(c) /\ c.op = "fee" /\ c.todo = <<>> /\ c.due = call.due /\ c.was = call.was
             /\ c.res = "ok" /\ c.sure = call.sure /\ c.rate >= call.rate /\ c.rate >= Floor
  <1> DEFINE d == Asks(call, <<>>)
             e == [d EXCEPT !.rate = Chosen(@)]
  <1>1. <<>> \in Seq(Question)
        OBVIOUS
  <1>2. Head(call.todo) = "estimate" /\ Tail(call.todo) = <<>>
        OBVIOUS
  <1>3. Heard("estimate", good) = Ended(e, "ok")
        BY <1>2 DEF Heard
  <1>4. /\ IsCall(d) /\ d.op = "fee" /\ d.due = call.due /\ d.was = call.was /\ d.sure = call.sure
        /\ d.rate = call.rate /\ d.rate \in Nat
        BY <1>1, AsksIs DEF IsCall
  <1> HIDE DEF d
  <1>5. /\ IsCall(e) /\ e.op = "fee" /\ e.due = call.due /\ e.was = call.was /\ e.sure = call.sure
        /\ e.rate = Chosen(call.rate)
        BY <1>4, ChosenIs DEF IsCall, Field
  <1>6. e.rate >= call.rate /\ e.rate >= Floor
        BY <1>4, <1>5, ChosenIs
  <1> HIDE DEF e
  <1> QED
        BY <1>2, <1>3, <1>5, <1>6, EndedIs DEF Result

(* the answers to the questions of a history: the history, then its transactions *)
LEMMA HeardHistory ==
  ASSUME IsCall(call), chain \in Seq(Entry), call.op = "history", call.todo \in Left["history"],
         call.todo # <<>>, NEW good \in BOOLEAN, call.was => Spent,
         call.was /\ call.sure /\ call.todo \in Seq(Entry) => Meets(call.todo)
  PROVE  LET q == Head(call.todo)   c == Heard(q, good)
         IN  /\ q \notin {"send", "estimate"}
             /\ IsCall(c) /\ c.op = "history" /\ c.due = call.due /\ c.was = call.was
             /\ c.todo \in Left["history"]
             /\ c.was /\ c.sure => IF c.todo = <<>> THEN c.res # "yes"
                                   ELSE c.todo \in Seq(Entry) => Meets(c.todo)
  <1> DEFINE q == Head(call.todo)
             rest == Tail(call.todo)
             c == Asks(call, rest)
             none == Ended(c, "no")
             Goes(h) == /\ IsCall(h) /\ h.op = "history" /\ h.due = call.due /\ h.was = call.was
                        /\ h.todo \in Left["history"]
                        /\ h.was /\ h.sure => IF h.todo = <<>> THEN h.res # "yes"
                                              ELSE h.todo \in Seq(Entry) => Meets(h.todo)
  <1>0. ASSUME IsCall(c)
        PROVE  IsCall(none) /\ none.op = c.op /\ none.due = c.due /\ none.was = c.was /\ none.todo = <<>>
               /\ none.res = "no"
        BY <1>0, EndedIs DEF Result
  <1>1. <<>> \in Seq(Entry) /\ <<"history">> \in Seq(Question) /\ <<"history">> \notin Seq(Entry)
        BY DEF Question, Entry
  <1>2. \A s \in Seq(Entry) : s \in Seq(Question)
        BY DEF Question
  <1>3. CASE call.todo = <<"tx", "history">>
    <2>1. q = "tx" /\ rest = <<"history">>
          BY <1>3
    <2>2. Heard(q, good) = IF good THEN c ELSE none
          BY <2>1, <1>1, AsksIs DEF Heard
    <2> QED
      <3>1. /\ IsCall(c) /\ c.op = "history" /\ c.due = call.due /\ c.was = call.was
            /\ c.todo = <<"history">>
            BY <1>1, <2>1, AsksIs
      <3>2. Goes(c)
            BY <1>1, <3>1, LeftIs
      <3>3. Goes(none)
            BY <1>0, <1>1, <3>1, LeftIs
      <3> QED
            BY <2>1, <2>2, <3>2, <3>3
  <1>4. CASE call.todo = <<"history">>
    <2> DEFINE d == [c EXCEPT !.seen = chain]
    <2>1. q = "history" /\ rest = <<>>
          BY <1>4
    <2>2. Heard(q, good) = IF good THEN Asks(d, Scan(chain)) ELSE none
          BY <2>1, AsksIs DEF Heard
    <2>3. Scan(chain) \in Seq(Entry)
          BY DEF Scan
    <2>4. Spent => Meets(Scan(chain)) /\ Scan(chain) # <<>>
      <3>1. SUFFICES ASSUME NEW i \in DOMAIN chain, chain[i] = "spend"
                     PROVE  Meets(Scan(chain)) /\ Scan(chain) # <<>>
            BY DEF Spent
      <3>2. Len(chain) + 1 - i \in DOMAIN Scan(chain) /\ Scan(chain)[Len(chain) + 1 - i] = "spend"
            BY <3>1 DEF Scan
      <3> QED
            BY <3>2 DEF Meets
    <2>5. IsCall(c) /\ c.op = "history" /\ c.due = call.due /\ c.was = call.was
          BY <1>1, <1>2, <2>1, AsksIs
    <2>6. Goes(none)
          BY <1>0, <1>1, <2>5, LeftIs
    <2> HIDE DEF c
    <2>7. IsCall(d) /\ d.op = "history" /\ d.due = call.due /\ d.was = call.was
          BY <2>5 DEF IsCall, Field
    <2> HIDE DEF d
    <2>8. /\ IsCall(Asks(d, Scan(chain))) /\ Asks(d, Scan(chain)).op = "history"
          /\ Asks(d, Scan(chain)).due = call.due /\ Asks(d, Scan(chain)).was = call.was
          /\ Asks(d, Scan(chain)).todo = Scan(chain)
          BY <1>2, <2>3, <2>7, AsksIs
    <2>9. Goes(Asks(d, Scan(chain)))
          BY <2>3, <2>4, <2>8, LeftIs
    <2> QED
          BY <2>1, <2>2, <2>6, <2>9
  <1>5. CASE call.todo \in Seq(Entry)
    <2>1. q \in Entry /\ rest \in Seq(Entry)
          BY <1>5
    <2>2. IsCall(c) /\ c.op = "history" /\ c.due = call.due /\ c.was = call.was /\ c.todo = rest /\ c.sure = call.sure
          BY <1>2, <2>1, AsksIs
    <2> DEFINE d == IF rest = <<>> THEN Ended(c, "yes") ELSE c
    <2>3. Heard(q, good) = IF q = "spend" /\ good THEN none ELSE [d EXCEPT !.sure = @ /\ good]
          BY <2>1 DEF Heard, Entry
    <2>4. /\ IsCall(d) /\ d.op = "history" /\ d.due = call.due /\ d.was = call.was /\ d.todo = rest
          /\ d.sure = call.sure
          BY <2>2, EndedIs DEF Result
    <2>5. Meets(call.todo) /\ q # "spend" => rest # <<>> /\ Meets(rest)
      <3>1. SUFFICES ASSUME NEW i \in DOMAIN call.todo, call.todo[i] = "spend", q # "spend"
                     PROVE  rest # <<>> /\ Meets(rest)
            BY DEF Meets
      <3>2. i # 1 /\ i - 1 \in DOMAIN rest /\ rest[i - 1] = "spend"
            BY <1>5, <3>1
      <3> QED
            BY <3>2 DEF Meets
    <2> DEFINE e == [d EXCEPT !.sure = @ /\ good]
    <2> HIDE DEF c, d
    <2>6. /\ IsCall(e) /\ e.op = "history" /\ e.due = call.due /\ e.was = call.was /\ e.todo = rest
          /\ e.sure = (call.sure /\ good)
          BY <2>4 DEF IsCall, Field
    <2>7. Goes(none)
          BY <1>0, <1>1, <2>2, LeftIs DEF c
    <2>8. ASSUME ~(q = "spend" /\ good) PROVE Goes(e)
      <3>1. ASSUME e.was, e.sure PROVE rest # <<>> /\ Meets(rest)
            BY <1>5, <2>5, <2>6, <2>8, <3>1
      <3> HIDE DEF e
      <3> QED
            BY <2>1, <2>6, <3>1, LeftIs
    <2> HIDE DEF e
    <2> QED
          BY <2>1, <2>3, <2>7, <2>8 DEF e, Entry
  <1> QED
        BY <1>3, <1>4, <1>5, LeftIs

-----------------------------------------------------------------------------
(* The steps, one by one                                                   *)

(* the invariant holds at first *)
LEMMA EInvInit == Init => EInv
  <1> SUFFICES ASSUME Init PROVE EInv
      OBVIOUS
  <1>1. Typed
    <2>1. <<"fund">> \in Seq(Entry) /\ [rate |-> 0, age |-> 0, sure |-> TRUE] \in [rate : Nat, age : Nat, sure : BOOLEAN]
          BY DEF Entry
    <2>2. pc = "idle" /\ IsCall(call) /\ IsCall(last) /\ chain \in Seq(Entry)
          BY <2>1, NoCallIs DEF Init
    <2>3. cache \in [rate : Nat, age : Nat, sure : BOOLEAN]
          BY <2>1 DEF Init
    <2>4. relay = Floor /\ since = Ttl /\ sent = 0
          BY DEF Init
    <2>5. relay \in Nat /\ relay >= Floor /\ since \in Nat /\ sent \in Nat
          BY <2>4, Numbers
    <2>6. taken \in BOOLEAN
          BY Zenon DEF Init
    <2> QED
          BY <2>2, <2>3, <2>5, <2>6 DEF Typed
  <1>2. Sockets /\ Asking /\ Sending /\ Looking
        BY NoCallIs DEF Init, Sockets, Asking, Sending, Looking, UnspentTrue
  <1>3. Rating
        BY NoCallIs DEF Init, Rating, FeeEnough
  <1> QED
      BY <1>1, <1>2, <1>3 DEF EInv

(* what may be left of a history as long as it has not been read *)
LEMMA Unread == <<"tx", "history">> \notin Seq(Entry)
  BY DEF Entry

(* Begin: a call starts, or the fee rate kept answers it at once *)
LEMMA BeginKeeps ==
  ASSUME EInv, NEW op \in DOMAIN Questions, Begin(op)
  PROVE  EInv'
  <1> DEFINE c == [NoCall EXCEPT !.op = op, !.todo = Questions[op], !.was = Spent,
                                 !.due = IF since < Ttl THEN Floor ELSE relay]
             kept == [c EXCEPT !.rate = cache.rate, !.sure = cache.sure]
  <1>0. Spent \in BOOLEAN
        BY DEF Spent
  <1>1. /\ IsCall(c) /\ c.op = op /\ c.todo = Questions[op] /\ c.res = "none"
        /\ c.due = IF since < Ttl THEN Floor ELSE relay
        BY <1>0, NoCallIs, QuestionsAreLeft, Numbers DEF EInv, Typed, IsCall, Field
  <1>2. c.was = Spent
        BY <1>0, NoCallIs DEF IsCall, Field
  <1> HIDE DEF c
  <1>3. pc = "idle" /\ sent' = 0 /\ taken' = FALSE /\ UNCHANGED <<cache, env>>
        BY DEF Begin
  <1>4. CASE op = "fee" /\ Cached
    <2>1. last' = Ended(kept, "ok") /\ UNCHANGED <<pc, call, at, open, link>>
          BY <1>4 DEF Begin, c
    <2>2. /\ IsCall(kept) /\ kept.op = op /\ kept.due = c.due /\ kept.rate = cache.rate /\ kept.sure = cache.sure
          BY <1>1 DEF EInv, Typed, IsCall, Field
    <2> HIDE DEF kept
    <2>3. /\ IsCall(last') /\ last'.op = "fee" /\ last'.res = "ok" /\ last'.due = c.due
          /\ last'.rate = cache.rate /\ last'.sure = cache.sure
          BY <1>4, <2>1, <2>2, EndedIs DEF Result
    <2>4. Typed'
          BY <1>3, <2>1, <2>3 DEF EInv, Typed, env
    <2>5. Sockets' /\ Asking'
          BY <1>3, <2>1 DEF EInv, Sockets, Asking
    <2>6. Sending'
          BY <1>3, <2>1, <2>3 DEF Sending
    <2>7. Looking'
          BY <1>3, <2>1, <2>3 DEF Looking, UnspentTrue
    <2>8. Rating'
          BY <1>1, <1>3, <1>4, <2>1, <2>3, Numbers DEF EInv, Typed, Rating, FeeEnough, Cached, env
    <2> QED
        BY <2>4, <2>5, <2>6, <2>7, <2>8 DEF EInv
  <1>5. CASE ~(op = "fee" /\ Cached)
    <2>1. /\ pc' = "dial" /\ at' = First /\ open' = open \cup {First} /\ call' = c /\ last' = NoCall
          BY <1>5 DEF Begin, Dial, c
    <2>2. Typed'
          BY <1>1, <1>3, <2>1, NoCallIs DEF EInv, Typed, env
    <2>3. Sockets'
          BY <1>3, <2>1 DEF EInv, Sockets
    <2>4. Asking'
          BY <1>1, <2>1, QuestionsAreLeft DEF Asking
    <2>5. Sending'
          BY <1>1, <1>3, <2>1, QuestionsAreLeft DEF Sending
    <2>6. Spent' = Spent
          BY <1>3 DEF env, Spent
    <2>7. Looking'
          BY <1>1, <1>2, <2>1, <2>6, NoCallIs, QuestionsAre, QuestionsAreLeft, Unread DEF Looking, UnspentTrue
    <2>8. Rating'
          BY <1>1, <1>3, <2>1, NoCallIs, QuestionsAre, Numbers DEF EInv, Typed, Rating, FeeEnough, env
    <2> QED
        BY <2>2, <2>3, <2>4, <2>5, <2>7, <2>8 DEF EInv
  <1> QED
      BY <1>4, <1>5

(* A call returns: with what it learned in its result, or to ask again     *)
LEMMA ReturnsKeeps ==
  ASSUME EInv, pc # "idle", NEW c, IsCall(c), NEW r \in Result, Returns(c, r, open \ {at}),
         UNCHANGED <<cache, sent, taken, env>>,
         c.op = call.op, c.was = call.was, c.due = call.due,
         c.op = "broadcast" => sent <= 1 /\ (r = "ok" => taken),
         r = "yes" /\ c.was => c.op = "history" /\ ~c.sure,
         c.op = "fee" /\ c.sure => c.rate >= c.due
  PROVE  EInv'
  <1>1. open \ {at} = {}
        BY DEF EInv, Sockets
  <1>2. Spent' = Spent /\ (call.was => Spent)
        BY DEF env, Spent, EInv, Looking
  <1>3. CASE /\ pc' = "idle" /\ last' = Ended(c, r) /\ call' = NoCall
             /\ open' = open \ {at} /\ at' = at
    <2>1. Typed'
          BY <1>3, EndedIs, NoCallIs DEF EInv, Typed, env
    <2>2. Sockets' /\ Asking'
          BY <1>1, <1>3 DEF Sockets, Asking
    <2>3. sent <= 1 /\ (c.op = "broadcast" /\ r = "ok" => taken)
          BY DEF EInv, Sending
    <2>4. Sending'
          BY <1>3, <2>3, EndedIs DEF Sending
    <2>5. Looking'
          BY <1>3, EndedIs DEF Looking, UnspentTrue
    <2>6. Rating'
          BY <1>3, EndedIs DEF EInv, Rating, FeeEnough, env
    <2> QED
        BY <2>1, <2>2, <2>4, <2>5, <2>6 DEF EInv
  <1>4. CASE /\ c.op = "listed" /\ pc' = "dial" /\ at' = First /\ open' = (open \ {at}) \cup {First} /\ last' = last
             /\ IsCall(call') /\ call'.op = "listed" /\ call'.todo = Questions["listed"]
             /\ call'.was = c.was /\ (call'.res = "yes" => r = "yes")
    <2>1. Typed'
          BY <1>4 DEF EInv, Typed, env
    <2>2. Sockets'
          BY <1>1, <1>4 DEF Sockets
    <2>3. Asking'
          BY <1>4, QuestionsAre, QuestionsAreLeft DEF Asking
    <2>4. Sending'
          BY <1>4 DEF EInv, Sending
    <2>5. Looking'
          BY <1>2, <1>4 DEF EInv, Looking, UnspentTrue
    <2>6. Rating'
          BY <1>4 DEF EInv, Rating, FeeEnough, env
    <2> QED
        BY <2>1, <2>2, <2>3, <2>4, <2>5, <2>6 DEF EInv
  <1> QED
      BY <1>3, <1>4, ReturnsIs

(* Close: the last thing a call that was connected does *)
LEMMA CloseKeeps ==
  ASSUME EInv, Close
  PROVE  EInv'
  <1>1. pc = "ask" /\ call.todo = <<>> /\ Returns(call, call.res, open \ {at}) /\ UNCHANGED <<cache, sent, taken, env>>
        BY DEF Close
  <1>2. IsCall(call) /\ call.res \in Result /\ call.sure \in BOOLEAN /\ call.was \in BOOLEAN /\ call.rate \in Nat
        /\ call.due \in Nat /\ relay \in Nat
        BY DEF EInv, Typed, IsCall
  <1>3. call.op = "broadcast" => sent <= 1 /\ (call.res = "ok" => taken)
        BY <1>1 DEF EInv, Sending
  <1>4. call.res = "yes" /\ call.was => call.op = "history" /\ ~call.sure
        BY <1>1, <1>2 DEF EInv, Looking
  <1>5. call.op = "fee" /\ call.sure => call.rate >= call.due
        BY <1>1, <1>2 DEF EInv, Rating
  <1> QED
      BY <1>1, <1>2, <1>3, <1>4, <1>5, ReturnsKeeps

(* DialFails: the next node, or the call ends without an answer *)
LEMMA DialFailsKeeps ==
  ASSUME EInv, DialFails
  PROVE  EInv'
  <1>1. pc = "dial" /\ UNCHANGED <<cache, sent, taken, env>>
        BY DEF DialFails
  <1>2. CASE NextDial[1] <= Retries
    <2>1. open' = (open \ {at}) \cup {at'} /\ UNCHANGED <<pc, call, last, cache, sent, taken, env>>
          BY <1>1, <1>2 DEF DialFails
    <2>2. Sockets'
          BY <1>1, <2>1 DEF EInv, Sockets
    <2>3. Typed' /\ Asking' /\ Sending' /\ Looking' /\ Rating'
          BY <2>1 DEF EInv, Typed, Asking, Sending, Looking, UnspentTrue, Rating, FeeEnough, env, Spent
    <2> QED
        BY <2>2, <2>3 DEF EInv
  <1>3. CASE ~(NextDial[1] <= Retries)
    <2> DEFINE c == [call EXCEPT !.rate = Floor, !.sure = FALSE]
               r == IF call.op = "fee" THEN "ok" ELSE "failed"
    <2>1. Returns(c, r, open \ {at})
          BY <1>3 DEF DialFails
    <2>2. IsCall(c) /\ c.op = call.op /\ c.was = call.was /\ c.due = call.due /\ c.sure = FALSE
          BY Numbers DEF EInv, Typed, IsCall, Field
    <2>3. r \in Result /\ r # "yes" /\ (call.op # "fee" => r = "failed")
          BY DEF Result
    <2>4. call.op = "broadcast" => sent <= 1
          BY <1>1, QuestionsAreLeft DEF EInv, Asking, Sending
    <2> HIDE DEF c, r
    <2> QED
        BY <1>1, <2>1, <2>2, <2>3, <2>4, ReturnsKeeps
  <1> QED
      BY <1>2, <1>3

(* Connected and Request change where the call is, and count what is sent *)
LEMMA ConnectedKeeps ==
  ASSUME EInv, Connected
  PROVE  EInv'
  <1>1. pc = "dial" /\ pc' = "ask" /\ UNCHANGED <<call, at, open, cache, last, sent, taken, env>>
        BY DEF Connected
  <1>2. call.todo # <<>>
        BY <1>1, QuestionsAreLeft DEF EInv, Asking
  <1>3. Typed' /\ Sockets' /\ Asking' /\ Sending'
        BY <1>1, <1>2 DEF EInv, Typed, Sockets, Asking, Sending, env
  <1>4. Looking' /\ Rating'
        BY <1>1 DEF EInv, Looking, UnspentTrue, Rating, FeeEnough, env, Spent
  <1> QED
      BY <1>3, <1>4 DEF EInv

(* only a broadcast asks to send *)
LEMMA AsksToSend ==
  ASSUME EInv, pc # "idle", call.todo # <<>>
  PROVE  (Head(call.todo) = "send") <=> (call.op = "broadcast")
  <1>1. call.op \in {"broadcast", "prevout", "fee", "listed", "history"} /\ call.todo \in Left[call.op]
        BY QuestionsAre DEF EInv, Asking
  <1>2. CASE call.op = "history"
        BY <1>1, <1>2, LeftIs DEF Entry
  <1>3. CASE call.op # "history"
        BY <1>1, <1>3, LeftIs
  <1> QED
      BY <1>2, <1>3

LEMMA RequestKeeps ==
  ASSUME EInv, Request
  PROVE  EInv'
  <1>1. pc = "ask" /\ call.todo # <<>> /\ pc' = "pending" /\ UNCHANGED <<call, at, open, cache, last, env>>
        BY DEF Request
  <1>2. IF call.op = "broadcast" THEN sent' = sent + 1 /\ taken' \in BOOLEAN ELSE UNCHANGED <<sent, taken>>
        BY <1>1, AsksToSend DEF Request
  <1>3. Typed'
        BY <1>1, <1>2 DEF EInv, Typed, env
  <1>4. Sockets' /\ Asking' /\ Sending'
        BY <1>1, <1>2 DEF EInv, Sockets, Asking, Sending
  <1>5. Looking' /\ Rating'
        BY <1>1 DEF EInv, Looking, UnspentTrue, Rating, FeeEnough, env, Spent
  <1> QED
      BY <1>3, <1>4, <1>5 DEF EInv

(* An answer, or an error in its place, by operation *)
LEMMA AnsweredKeeps ==
  ASSUME EInv, pc = "pending", NEW good \in BOOLEAN, Answered(good)
  PROVE  EInv'
  <1> DEFINE q == Head(call.todo)
             c == Heard(q, good)
  <1>1. /\ call' = c /\ pc' = "ask" /\ UNCHANGED <<at, open, last, sent, taken, env>>
        /\ q = "send" /\ good => taken
        /\ IF q = "estimate" THEN RateKept(c) ELSE UNCHANGED cache
        BY DEF Answered
  <1>2. /\ IsCall(call) /\ chain \in Seq(Entry) /\ relay \in Nat
        /\ call.op \in DOMAIN Questions /\ call.todo \in Left[call.op] /\ call.todo # <<>>
        BY DEF EInv, Typed, Asking
  <1>3. Sockets'
        BY <1>1 DEF EInv, Sockets
  <1>4. Spent' = Spent /\ (call.was => Spent) /\ UnspentTrue' = UnspentTrue /\ FeeEnough' = FeeEnough
        BY <1>1 DEF env, Spent, EInv, Looking, UnspentTrue, FeeEnough
  <1>5. <<>> \in Seq(Question)
        OBVIOUS
  <1> HIDE DEF q, c
  <1>6. CASE call.op = "broadcast"
    <2>1. call.todo = <<"send">>
          BY <1>2, <1>6, LeftIs
    <2>2. q = "send" /\ c = Ended(Asks(call, <<>>), IF good THEN "ok" ELSE "failed")
          BY <1>2, <1>6, <2>1, HeardBroadcast DEF q, c
    <2>3. /\ IsCall(c) /\ c.op = "broadcast" /\ c.todo = <<>> /\ c.was = call.was
          /\ c.res = IF good THEN "ok" ELSE "failed"
      <3> DEFINE d == Asks(call, <<>>)
      <3>1. IsCall(d) /\ d.op = "broadcast" /\ d.was = call.was
            BY <1>2, <1>5, <1>6, AsksIs
      <3> HIDE DEF d
      <3> QED
            BY <2>2, <3>1, EndedIs DEF Result, d
    <2>4. UNCHANGED cache /\ (good => taken)
          BY <1>1, <2>2
    <2>5. Typed'
          BY <1>1, <2>3, <2>4 DEF EInv, Typed, env
    <2>6. Asking'
          BY <1>1, <2>3, QuestionsAre, LeftIs DEF Asking
    <2>7. Sending'
          BY <1>1, <1>6, <2>1, <2>3, <2>4 DEF EInv, Sending
    <2>8. Looking'
          BY <1>1, <1>4, <2>3 DEF EInv, Looking
    <2>9. Rating'
          BY <1>1, <1>4, <2>3, <2>4 DEF EInv, Rating, env
    <2> QED
        BY <1>3, <2>5, <2>6, <2>7, <2>8, <2>9 DEF EInv
  <1>7. CASE call.op = "prevout"
    <2>1. call.todo \in {<<"tx", "tx">>, <<"tx">>}
          BY <1>2, <1>7, LeftIs
    <2>2. /\ q = "tx"
          /\ \/ \E r \in {"ok", "failed"} : \E t \in {<<"tx">>, <<>>} : c = Ended(Asks(call, t), r)
             \/ c = Asks(call, <<"tx">>)
          BY <1>2, <1>7, <2>1, HeardPrevout DEF q, c
    <2>3. <<"tx">> \in Seq(Question)
          BY DEF Question
    <2>4. call.res # "yes"
          BY <1>7 DEF EInv, Looking
    <2>5. /\ IsCall(c) /\ c.op = "prevout" /\ c.todo \in Left["prevout"] /\ c.was = call.was /\ c.res # "yes"
      <3>1. CASE c = Asks(call, <<"tx">>)
            BY <1>2, <1>7, <2>3, <2>4, <3>1, AsksIs, LeftIs
      <3>2. ASSUME NEW r \in {"ok", "failed"}, NEW t \in {<<"tx">>, <<>>}, c = Ended(Asks(call, t), r)
            PROVE  /\ IsCall(c) /\ c.op = "prevout" /\ c.todo \in Left["prevout"] /\ c.was = call.was
                   /\ c.res # "yes"
        <4> DEFINE d == Asks(call, t)
        <4>1. IsCall(d) /\ d.op = "prevout" /\ d.was = call.was
              BY <1>2, <1>5, <1>7, <2>3, AsksIs
        <4>2. c = Ended(d, r)
              BY <3>2
        <4> HIDE DEF d
        <4> QED
              BY <4>1, <4>2, EndedIs, LeftIs DEF Result
      <3> QED
            BY <2>2, <3>1, <3>2
    <2>6. UNCHANGED cache
          BY <1>1, <2>2
    <2>7. Typed'
          BY <1>1, <2>5, <2>6 DEF EInv, Typed, env
    <2>8. Asking' /\ Sending'
          BY <1>1, <1>7, <2>5, QuestionsAre DEF EInv, Asking, Sending
    <2>9. Looking' /\ Rating'
          BY <1>1, <1>4, <2>5, <2>6 DEF EInv, Looking, Rating, env
    <2> QED
        BY <1>3, <2>7, <2>8, <2>9 DEF EInv
  <1>8. CASE call.op = "fee"
    <2>1. call.todo \in {<<"relay", "estimate">>, <<"estimate">>}
          BY <1>2, <1>8, LeftIs
    <2>2. /\ q \in {"relay", "estimate"} /\ IsCall(c) /\ c.op = "fee" /\ c.due = call.due /\ c.was = call.was
          /\ c.todo \in {<<"estimate">>, <<>>} /\ c.res # "yes"
          BY <1>2, <1>8, <2>1, HeardRelay, HeardEstimate DEF q, c, EInv, Looking
    <2>3. /\ c.sure /\ c.todo = <<"estimate">> => c.rate = relay
          /\ c.sure /\ c.todo = <<>> => c.rate >= relay
          /\ q = "estimate" => c.todo = <<>> /\ c.rate >= Floor
      <3>1. CASE call.todo = <<"relay", "estimate">>
            BY <1>2, <1>8, <3>1, HeardRelay DEF q, c
      <3>2. CASE call.todo = <<"estimate">>
            BY <1>2, <1>8, <3>2, HeardEstimate DEF q, c, EInv, Rating
      <3> QED
            BY <2>1, <3>1, <3>2
    <2>4. /\ cache' \in [rate : Nat, age : Nat, sure : BOOLEAN]
          /\ cache'.rate > 0 => /\ cache'.rate >= Floor
                                /\ cache'.sure /\ cache'.age < since => cache'.rate >= relay
      <3>1. CASE q = "estimate"
            BY <1>1, <2>2, <2>3, <3>1 DEF RateKept, IsCall
      <3>2. CASE q # "estimate"
            BY <1>1, <3>2 DEF EInv, Typed, Rating
      <3> QED
            BY <3>1, <3>2
    <2>5. Typed'
          BY <1>1, <2>2, <2>4 DEF EInv, Typed, env
    <2>6. Asking' /\ Sending'
          BY <1>1, <1>8, <2>2, QuestionsAre, LeftIs DEF EInv, Asking, Sending
    <2>7. Looking'
          BY <1>1, <1>4, <2>2 DEF EInv, Looking
    <2>8. Rating'
          BY <1>1, <1>4, <1>8, <2>2, <2>3, <2>4 DEF EInv, Rating, env
    <2> QED
        BY <1>3, <2>5, <2>6, <2>7, <2>8 DEF EInv
  <1>9. CASE call.op = "listed"
    <2>1. call.todo = <<"list">>
          BY <1>2, <1>9, LeftIs
    <2>2. q = "list" /\ \E r \in {"yes", "no", "failed"} : c = Ended(Asks(call, <<>>), r) /\ (r = "yes" => ~Spent)
          BY <1>2, <1>9, <2>1, HeardListed DEF q, c
    <2>3. /\ IsCall(c) /\ c.op = "listed" /\ c.todo = <<>> /\ c.was = call.was /\ (c.res = "yes" => ~Spent)
      <3> DEFINE d == Asks(call, <<>>)
      <3>1. IsCall(d) /\ d.op = "listed" /\ d.was = call.was
            BY <1>2, <1>5, <1>9, AsksIs
      <3>2. \E r \in {"yes", "no", "failed"} : c = Ended(d, r) /\ (r = "yes" => ~Spent)
            BY <2>2
      <3> HIDE DEF d
      <3> QED
            BY <3>1, <3>2, EndedIs DEF Result
    <2>4. UNCHANGED cache
          BY <1>1, <2>2
    <2>5. Typed'
          BY <1>1, <2>3, <2>4 DEF EInv, Typed, env
    <2>6. Asking' /\ Sending'
          BY <1>1, <1>9, <2>3, QuestionsAre, LeftIs DEF EInv, Asking, Sending
    <2>7. Looking' /\ Rating'
          BY <1>1, <1>4, <2>3, <2>4 DEF EInv, Looking, Rating, env
    <2> QED
        BY <1>3, <2>5, <2>6, <2>7 DEF EInv
  <1>10. CASE call.op = "history"
    <2>1. call.was /\ call.sure /\ call.todo \in Seq(Entry) => Meets(call.todo)
          BY <1>2, <1>10 DEF EInv, Looking
    <2>2. /\ q \notin {"send", "estimate"} /\ IsCall(c) /\ c.op = "history" /\ c.was = call.was
          /\ c.todo \in Left["history"]
          /\ c.was /\ c.sure => IF c.todo = <<>> THEN c.res # "yes"
                                ELSE c.todo \in Seq(Entry) => Meets(c.todo)
          BY <1>2, <1>4, <1>10, <2>1, HeardHistory DEF q, c
    <2>3. UNCHANGED cache
          BY <1>1, <2>2
    <2>4. Typed'
          BY <1>1, <2>2, <2>3 DEF EInv, Typed, env
    <2>5. Asking' /\ Sending'
          BY <1>1, <1>10, <2>2, QuestionsAre DEF EInv, Asking, Sending
    <2>6. Looking' /\ Rating'
          BY <1>1, <1>4, <2>2, <2>3 DEF EInv, Looking, Rating, env
    <2> QED
        BY <1>3, <2>4, <2>5, <2>6 DEF EInv
  <1> QED
      BY <1>2, <1>6, <1>7, <1>8, <1>9, <1>10, QuestionsAre

(* Lost: the request that waits gets an error, else the next one will throw *)
LEMMA LostKeeps ==
  ASSUME EInv, Lost
  PROVE  EInv'
  <1>1. CASE pc = "pending"
        BY <1>1, AnsweredKeeps DEF Lost
  <1>2. CASE pc # "pending"
    <2>1. UNCHANGED <<pc, call, at, open, cache, last, sent, taken, env>>
          BY <1>2 DEF Lost
    <2> QED
        BY <2>1 DEF EInv, Typed, Sockets, Asking, Sending, Looking, UnspentTrue, Rating, FeeEnough, env, Spent
  <1> QED
      BY <1>1, <1>2

(* Throws: the call fails, and a fee rate is the floor *)
LEMMA ThrowsKeeps ==
  ASSUME EInv, Throws
  PROVE  EInv'
  <1> DEFINE floored == [call EXCEPT !.rate = Floor, !.sure = FALSE]
             c == IF call.op = "fee" THEN Ended(floored, "ok") ELSE Ended(call, "failed")
  <1>1. /\ pc = "ask" /\ call.todo # <<>> /\ call' = c
        /\ IF call.op = "fee" THEN RateKept(floored) ELSE UNCHANGED cache
        /\ UNCHANGED <<pc, at, open, last, sent, taken, env>>
        BY DEF Throws
  <1>2. IsCall(call)
        BY DEF EInv, Typed
  <1>3. /\ IsCall(floored) /\ floored.op = call.op /\ floored.was = call.was /\ floored.due = call.due
        /\ floored.sure = FALSE /\ floored.rate = Floor
        BY <1>2, Numbers DEF IsCall, Field
  <1> HIDE DEF floored
  <1>4. /\ IsCall(c) /\ c.op = call.op /\ c.was = call.was /\ c.due = call.due /\ c.todo = <<>>
        /\ c.res \in {"ok", "failed"} /\ (c.op = "fee" => c.sure = FALSE) /\ (c.op # "fee" => c.res = "failed")
        BY <1>2, <1>3, EndedIs DEF Result
  <1> HIDE DEF c
  <1>5. /\ cache' \in [rate : Nat, age : Nat, sure : BOOLEAN]
        /\ cache'.rate > 0 => /\ cache'.rate >= Floor
                              /\ cache'.sure /\ cache'.age < since => cache'.rate >= relay
    <2>1. CASE call.op = "fee"
      <3>1. cache' = [rate |-> Floor, age |-> 0, sure |-> FALSE]
            BY <1>1, <1>3, <2>1 DEF RateKept
      <3> QED
            BY <3>1, Numbers
    <2>2. CASE call.op # "fee"
          BY <1>1, <2>2 DEF EInv, Typed, Rating
    <2> QED
        BY <2>1, <2>2
  <1>6. Typed' /\ Sockets'
        BY <1>1, <1>4, <1>5 DEF EInv, Typed, Sockets, env
  <1>7. Asking'
    <2>1. call.op \in {"broadcast", "prevout", "fee", "listed", "history"} /\ <<>> \in Seq(Entry)
          BY <1>1, QuestionsAre DEF EInv, Asking
    <2> QED
          BY <1>1, <1>4, <2>1, QuestionsAre, LeftIs DEF Asking
  <1>8. Sending'
        BY <1>1, <1>4 DEF EInv, Sending
  <1>9. Looking'
        BY <1>1, <1>4 DEF EInv, Looking, UnspentTrue, env, Spent
  <1>10. Rating'
        BY <1>1, <1>4, <1>5 DEF EInv, Rating, FeeEnough, env
  <1> QED
      BY <1>6, <1>7, <1>8, <1>9, <1>10 DEF EInv

(* The network: transactions appear at any time, fees move between calls *)
LEMMA NetworkKeeps ==
  ASSUME EInv, Network
  PROVE  EInv'
  <1>1. CASE Appears
    <2>1. /\ UNCHANGED <<pc, call, at, open, cache, last, sent, taken, relay, since>>
          /\ \E t \in Entry : chain' = Append(chain, t)
          BY <1>1 DEF Appears, Entry
    <2>2. chain' \in Seq(Entry) /\ (Spent => Spent')
          BY <2>1 DEF EInv, Typed, Spent
    <2>3. Typed' /\ Sockets' /\ Asking' /\ Sending'
          BY <2>1, <2>2 DEF EInv, Typed, Sockets, Asking, Sending
    <2>4. Looking' /\ Rating'
          BY <2>1, <2>2 DEF EInv, Looking, UnspentTrue, Rating, FeeEnough
    <2> QED
        BY <2>3, <2>4 DEF EInv
  <1>2. CASE RelayMoves
    <2>1. /\ UNCHANGED <<pc, call, at, open, cache, last, sent, taken, chain>>
          /\ pc = "idle" /\ since' = 0 /\ relay' \in Nat /\ relay' >= Floor
          BY <1>2, ElectrumAssumption DEF RelayMoves
    <2>2. Typed' /\ Sockets' /\ Asking' /\ Sending'
          BY <2>1 DEF EInv, Typed, Sockets, Asking, Sending
    <2>3. Looking' /\ Rating'
          BY <2>1 DEF EInv, Typed, Looking, UnspentTrue, Rating, FeeEnough, Spent
    <2> QED
        BY <2>2, <2>3 DEF EInv
  <1>3. CASE Tick
    <2>1. \A n \in Nat : /\ Min({n + 1, Ttl}) \in Nat
                         /\ Min({n + 1, Ttl}) = IF n + 1 <= Ttl THEN n + 1 ELSE Ttl
      <3>1. TAKE n \in Nat
      <3>2. \E x \in {n + 1, Ttl} : \A y \in {n + 1, Ttl} : x <= y
            BY Numbers
      <3> QED
            BY <3>2, Numbers DEF Min
    <2>2. /\ UNCHANGED <<pc, call, at, open, last, sent, taken, chain, relay>>
          /\ pc = "idle" /\ since' = Min({since + 1, Ttl})
          /\ cache' \in [rate : Nat, age : Nat, sure : BOOLEAN]
          /\ cache'.rate = cache.rate /\ cache'.sure = cache.sure /\ cache'.age = Min({cache.age + 1, Ttl})
          BY <1>3, <2>1 DEF Tick, EInv, Typed
    <2>3. Typed' /\ Sockets' /\ Asking' /\ Sending'
          BY <2>1, <2>2 DEF EInv, Typed, Sockets, Asking, Sending
    <2>4. Looking'
          BY <2>2 DEF EInv, Looking, UnspentTrue, Spent
    <2>5. cache'.age < since' => cache.age < since
      <3>1. cache.age \in Nat /\ since \in Nat
            BY DEF EInv, Typed
      <3>2. /\ cache'.age = IF cache.age + 1 <= Ttl THEN cache.age + 1 ELSE Ttl
            /\ since' = IF since + 1 <= Ttl THEN since + 1 ELSE Ttl
            BY <2>1, <2>2, <3>1
      <3> QED
            BY <3>1, <3>2, Numbers
    <2>6. Rating'
          BY <2>2, <2>5 DEF EInv, Rating, FeeEnough
    <2> QED
        BY <2>3, <2>4, <2>6 DEF EInv
  <1> QED
      BY <1>1, <1>2, <1>3 DEF Network

-----------------------------------------------------------------------------
(* EInv is inductive, and says what the properties say *)
THEOREM EInvariant == Spec => []EInv
  <1>1. EInv /\ [Next]_vars => EInv'
    <2> SUFFICES ASSUME EInv, [Next]_vars PROVE EInv'
        OBVIOUS
    <2>1. ASSUME NEW op \in DOMAIN Questions, Begin(op) PROVE EInv'
          BY <2>1, BeginKeeps
    <2>2. CASE Connected
          BY <2>2, ConnectedKeeps
    <2>3. CASE DialFails
          BY <2>3, DialFailsKeeps
    <2>4. CASE Request
          BY <2>4, RequestKeeps
    <2>5. CASE Answer \/ AnswersError
          BY <2>5, AnsweredKeeps DEF Answer, AnswersError
    <2>6. CASE Lost
          BY <2>6, LostKeeps
    <2>7. CASE Throws
          BY <2>7, ThrowsKeeps
    <2>8. CASE Close
          BY <2>8, CloseKeeps
    <2>9. CASE Network
          BY <2>9, NetworkKeeps
    <2>10. CASE UNCHANGED vars
          BY <2>10 DEF vars, EInv, Typed, Sockets, Asking, Sending, Looking, UnspentTrue, Rating, FeeEnough, env, Spent
    <2> QED
        BY <2>1, <2>2, <2>3, <2>4, <2>5, <2>6, <2>7, <2>8, <2>9, <2>10 DEF Next, Program
  <1> QED
      BY <1>1, EInvInit, PTL DEF Spec

(* However often a connect fails and a call is repeated, no socket is left *)
(* open between calls and only one is open during a call: connectElectrum  *)
(* and the `finally` of every caller.                                      *)
THEOREM SocketsAreClosed == Spec => []OneSocket
  <1>1. EInv => OneSocket
    <2>1. Cardinality({}) = 0 /\ \A x : Cardinality({x}) = 1
          BY FS_EmptySet, FS_Singleton
    <2>2. SUFFICES ASSUME EInv PROVE OneSocket
          OBVIOUS
    <2>3. (open = {} \/ open = {at}) /\ (pc = "idle" => open = {})
          BY <2>2 DEF EInv, Sockets
    <2>4. Cardinality(open) \in {0, 1}
          BY <2>1, <2>3
    <2> QED
        BY <2>3, <2>4 DEF OneSocket
  <1> QED
      BY <1>1, EInvariant, PTL

(* A transaction is sent to the nodes at most once in a call of            *)
(* broadcastTx, and reported as sent only if a node took it.               *)
THEOREM SentOnce == Spec => []BroadcastOnce
  <1>1. EInv => BroadcastOnce
    <2> SUFFICES ASSUME EInv PROVE BroadcastOnce
        OBVIOUS
    <2>1. sent <= 1
          BY DEF EInv, Typed, Sending
    <2> QED
        BY <2>1 DEF EInv, Sending, BroadcastOnce
  <1> QED
      BY <1>1, EInvariant, PTL

(* An outpoint spent before the question is never called unspent, by       *)
(* either way of asking, unless a transaction of its history was not read. *)
THEOREM UnspentIsUnspent == Spec => []UnspentTrue
  <1>1. EInv => UnspentTrue
        BY DEF EInv, Looking
  <1> QED
      BY <1>1, EInvariant, PTL

(* The fee rate, kept or asked, is at least what the nodes asked when the  *)
(* question began, unless they raised it within the last Ttl or did not    *)
(* say: getFeeRate and its cache.                                          *)
THEOREM RateIsEnough == Spec => []FeeEnough
  <1>1. EInv => FeeEnough
        BY DEF EInv, Rating
  <1> QED
      BY <1>1, EInvariant, PTL
=============================================================================
