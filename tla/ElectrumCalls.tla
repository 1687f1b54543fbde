---------------------------- MODULE ElectrumCalls ----------------------------
(***************************************************************************)
(* The calls of one process to the Electrum nodes of its network.  Each    *)
(* opens a connection of its own, going round the nodes until one answers, *)
(* asks its questions one after the other and closes it.  A request whose  *)
(* connection is lost is answered with an error value, one made after that *)
(* throws.  What a call makes of such answers is the subject here.         *)
(***************************************************************************)
EXTENDS Naturals, Sequences, FiniteSetsExt

CONSTANTS
  Servers,     \* nodes of the network
  Retries,     \* rounds over them before a connect gives up
  Rounds,      \* reads of waitForP2pkhOutpointUnspent before it gives up
  Floor,       \* least fee rate of the network
  MaxRelay,    \* bound: relay fees Floor .. MaxRelay
  Ttl,         \* ticks for which a fee rate is kept
  IsDefault,   \* is the network the one the client falls back to?
  MaxHistory,  \* bound: transactions of the script
  MaxSpoiled   \* bound: answers of one call that are errors or lost

ASSUME ElectrumAssumption ==
  /\ {Servers, Retries, Rounds, Floor, Ttl} \subseteq Nat \ {0}
  /\ MaxRelay \in Nat /\ MaxRelay >= Floor /\ MaxHistory \in Nat \ {0} /\ MaxSpoiled \in Nat
  /\ IsDefault \in BOOLEAN

VARIABLES
  pc,        \* where the call is
  call,      \* what it asks, what is left to ask, what it has learned
  at,        \* the connect: <<round, node>>
  open,      \* sockets not closed, by connect
  link,      \* is the connection in use up?
  cache,     \* feeRateCache: rate (0: none), its age, does it stem from answers?
  last,      \* the call that ended last
  sent,      \* times a broadcast reached a node
  taken,     \* did a node take it?
  chain,     \* the transactions of a script: fund, others, at most one spend
  relay,     \* the relay fee the nodes ask
  since,     \* ticks since it changed
  spoiled

vars == <<pc, call, at, open, link, cache, last, sent, taken, chain, relay, since, spoiled>>
env == <<chain, relay, since>>

-----------------------------------------------------------------------------
Questions ==
  [broadcast |-> <<"send">>,
   prevout |-> <<"tx", "tx">>,            \* once more if the first answer is no text
   fee |-> <<"relay", "estimate">>,
   listed |-> <<"list">>,
   history |-> <<"tx", "history">>]

Spent == \E i \in DOMAIN chain : chain[i] = "spend"

NoCall == [op |-> "none", todo |-> <<>>, try |-> 1, round |-> 1, seen |-> <<>>, rate |-> 0, sure |-> TRUE,
           was |-> FALSE, due |-> 0, res |-> "none"]

(* callGetUtxosFromScripthash tries five ways to call, each a call of its   *)
(* own: two for the network, one that names none, and two that fail at      *)
(* once, for they name the script as the network.                           *)
Tries == 5
OnNetwork(c) == c.try < 3 \/ IsDefault
Fails == 4 .. Tries

Asks(c, questions) == [c EXCEPT !.todo = questions]
Ended(c, res) == [c EXCEPT !.todo = <<>>, !.res = res]

-----------------------------------------------------------------------------
(* connectElectrum *)

First == <<1, 1>>
Dial(c) == pc' = "dial" /\ at' = First /\ open' = open \cup {First} /\ link' = "dialing" /\ call' = c

(* isP2pkhOutpointUnspent and its repetition: `res` decides how to go on.   *)
ListEnds(c, res, sockets) ==
  LET more == IF res = "failed" /\ c.try + 1 \notin Fails THEN [c EXCEPT !.try = @ + 1, !.res = "none"]
              ELSE IF res = "no" /\ c.round < Rounds THEN [c EXCEPT !.round = @ + 1, !.try = 1, !.res = "none"]
              ELSE c
  IN  IF more = c THEN pc' = "idle" /\ last' = Ended(c, res) /\ call' = NoCall /\ open' = sockets /\ UNCHANGED <<at, link>>
      ELSE pc' = "dial" /\ at' = First /\ open' = sockets \cup {First} /\ link' = "dialing"
           /\ call' = Asks(more, Questions["listed"]) /\ UNCHANGED last

(* faulty variant: a broadcast that failed is repeated *)
ReturnsAgain(c, res, sockets) ==
  IF c.op = "broadcast" /\ res = "failed" 
    THEN pc' = "dial" /\ at' = First /\ open' = sockets \cup {First} /\ link' = "dialing"
         /\ call' = Asks(c, Questions["broadcast"]) /\ UNCHANGED last
  ELSE pc' = "idle" /\ last' = Ended(c, res) /\ call' = NoCall /\ open' = sockets /\ UNCHANGED <<at, link>>
Returns(c, res, sockets) ==
  IF c.op = "listed" THEN ListEnds(c, res, sockets)
  ELSE pc' = "idle" /\ last' = Ended(c, res) /\ call' = NoCall /\ open' = sockets /\ UNCHANGED <<at, link>>

(* faulty variant: a fee rate is kept forever *)
CachedForever == cache.rate > 0
Cached == cache.rate > 0 /\ cache.age < Ttl

Begin(op) ==
  LET c == [NoCall EXCEPT !.op = op, !.todo = Questions[op], !.was = Spent, !.due = IF since < Ttl THEN Floor ELSE relay] IN
  /\ pc = "idle"
  /\ sent' = 0 /\ taken' = FALSE /\ spoiled' = 0
  /\ IF op = "fee" /\ Cached
       THEN /\ last' = Ended([c EXCEPT !.rate = cache.rate, !.sure = cache.sure], "ok")
            /\ UNCHANGED <<pc, call, at, open, link>>
       ELSE Dial(c) /\ last' = NoCall
  /\ UNCHANGED <<cache, env>>

Connected ==
  /\ pc = "dial" /\ link = "dialing"
  /\ pc' = "ask" /\ link' = "up"
  /\ UNCHANGED <<call, at, open, cache, last, sent, taken, env, spoiled>>

(* faulty variant: round and round *)
DialAgain == IF at[2] < Servers THEN <<at[1], at[2] + 1>> ELSE First
NextDial == IF at[2] < Servers THEN <<at[1], at[2] + 1>> ELSE <<at[1] + 1, 1>>
(* faulty variant: the socket is not closed *)
DialFailsOpen ==
  /\ pc = "dial" /\ link = "dialing" /\ NextDial[1] <= Retries
  /\ at' = NextDial /\ open' = open \cup {NextDial}
  /\ UNCHANGED <<pc, call, link, last, cache, sent, taken, env, spoiled>>
(* Refused, lost, or not there in time: the socket is closed, and the next  *)
(* node, or after a pause the first one, is tried.                          *)
DialFails ==
  LET rest == open \ {at} IN
  /\ pc = "dial" /\ link = "dialing"
  /\ IF NextDial[1] <= Retries
       THEN at' = NextDial /\ open' = rest \cup {NextDial} /\ UNCHANGED <<pc, call, link, last>>
       ELSE \* connectElectrum throws; a fee rate is then the floor, and not kept
            Returns([call EXCEPT !.rate = Floor, !.sure = FALSE], IF call.op = "fee" THEN "ok" ELSE "failed", rest)
  /\ UNCHANGED <<cache, sent, taken, env, spoiled>>

-----------------------------------------------------------------------------
(* Requests *)

Request ==
  /\ pc = "ask" /\ call.todo # <<>> /\ link = "up"
  /\ pc' = "pending"
  /\ IF Head(call.todo) = "send" THEN sent' = sent + 1 /\ taken' \in BOOLEAN ELSE UNCHANGED <<sent, taken>>
  /\ UNCHANGED <<call, at, open, link, cache, last, env, spoiled>>

(* The estimate is taken to be no more than the relay fee. *)
Chosen(rate) == Max({rate, 1, Floor})
RateKept(c) == cache' = [rate |-> c.rate, age |-> 0, sure |-> c.sure]

(* faulty variant: all but the last *)
ScanRest(history) == [i \in 1 .. Len(history) - 1 |-> history[Len(history) - i]]
(* outpointIsUnspentViaVerboseTx: the history is read once, then its        *)
(* transactions are fetched from the last to the first.                     *)
Scan(history) == [i \in DOMAIN history |-> history[Len(history) + 1 - i]]

(* What the call makes of an answer, or of an error in its place *)
Heard(q, good) ==
  LET rest == Tail(call.todo)
      c == Asks(call, rest)
  IN
  CASE q = "send" -> Ended(c, IF good THEN "ok" ELSE "failed")
    [] q = "tx" /\ c.op = "prevout" -> IF good THEN Ended(c, "ok") ELSE IF rest = <<>> THEN Ended(c, "failed") ELSE c
    [] q = "relay" -> [c EXCEPT !.rate = IF good THEN relay ELSE 1, !.sure = good]
    [] q = "estimate" -> Ended([c EXCEPT !.rate = Chosen(@)], "ok")
    [] q = "list" -> IF good THEN Ended(c, IF OnNetwork(c) /\ ~Spent THEN "yes" ELSE "no") ELSE Ended(c, "failed")
    [] q = "tx" /\ c.op # "prevout" -> IF good THEN c ELSE Ended(c, "no")
    [] q = "history" -> IF good THEN Asks([c EXCEPT !.seen = chain], Scan(chain)) ELSE Ended(c, "no")
    [] OTHER -> IF q = "spend" /\ good THEN Ended(c, "no")
                ELSE [(IF rest = <<>> THEN Ended(c, "yes") ELSE c) EXCEPT !.sure = @ /\ good]

Answered(good) ==
  LET q == Head(call.todo)
      c == Heard(q, good)
  IN
  /\ q = "send" /\ good => taken
  /\ call' = c /\ pc' = "ask"
  /\ IF q = "estimate" THEN RateKept(c) ELSE UNCHANGED cache
  /\ UNCHANGED <<at, open, last, sent, taken, env>>

Answer ==
  /\ pc = "pending" /\ link = "up"
  /\ Answered(TRUE)
  /\ UNCHANGED <<link, spoiled>>

AnswersError ==
  /\ pc = "pending" /\ link = "up" /\ spoiled < MaxSpoiled
  /\ Answered(FALSE)
  /\ spoiled' = spoiled + 1
  /\ UNCHANGED link

(* The socket ends, fails, or is idle for too long: it is closed, and the   *)
(* request that waits gets an error.                                        *)
Lost ==
  /\ link = "up" /\ pc \in {"ask", "pending"}
  /\ pc = "pending" \/ spoiled < MaxSpoiled
  /\ link' = "lost"
  /\ spoiled' = IF spoiled < MaxSpoiled THEN spoiled + 1 ELSE spoiled
  /\ IF pc = "pending" THEN Answered(FALSE) ELSE UNCHANGED <<pc, call, at, open, cache, last, sent, taken, env>>

(* A request on a lost connection throws; a fee rate is then the floor, and *)
(* kept.                                                                    *)
Throws ==
  LET c == [call EXCEPT !.rate = Floor, !.sure = FALSE] IN
  /\ pc = "ask" /\ call.todo # <<>> /\ link = "lost"
  /\ call' = IF call.op = "fee" THEN Ended(c, "ok") ELSE Ended(call, "failed")
  /\ IF call.op = "fee" THEN RateKept(c) ELSE UNCHANGED cache
  /\ UNCHANGED <<pc, at, open, link, last, sent, taken, env, spoiled>>

(* finally: client.disconnect *)
Close ==
  /\ pc = "ask" /\ call.todo = <<>>
  /\ Returns(call, call.res, open \ {at})
  /\ UNCHANGED <<cache, sent, taken, env, spoiled>>

-----------------------------------------------------------------------------
(* The network *)

Appears ==
  /\ Len(chain) < MaxHistory
  /\ \E t \in {"other", "spend"} : ~(t = "spend" /\ Spent) /\ chain' = Append(chain, t)
  /\ UNCHANGED <<pc, call, at, open, link, cache, last, sent, taken, relay, since, spoiled>>

(* A call takes little time: a fee asked changes between calls. *)
RelayMoves ==
  /\ pc = "idle"
  /\ relay' \in (Floor .. MaxRelay) \ {relay}
  /\ since' = 0
  /\ UNCHANGED <<pc, call, at, open, link, cache, last, sent, taken, chain, spoiled>>

Tick ==
  /\ pc = "idle"
  /\ since' = Min({since + 1, Ttl})
  /\ cache' = [cache EXCEPT !.age = Min({@ + 1, Ttl})]
  /\ UNCHANGED <<pc, call, at, open, link, last, sent, taken, chain, relay, spoiled>>

Init ==
  /\ pc = "idle" /\ call = NoCall /\ last = NoCall
  /\ at = First /\ open = {} /\ link = "none"
  /\ cache = [rate |-> 0, age |-> 0, sure |-> TRUE]
  /\ sent = 0 /\ taken = FALSE
  /\ chain = <<"fund">>
  /\ relay = Floor /\ since = Ttl
  /\ spoiled = 0

(* Every wait is bounded: for a connect and for an answer by a timer of the *)
(* socket, between rounds by a pause.                                       *)
Program == Connected \/ DialFails \/ Request \/ Answer \/ AnswersError \/ Lost \/ Throws \/ Close
Network == Appears \/ RelayMoves \/ Tick
Next == (\E op \in DOMAIN Questions : Begin(op)) \/ Program \/ Network

Spec == Init /\ [][Next]_vars /\ WF_vars(Program)

-----------------------------------------------------------------------------
(* Properties *)

(* The state is of the expected shape. *)
TypeOK ==
  /\ pc \in {"idle", "dial", "ask", "pending"} /\ link \in {"none", "dialing", "up", "lost"}
  /\ \A c \in {call, last} :
       /\ DOMAIN c = DOMAIN NoCall
       /\ c.res \in {"none", "ok", "failed", "yes", "no"} /\ c.try \in 1 .. Tries /\ c.round \in 1 .. Rounds
       /\ c.rate \in 0 .. MaxRelay /\ c.due \in 0 .. MaxRelay
  /\ at \in (1 .. Retries) \X (1 .. Servers) /\ open \subseteq (1 .. Retries) \X (1 .. Servers)
  /\ cache.rate \in 0 .. MaxRelay /\ cache.age \in 0 .. Ttl
  /\ relay \in Floor .. MaxRelay /\ since \in 0 .. Ttl
  /\ sent \in Nat /\ taken \in BOOLEAN /\ spoiled \in 0 .. MaxSpoiled

(* Connects that fail, calls that are repeated and connections lost leave   *)
(* no socket behind: none is open between calls, one during a call.         *)
OneSocket == Cardinality(open) <= 1 /\ (pc = "idle" => open = {})

(* However often the connect is repeated a transaction is sent once, and    *)
(* reported as sent only if the node took it.                               *)
BroadcastOnce == sent <= 1 /\ (last.op = "broadcast" /\ pc = "idle" /\ last.res = "ok" => taken)

(* An outpoint spent before a call began is never called unspent by it,     *)
(* whatever was repeated, asked of another network or spent meanwhile,      *)
(* unless a transaction of its history could not be fetched.                *)
UnspentTrue == last.res = "yes" /\ last.was => ~last.sure

(* The fee rate of a transaction is what the nodes ask, though it is kept   *)
(* between calls: unless that changed lately, or was not answered.          *)
FeeEnough == last.op = "fee" /\ last.sure => last.rate >= last.due

(* Every call ends. *)
CallsEnd == []<>(pc = "idle")

=============================================================================
