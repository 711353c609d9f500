---------------------------- MODULE ServicesProofs ----------------------------
(***************************************************************************)
(* The services of the API that keep something between requests, for any   *)
(* number of requests, callers, addresses, versions, visits and days: the  *)
(* web token minter, the rate limit of the beacon, resumes, the reports of *)
(* the ops page and the queries it makes, the caches of GitHub, and the    *)
(* order of a page's sections.                                             *)
(* Each part is about one module, and uses nothing of the others but the   *)
(* facts about numbers that come first.                                    *)
(***************************************************************************)
EXTENDS GithubCache, WebToken, BeaconIngest, Resumes, OpsReports, OpsPlan, SectionOrder,
        FiniteSetTheorems, WellFoundedInduction, TLAPS

(***************************************************************************)
(* Sets of numbers.  The order is well-founded, so a set of numbers has a  *)
(* least member; a bounded one has a greatest.                             *)
(***************************************************************************)
Less == {e \in Nat \X Nat : e[1] < e[2]}

LEMMA LessWF == IsWellFoundedOn(Less, Nat)
<1>1. Less = OpToRel(<, Nat)
  BY Zenon DEF Less, OpToRel
<1> QED
  BY <1>1, NatLessThanWellFounded, Zenon

\* A set of numbers has a least one, and a bounded set a greatest one.
LEMMA Least ==
  ASSUME NEW T, T \subseteq Nat, T # {}
  PROVE  \E x \in T : \A y \in T : x <= y
<1>1. PICK x \in T : \A y \in T : ~(<<y, x>> \in Less)
  BY WFMin, LessWF, Zenon
<1>2. ASSUME NEW y \in T PROVE x <= y
  <2>1. ~(y < x)
    BY <1>1 DEF Less
  <2> QED
    BY <2>1
<1> QED
  BY <1>2

LEMMA Greatest ==
  ASSUME NEW n \in Nat, NEW T, T \subseteq 0..n, T # {}
  PROVE  \E x \in T : \A y \in T : y <= x
<1> DEFINE U == {k \in 0..n : n - k \in T}
<1>1. PICK t \in T : t \in 0..n
  OBVIOUS
<1>2. n - t \in U
  BY <1>1
<1>3. U # {}
  BY <1>2
<1>4. U \subseteq Nat /\ \A k \in U : k \in 0..n /\ n - k \in T
  OBVIOUS
<1>5. \A y \in T : y \in 0..n /\ n - y \in U
  <2> SUFFICES ASSUME NEW y \in T PROVE y \in 0..n /\ n - y \in U
    OBVIOUS
  <2>1. y \in 0..n /\ n - y \in 0..n /\ n - (n - y) = y
    OBVIOUS
  <2> QED
    BY <2>1
<1> HIDE DEF U
<1>6. PICK k \in U : \A l \in U : k <= l
  BY <1>3, <1>4, Least
<1>7. ASSUME NEW y \in T PROVE y <= n - k
  BY <1>4, <1>5, <1>6
<1> QED
  BY <1>4, <1>6, <1>7

(***************************************************************************)
(* The minter: whom a token belongs to, and the slot.                      *)
(***************************************************************************)

\* A caller waits for an attempt that runs for its own cookie.
Awaited ==
  \A c \in Callers : wait[c].on # NoMint =>
    /\ wait[c].on \in Mints /\ Running(wait[c].on)
    /\ mint[wait[c].on].of = wait[c].cookie

\* Attempts start in the order of their numbers, each for a cookie, and the
\* one started last is in the slot until it ends.
InOrder ==
  /\ \A n \in Started, m \in Mints : m < n => m \in Started
  /\ \A n \in Started : mint[n].of \in Cookies
  /\ inFlight # NoMint => Running(inFlight)
  /\ \A n \in Mints : Running(n) /\ (\A o \in Started : o <= n) => inFlight = n

MintIInv ==
  /\ MintTypeOK /\ Awaited /\ InOrder /\ TokenOfOwnCookie
  /\ cached # NoMint => cached.of = cached.key

LEMMA MintInitInv == MintInit => MintIInv
<1> SUFFICES ASSUME MintInit PROVE MintIInv
  OBVIOUS
<1>1. MintTypeOK
  BY TokenAssumption DEF MintInit, MintTypeOK, Unused
<1>2. Started = {} /\ \A n \in Mints : ~Running(n)
  BY DEF MintInit, Started, Running, Unused
<1>3. Awaited /\ InOrder /\ TokenOfOwnCookie
  BY <1>2, TokenAssumption DEF MintInit, Awaited, InOrder, TokenOfOwnCookie
<1> QED
  BY <1>1, <1>3 DEF MintInit, MintIInv

\* The next attempt has the smallest number that is free.
LEMMA NextAttempt ==
  ASSUME MintTypeOK, InOrder, Free # {}
  PROVE  /\ Next1(Free) \in Mints \ Started
         /\ \A m \in Started : m < Next1(Free)
         /\ \A m \in Mints : m < Next1(Free) => m \in Started
<1>1. Free \subseteq Nat
  BY DEF Free, Mints
<1>2. \E x \in Free : \A y \in Free : x <= y
  BY <1>1, Least
<1> DEFINE n == Next1(Free)
<1>3. n \in Free /\ \A y \in Free : n <= y
  BY <1>2 DEF Next1
<1> HIDE DEF n
<1>4. n \in Mints /\ n \notin Started /\ Mints \subseteq Nat /\ Started \subseteq Mints
  BY <1>3 DEF Free, Mints, Started
<1>5. \A m \in Mints : m < n => m \in Started
  BY <1>3, <1>4 DEF Free
<1>6. \A m \in Started : m < n
  <2>1. SUFFICES ASSUME NEW m \in Started, ~(m < n) PROVE FALSE
    OBVIOUS
  <2>2. n < m
    BY <2>1, <1>4
  <2> QED
    BY <2>2, <1>4 DEF InOrder
<1> QED
  BY <1>4, <1>5, <1>6 DEF n

\* A caller is answered at once.
LEMMA AnsweredInv ==
  ASSUME MintIInv, NEW c \in Callers, MintRefused(c) \/ \E k \in Cookies : MintFromCache(c, k)
  PROVE  MintIInv'
<1>1. PICK k \in Cookies \cup {NoCookie}, answer \in Cookies \cup {"invalid_cookie"} :
        /\ Calls(c, k, NoMint, answer) /\ UNCHANGED <<second, cached, inFlight, mint>>
        /\ answer \in Cookies => answer = k
  BY TokenAssumption DEF MintRefused, MintFromCache, UsesCache, MintIInv, MintTypeOK, Errors
<1>2. /\ wait' = [wait EXCEPT ![c] = [cookie |-> k, on |-> NoMint, got |-> answer]]
      /\ Started' = Started /\ \A n \in Mints : Running(n)' <=> Running(n)
  BY <1>1 DEF Calls, Started, Running
<1>3. MintTypeOK'
  BY <1>1, <1>2 DEF MintIInv, MintTypeOK, Errors
<1>4. Awaited' /\ TokenOfOwnCookie'
  BY <1>1, <1>2 DEF MintIInv, MintTypeOK, Awaited, Running, TokenOfOwnCookie
<1>5. InOrder'
  BY <1>1, <1>2 DEF MintIInv, MintTypeOK, InOrder, Running
<1> QED
  BY <1>1, <1>3, <1>4, <1>5 DEF MintIInv

\* A caller joins the attempt in the slot, which is for its own cookie.
LEMMA JoinedInv ==
  ASSUME MintIInv, NEW c \in Callers, NEW k \in Cookies, MintJoined(c, k)
  PROVE  MintIInv'
<1>1. /\ wait' = [wait EXCEPT ![c] = [cookie |-> k, on |-> inFlight, got |-> NoMint]]
      /\ UNCHANGED <<second, cached, inFlight, mint>>
      /\ inFlight # NoMint /\ mint[inFlight].of = k
  BY DEF MintJoined, Calls, Joins
<1>2. /\ inFlight \in Mints /\ Running(inFlight)
      /\ Started' = Started /\ \A n \in Mints : Running(n)' <=> Running(n)
  BY <1>1 DEF MintIInv, MintTypeOK, InOrder, Started, Running
<1>3. MintTypeOK'
  BY <1>1, <1>2 DEF MintIInv, MintTypeOK
<1>4. Awaited' /\ TokenOfOwnCookie'
  BY <1>1, <1>2, TokenAssumption DEF MintIInv, MintTypeOK, Awaited, Running, TokenOfOwnCookie
<1>5. InOrder'
  BY <1>1, <1>2 DEF MintIInv, MintTypeOK, InOrder, Running
<1> QED
  BY <1>1, <1>3, <1>4, <1>5 DEF MintIInv

\* A new attempt takes the slot.
LEMMA StartedInv ==
  ASSUME MintIInv, NEW c \in Callers, NEW k \in Cookies, MintStarted(c, k)
  PROVE  MintIInv'
<1>1. Free # {} /\ UNCHANGED <<second, cached>>
  BY DEF MintStarted
<1>2. PICK n \in Mints :
        /\ wait' = [wait EXCEPT ![c] = [cookie |-> k, on |-> n, got |-> NoMint]]
        /\ mint' = [mint EXCEPT ![n] = [at |-> "server-time", of |-> k]]
        /\ inFlight' = n
        /\ n \notin Started /\ \A m \in Started : m < n
        /\ \A m \in Mints : m < n => m \in Started
  BY <1>1, NextAttempt DEF MintStarted, Calls, MintIInv
<1>3. /\ Running(n)' /\ mint'[n].of = k
      /\ \A m \in Mints : m # n => mint'[m] = mint[m]
      /\ \A m \in Mints : m # n => (Running(m)' <=> Running(m))
  <2>1. mint' = [m \in Mints |-> IF m = n THEN [at |-> "server-time", of |-> k] ELSE mint[m]]
    BY <1>2 DEF MintIInv, MintTypeOK
  <2> QED
    BY <1>2, <2>1 DEF Running
<1>4. Started' = Started \cup {n} /\ Started \subseteq Mints
  BY <1>1, <1>2, <1>3 DEF Started, MintIInv, MintTypeOK
<1>5. MintTypeOK'
  BY <1>1, <1>2 DEF MintIInv, MintTypeOK
<1>6. Awaited' /\ TokenOfOwnCookie'
  <2>1. \A d \in Callers : wait[d].on # NoMint => wait[d].on # n
    BY <1>2 DEF MintIInv, Awaited, Running, Started
  <2> QED
    BY <1>1, <1>2, <1>3, <2>1, TokenAssumption
    DEF MintIInv, MintTypeOK, Awaited, Running, TokenOfOwnCookie
<1>7. InOrder'
  <2>1. \A m \in Started', o \in Mints : o < m => o \in Started'
    BY <1>2, <1>4 DEF MintIInv, InOrder
  <2>2. \A m \in Started' : mint'[m].of \in Cookies
    BY <1>2, <1>3, <1>4 DEF MintIInv, InOrder
  <2>3. \A m \in Mints : Running(m)' /\ (\A o \in Started' : o <= m) => inFlight' = m
    <3>1. \A m \in Mints : Running(m) => m \in Started
      BY DEF Running, Started
    <3>2. \A m \in Started : ~(n <= m)
      BY <1>2, <1>4 DEF Mints
    <3> QED
      BY <1>2, <1>3, <1>4, <3>1, <3>2
  <2>4. inFlight' # NoMint => Running(inFlight)'
    BY <1>2, <1>3 DEF Running
  <2> QED
    BY <2>1, <2>2, <2>3, <2>4 DEF InOrder
<1> QED
  BY <1>1, <1>5, <1>6, <1>7 DEF MintIInv

\* An attempt ends: who waited for it has its answer.
LEMMA EndsInv ==
  ASSUME MintIInv, NEW n \in Mints, Running(n), NEW answer \in Cookies \cup Errors,
         answer \in Cookies => answer = mint[n].of,
         Ends(n, answer), MintTypeOK', cached' # NoMint => cached'.of = cached'.key
  PROVE  MintIInv'
<1>1. /\ mint' = [mint EXCEPT ![n] = [mint[n] EXCEPT !.at = "ended"]]
      /\ inFlight' = IF inFlight = n THEN NoMint ELSE inFlight
      /\ wait' = [c \in Callers |->
           IF wait[c].on = n THEN [wait[c] EXCEPT !.on = NoMint, !.got = answer] ELSE wait[c]]
  BY DEF Ends, SlotAfter
<1>2. /\ mint'[n].at = "ended" /\ mint'[n].of = mint[n].of /\ ~Running(n)'
      /\ \A m \in Mints : m # n => mint'[m] = mint[m] /\ (Running(m)' <=> Running(m))
  BY <1>1 DEF MintIInv, MintTypeOK, Running
<1>3. Started' = Started
  BY <1>2 DEF Started, Running
<1>4. \A c \in Callers :
        \/ wait[c].on = n /\ wait'[c].on = NoMint /\ wait'[c].got = answer /\ wait'[c].cookie = wait[c].cookie
        \/ wait[c].on # n /\ wait'[c] = wait[c]
  <2>1. \A c \in Callers : wait[c] \in [cookie : Cookies \cup {NoCookie}, on : Mints \cup {NoMint},
                                      got : Cookies \cup Errors \cup {NoMint}]
    BY DEF MintIInv, MintTypeOK
  <2> QED
    BY <1>1, <2>1
<1>5. Awaited'
  BY <1>2, <1>4 DEF MintIInv, Awaited, Running
<1>6. TokenOfOwnCookie'
  BY <1>4, TokenAssumption DEF MintIInv, Awaited, TokenOfOwnCookie, Mints
<1>7. InOrder'
  <2>1. \A m \in Started', o \in Mints : o < m => o \in Started'
    BY <1>3 DEF MintIInv, InOrder
  <2>2. \A m \in Started' : mint'[m].of \in Cookies
    BY <1>2, <1>3 DEF MintIInv, InOrder, Started
  <2>3. inFlight' # NoMint => Running(inFlight)'
    <3>1. inFlight' # NoMint => inFlight' = inFlight /\ inFlight # n /\ inFlight \in Mints
      BY <1>1 DEF MintIInv, MintTypeOK
    <3> QED
      BY <1>2, <3>1 DEF MintIInv, InOrder, Running
  <2>4. \A m \in Mints : Running(m)' /\ (\A o \in Started' : o <= m) => inFlight' = m
    BY <1>1, <1>2, <1>3 DEF MintIInv, InOrder
  <2> QED
    BY <2>1, <2>2, <2>3, <2>4 DEF InOrder
<1> QED
  BY <1>5, <1>6, <1>7 DEF MintIInv

\* The HTTP calls of an attempt.
LEMMA AttemptInv ==
  ASSUME MintIInv, NEW n \in Mints, ServerTime(n) \/ Exchange(n)
  PROVE  MintIInv'
<1> DEFINE r(at) == [mint[n] EXCEPT !.at = at]
<1>0. /\ Running(n) /\ mint[n].of \in Cookies
      /\ MintTypeOK /\ mint[n] \in [at : {"unused", "server-time", "exchange", "ended"}, of : Cookies \cup {NoMint}]
  BY DEF ServerTime, Exchange, Running, MintIInv, MintTypeOK, InOrder, Started
<1>1. \A at \in {"exchange", "ended"} :
        /\ r(at) \in [at : {"unused", "server-time", "exchange", "ended"}, of : Cookies \cup {NoMint}]
        /\ r(at).at = at /\ r(at).of = mint[n].of
  BY <1>0
<1> HIDE DEF r
<1>2. ASSUME NEW answer \in Cookies \cup Errors, Ends(n, answer), UNCHANGED second,
             cached' \in [key : Cookies, of : Cookies, until : Int] \cup {NoMint}
      PROVE  MintTypeOK'
  <2>1. mint' = [mint EXCEPT ![n] = r("ended")]
    BY <1>2 DEF Ends, r
  <2>2. mint' \in [Mints -> [at : {"unused", "server-time", "exchange", "ended"}, of : Cookies \cup {NoMint}]]
    BY <1>0, <1>1, <2>1 DEF MintTypeOK
  <2>3. inFlight' \in Mints \cup {NoMint}
    BY <1>0, <1>2 DEF Ends, SlotAfter, MintTypeOK
  <2>4. wait' \in [Callers -> [cookie : Cookies \cup {NoCookie}, on : Mints \cup {NoMint},
                              got : Cookies \cup Errors \cup {NoMint}]]
    <3> DEFINE Calling == [cookie : Cookies \cup {NoCookie}, on : Mints \cup {NoMint},
                           got : Cookies \cup Errors \cup {NoMint}]
    <3>1. \A c \in Callers : wait[c] \in Calling
      BY <1>0 DEF MintTypeOK
    <3>2. \A c \in Callers : [wait[c] EXCEPT !.on = NoMint, !.got = answer] \in Calling
      BY <3>1
    <3> HIDE DEF Calling
    <3>3. wait' \in [Callers -> Calling]
      BY <1>2, <3>1, <3>2 DEF Ends
    <3> QED
      BY <3>3 DEF Calling
  <2> QED
    BY <1>0, <1>2, <2>2, <2>3, <2>4 DEF MintTypeOK
<1>3. ASSUME NEW e \in Errors, Ends(n, e), UNCHANGED <<second, cached>> PROVE MintIInv'
  <2>1. MintTypeOK'
    BY <1>0, <1>2, <1>3 DEF MintTypeOK
  <2> QED
    BY <1>0, <1>3, <2>1, EndsInv, TokenAssumption DEF MintIInv
<1>4. CASE ServerTime(n)
  <2>1. CASE Ends(n, "transient")
    BY <1>3, <1>4, <2>1 DEF ServerTime, Errors
  <2>2. CASE mint' = [mint EXCEPT ![n] = r("exchange")] /\ UNCHANGED <<inFlight, wait>>
    <3>1. /\ mint' \in [Mints -> [at : {"unused", "server-time", "exchange", "ended"}, of : Cookies \cup {NoMint}]]
          /\ mint'[n].at = "exchange" /\ mint'[n].of = mint[n].of
          /\ \A m \in Mints : m # n => mint'[m] = mint[m]
      BY <1>0, <1>1, <2>2 DEF MintTypeOK
    <3>2. UNCHANGED <<second, cached, inFlight, wait>> /\ mint[n].at = "server-time"
      BY <1>4, <2>2 DEF ServerTime
    <3>3. /\ Started' = Started /\ \A m \in Mints : Running(m)' <=> Running(m)
          /\ \A m \in Mints : mint'[m].of = mint[m].of
      BY <3>1, <3>2 DEF Started, Running
    <3>4. MintTypeOK'
      BY <1>0, <3>1, <3>2 DEF MintTypeOK
    <3>5. Awaited' /\ TokenOfOwnCookie'
      BY <3>2, <3>3 DEF MintIInv, Awaited, TokenOfOwnCookie
    <3>6. InOrder'
      BY <1>0, <3>2, <3>3 DEF MintIInv, InOrder, MintTypeOK, Started
    <3> QED
      BY <3>2, <3>4, <3>5, <3>6 DEF MintIInv
  <2> QED
    BY <1>4, <2>1, <2>2 DEF ServerTime, r
<1>5. CASE Exchange(n)
  <2>1. CASE \E e \in Errors : Ends(n, e) /\ UNCHANGED cached
    BY <1>3, <1>5, <2>1 DEF Exchange
  <2>2. ASSUME NEW l \in Lifetimes, Ends(n, mint[n].of),
               cached' = [key |-> mint[n].of, of |-> mint[n].of, until |-> second + l - Margin]
        PROVE  MintIInv'
    <3>1. second + l - Margin \in Int
      BY <1>0, TokenAssumption DEF MintTypeOK
    <3>2. /\ cached' \in [key : Cookies, of : Cookies, until : Int]
          /\ cached'.of = cached'.key
      BY <1>0, <2>2, <3>1
    <3>3. MintTypeOK'
      BY <1>0, <1>2, <1>5, <2>2, <3>2 DEF Exchange
    <3> QED
      BY <1>0, <2>2, <3>2, <3>3, EndsInv
  <2> QED
    BY <1>5, <2>1, <2>2 DEF Exchange
<1> QED
  BY <1>4, <1>5

LEMMA MintNextInv == MintIInv /\ [MintNext]_mintVars => MintIInv'
<1> SUFFICES ASSUME MintIInv, [MintNext]_mintVars PROVE MintIInv'
  OBVIOUS
<1>1. CASE ClockTicks \/ UNCHANGED mintVars
  <2>1. UNCHANGED <<cached, inFlight, mint, wait>> /\ second' \in 0..LastMintSecond
    BY <1>1, TokenAssumption DEF ClockTicks, mintVars, MintIInv, MintTypeOK
  <2>2. MintTypeOK'
    BY <2>1 DEF MintIInv, MintTypeOK
  <2>3. Awaited' /\ TokenOfOwnCookie' /\ InOrder'
    BY <2>1 DEF MintIInv, Awaited, TokenOfOwnCookie, InOrder, Started, Running
  <2> QED
    BY <2>1, <2>2, <2>3 DEF MintIInv
<1>2. ASSUME NEW c \in Callers, MintRefused(c) \/ \E k \in Cookies : MintFromCache(c, k)
      PROVE  MintIInv'
  BY <1>2, AnsweredInv
<1>3. ASSUME NEW c \in Callers, NEW k \in Cookies, MintJoined(c, k) \/ MintStarted(c, k)
      PROVE  MintIInv'
  BY <1>3, JoinedInv, StartedInv
<1>4. ASSUME NEW n \in Mints, ServerTime(n) \/ Exchange(n) PROVE MintIInv'
  BY <1>4, AttemptInv
<1> QED
  BY <1>1, <1>2, <1>3, <1>4 DEF MintNext

\* The minter of any number of callers, cookies and attempts keeps its invariant:
\* callers wait for attempts of their own cookie, and the slot holds the last one.
THEOREM MintInvariant == MintSpec => []MintIInv
BY MintInitInv, MintNextInv, PTL DEF MintSpec

\* However many callers, cookies and attempts there are, mintWebToken() hands a
\* caller a token of the cookie it came with or none.
THEOREM TokensBelong == MintSpec => []TokenOfOwnCookie
<1>1. MintIInv => TokenOfOwnCookie
  BY DEF MintIInv
<1> QED
  BY <1>1, MintInvariant, PTL

\* While the attempt started last is running nobody starts another one for its
\* cookie: it is in the slot, and so a caller with that cookie joins it.
THEOREM OneAttempt == MintSpec => NoSecondAttempt
<1> DEFINE NoOther == \A n, m \in Mints :
             (Running(n) /\ Running(n)' /\ mint[m].at = "unused" /\ mint'[m].at # "unused"
                /\ \A o \in Started : o <= n)
             => mint'[m].of # mint[n].of
<1>1. MintIInv /\ [MintNext]_mintVars => [NoOther]_mintVars
  <2> SUFFICES ASSUME MintIInv, [MintNext]_mintVars, NEW n \in Mints, NEW m \in Mints,
                      Running(n), mint[m].at = "unused", mint'[m].at # "unused",
                      \A o \in Started : o <= n
               PROVE  mint'[m].of # mint[n].of
    OBVIOUS
  <2>1. inFlight = n
    BY DEF MintIInv, InOrder
  <2>2. PICK c \in Callers, k \in Cookies : MintStarted(c, k)
    <3>1. ASSUME NEW o \in Mints, ServerTime(o) \/ Exchange(o) PROVE FALSE
      <4>1. o # m
        BY <3>1 DEF ServerTime, Exchange
      <4>2. \E e : mint' = [mint EXCEPT ![o] = e]
        BY <3>1 DEF ServerTime, Exchange, Ends
      <4> QED
        BY <4>1, <4>2 DEF MintIInv, MintTypeOK
    <3> QED
      BY <3>1 DEF MintNext, mintVars, ClockTicks, MintRefused, MintFromCache, MintJoined
  <2>3. mint[n].of # k
    BY <2>1, <2>2, TokenAssumption DEF MintStarted, Joins, Mints
  <2>4. mint' = [mint EXCEPT ![Next1(Free)] = [at |-> "server-time", of |-> k]]
    BY <2>2 DEF MintStarted
  <2>5. mint'[m].of = k
    BY <2>4 DEF MintIInv, MintTypeOK
  <2> QED
    BY <2>3, <2>5
<1> QED
  BY <1>1, MintInvariant, PTL DEF MintSpec, NoSecondAttempt

(***************************************************************************)
(* The limiter implements TokenBucket.  A lazily refilled bucket stands    *)
(* for the level it would be refilled to now, and a forgotten address for  *)
(* a full one, which is what an idle bucket has become by then.            *)
(***************************************************************************)
Buckets == [tokens : 0..Capacity, last : 0..LastSecond]

\* No bucket is from the future.
BeaconIInv ==
  /\ BeaconTypeOK
  /\ \A ip \in Ips : bucket[ip] # NoBucket => bucket[ip].last <= seconds

LEMMA LevelType ==
  ASSUME BeaconIInv, NEW ip \in Ips
  PROVE  /\ Level(bucket[ip]) \in 0..Capacity
         /\ bucket[ip] \in Buckets \cup {NoBucket}
BY BeaconAssumption DEF BeaconIInv, BeaconTypeOK, Buckets, Level, AtMost

\* Whoever is forgotten was full again: pruning changes no level.
LEMMA PruningInvisible ==
  ASSUME BeaconIInv, NEW ip \in Ips
  PROVE  /\ Pruned[ip] \in Buckets \cup {NoBucket}
         /\ Pruned[ip] # NoBucket => Pruned[ip] = bucket[ip]
         /\ Level(Pruned[ip]) = Level(bucket[ip])
<1>1. bucket[ip] \in Buckets \cup {NoBucket} /\ Pruned[ip] \in {bucket[ip], NoBucket}
  BY LevelType DEF Pruned
<1>2. ASSUME Pruned[ip] # bucket[ip] PROVE Level(bucket[ip]) = Capacity
  <2>1. bucket[ip] # NoBucket /\ seconds - bucket[ip].last >= Capacity
    BY <1>2 DEF Pruned, IdleBucket, IdleAfter
  <2>2. bucket[ip].tokens \in 0..Capacity /\ bucket[ip].last \in Nat /\ seconds \in Nat
    BY <1>1, <2>1 DEF Buckets, BeaconIInv, BeaconTypeOK
  <2> QED
    BY <2>1, <2>2, BeaconAssumption DEF Level, AtMost
<1> QED
  BY <1>1, <1>2 DEF Level

\* A beacon that takes tokens of ip leaves every other level alone.
LEMMA TouchEffect ==
  ASSUME BeaconIInv, NEW ip \in Ips, NEW taken \in {0, 1}, Level(Pruned[ip]) >= taken,
         Touch(ip, taken), UNCHANGED seconds
  PROVE  /\ bucket' \in [Ips -> Buckets \cup {NoBucket}] /\ lastPrune' \in 0..LastSecond
         /\ \A q \in Ips : bucket'[q] # NoBucket => bucket'[q].last <= seconds
         /\ Level(bucket[ip])' = Level(bucket[ip]) - taken
         /\ \A q \in Ips \ {ip} : Level(bucket[q])' = Level(bucket[q])
<1> DEFINE k == [tokens |-> Level(Pruned[ip]) - taken, last |-> seconds]
<1>1. Level(Pruned[ip]) = Level(bucket[ip]) /\ Level(bucket[ip]) \in 0..Capacity /\ seconds \in 0..LastSecond
  BY PruningInvisible, LevelType DEF BeaconIInv, BeaconTypeOK
<1>2. k \in Buckets /\ k # NoBucket /\ k.last = seconds /\ k.tokens = Level(bucket[ip]) - taken
  BY <1>1, BeaconAssumption DEF Buckets
<1>3. /\ bucket'[ip] = k
      /\ \A q \in Ips \ {ip} : bucket'[q] = Pruned[q]
      /\ bucket' \in [Ips -> Buckets \cup {NoBucket}]
  <2>1. bucket' = [Pruned EXCEPT ![ip] = k]
    BY DEF Touch
  <2>2. Pruned = [q \in Ips |-> Pruned[q]]
    BY DEF Pruned
  <2> HIDE DEF k
  <2> QED
    BY <1>2, <2>1, <2>2, PruningInvisible
<1> HIDE DEF k
<1>4. Level(bucket[ip])' = Level(bucket[ip]) - taken
  BY <1>1, <1>2, <1>3, BeaconAssumption DEF Level, AtMost
<1>5. \A q \in Ips \ {ip} : Level(bucket[q])' = Level(bucket[q])
  BY <1>3, PruningInvisible DEF Level
<1>6. \A q \in Ips : bucket'[q] # NoBucket => bucket'[q].last <= seconds
  BY <1>1, <1>2, <1>3, PruningInvisible DEF BeaconIInv
<1>7. lastPrune' \in 0..LastSecond
  BY <1>1 DEF Touch, BeaconIInv, BeaconTypeOK
<1> QED
  BY <1>3, <1>4, <1>5, <1>6, <1>7

LEMMA BeaconInitInv == BeaconInit => BeaconIInv /\ Limit!LInit
BY BeaconAssumption DEF BeaconInit, BeaconIInv, BeaconTypeOK, Limit!LInit, Level

LEMMA BeaconStep ==
  ASSUME BeaconIInv, [BeaconNext]_beaconVars
  PROVE  /\ BeaconIInv'
         /\ [Limit!LNext]_[ip \in Ips |-> Level(bucket[ip])]
<1> DEFINE level == [ip \in Ips |-> Level(bucket[ip])]
<1>1. ASSUME UNCHANGED <<seconds, limiter, lastRetentionDay>>,
             beacon' \in [Beacons -> {"idle", "insert", "inserted", "delete"}]
      PROVE  BeaconIInv' /\ [Limit!LNext]_level
  <2>1. BeaconIInv'
    BY <1>1 DEF BeaconIInv, BeaconTypeOK, limiter
  <2>2. level' = level
    BY <1>1 DEF limiter, Level
  <2> QED
    BY <2>1, <2>2
<1>2. CASE UNCHANGED beaconVars
  BY <1>1, <1>2 DEF beaconVars, BeaconIInv, BeaconTypeOK
<1>3. CASE Second
  <2>1. /\ seconds' = seconds + 1 /\ seconds \in Nat /\ seconds' \in 0..LastSecond
        /\ UNCHANGED <<bucket, lastPrune, lastRetentionDay, beacon>>
    BY <1>3, BeaconAssumption DEF Second, limiter, BeaconIInv, BeaconTypeOK
  <2>2. BeaconIInv'
    BY <2>1, BeaconAssumption DEF BeaconIInv, BeaconTypeOK
  <2>3. \A ip \in Ips : Level(bucket[ip])' = IF Level(bucket[ip]) < Capacity THEN Level(bucket[ip]) + 1 ELSE Capacity
    BY <2>1, LevelType, BeaconAssumption DEF Level, AtMost, Buckets, BeaconIInv
  <2>4. Limit!Refill
    BY <2>3 DEF Limit!Refill
  <2> QED
    BY <2>2, <2>4 DEF Limit!LNext
<1>4. ASSUME NEW ip \in Ips, Limited(ip) PROVE BeaconIInv' /\ [Limit!LNext]_level
  <2>1. Touch(ip, 0) /\ UNCHANGED <<seconds, lastRetentionDay, beacon>>
    BY <1>4 DEF Limited
  <2>2. Level(Pruned[ip]) >= 0 /\ Level(bucket[ip]) \in 0..Capacity
    BY LevelType, PruningInvisible
  <2>3. /\ bucket' \in [Ips -> Buckets \cup {NoBucket}] /\ lastPrune' \in 0..LastSecond
        /\ \A q \in Ips : bucket'[q] # NoBucket => bucket'[q].last <= seconds
        /\ \A q \in Ips : Level(bucket[q])' = Level(bucket[q])
    BY <2>1, <2>2, TouchEffect
  <2>4. BeaconIInv'
    BY <2>1, <2>3 DEF BeaconIInv, BeaconTypeOK, Buckets
  <2>5. level' = level
    BY <2>3
  <2> QED
    BY <2>4, <2>5
<1>5. ASSUME NEW b \in Beacons, NEW ip \in Ips, Admitted(b, ip)
      PROVE  BeaconIInv' /\ [Limit!LNext]_level
  <2>1. /\ Touch(ip, 1) /\ UNCHANGED <<seconds, lastRetentionDay>> /\ Level(Pruned[ip]) >= 1
        /\ beacon' \in [Beacons -> {"idle", "insert", "inserted", "delete"}]
    BY <1>5 DEF Admitted, BeaconIInv, BeaconTypeOK
  <2>2. /\ bucket' \in [Ips -> Buckets \cup {NoBucket}] /\ lastPrune' \in 0..LastSecond
        /\ \A q \in Ips : bucket'[q] # NoBucket => bucket'[q].last <= seconds
        /\ Level(bucket[ip])' = Level(bucket[ip]) - 1
        /\ \A q \in Ips \ {ip} : Level(bucket[q])' = Level(bucket[q])
    BY <2>1, TouchEffect
  <2>3. BeaconIInv'
    BY <2>1, <2>2 DEF BeaconIInv, BeaconTypeOK, Buckets
  <2>4. Limit!Admit(ip)
    <3>1. Level(bucket[ip]) >= 1
      BY <2>1, PruningInvisible
    <3> QED
      BY <2>2, <3>1 DEF Limit!Admit
  <2> QED
    BY <2>3, <2>4 DEF Limit!LNext
<1>6. ASSUME NEW b \in Beacons, Insert(b) \/ Deleted(b) PROVE BeaconIInv' /\ [Limit!LNext]_level
  BY <1>1, <1>6 DEF Insert, Deleted, BeaconIInv, BeaconTypeOK
<1>7. ASSUME NEW b \in Beacons, Retain(b) PROVE BeaconIInv' /\ [Limit!LNext]_level
  <2>1. /\ UNCHANGED <<seconds, bucket, lastPrune>>
        /\ beacon' \in [Beacons -> {"idle", "insert", "inserted", "delete"}]
        /\ lastRetentionDay' \in {lastRetentionDay, Today}
    BY <1>7 DEF Retain, limiter, BeaconIInv, BeaconTypeOK
  <2>2. Today \in AllDays
    BY BeaconAssumption DEF Today, AllDays, BeaconIInv, BeaconTypeOK
  <2>3. BeaconIInv'
    BY <2>1, <2>2 DEF BeaconIInv, BeaconTypeOK
  <2>4. level' = level
    BY <2>1 DEF Level
  <2> QED
    BY <2>3, <2>4
<1> QED
  BY <1>2, <1>3, <1>4, <1>5, <1>6, <1>7 DEF BeaconNext

\* Types, and no bucket that underRateLimit() refilled in the future.
THEOREM BeaconInvariant == BeaconSpec => []BeaconIInv
<1>1. BeaconInit => BeaconIInv
  BY BeaconInitInv
<1>2. BeaconIInv /\ [BeaconNext]_beaconVars => BeaconIInv'
  BY BeaconStep
<1> QED
  BY <1>1, <1>2, PTL DEF BeaconSpec

\* The rate limit of the beacon admits and refuses like one that keeps a level
\* for every address and refills them all every second.
THEOREM LimiterRefines == BeaconSpec => ImplementsBucket
<1>1. BeaconInit => Limit!LInit
  BY BeaconInitInv
<1>2. BeaconIInv /\ [BeaconNext]_beaconVars => [Limit!LNext]_[ip \in Ips |-> Level(bucket[ip])]
  BY BeaconStep
<1> QED
  BY <1>1, <1>2, BeaconInvariant, PTL DEF BeaconSpec, ImplementsBucket, Limit!LSpec

(***************************************************************************)
(* Resumes.  A version is Kept if its object is there or was deleted once: *)
(* nothing ends that.                                                      *)
(***************************************************************************)
Kept == uploaded \cup erased

\* What is left to do of a call.
Remaining == {<<>>, <<"head", "stamp">>, <<"stamp">>, <<"del object", "del row">>, <<"del row">>, <<"get">>}

\* A row is confirmed only when its object was found, and gone only after it.
RowsSound ==
  \A v \in Uploads :
    /\ resumes[v] = "unborn" => v \notin good \cup uploaded
    /\ resumes[v] = "confirmed" => v \in Kept
    /\ resumes[v] = "deleted" => v \in erased

\* A stamp or a read comes after the object was there, the delete of a row after
\* the delete of the object.
CallsSound ==
  \A c \in ResumeCalls :
    /\ calls[c] # Over => calls[c].does # <<>>
    /\ calls[c].does \in {<<"stamp">>, <<"get">>} => calls[c].version \in Kept
    /\ calls[c].does = <<"del row">> => calls[c].version \in erased

ResumesIInv ==
  /\ resumes \in [Uploads -> {"unborn", "pending", "confirmed", "deleted"}]
  /\ uploaded \subseteq Uploads /\ good \subseteq Uploads /\ erased \subseteq Uploads
  /\ calls \in [ResumeCalls -> [does : Remaining, version : Uploads]]
  /\ RowsSound /\ CallsSound

LEMMA NewestIsConfirmed ==
  ASSUME NewestConfirmed # 0
  PROVE  NewestConfirmed \in Uploads /\ resumes[NewestConfirmed] = "confirmed"
<1> DEFINE S == {0} \cup {v \in Uploads : resumes[v] = "confirmed"}
<1>1. S \subseteq 0..MaxVersions /\ S # {} /\ MaxVersions \in Nat
  BY ResumesAssumption DEF Uploads
<1>2. \A x \in S : x = 0 \/ (x \in Uploads /\ resumes[x] = "confirmed")
  OBVIOUS
<1>3. NewestConfirmed = CHOOSE x \in S : \A y \in S : x >= y
  BY DEF NewestConfirmed, Numbers!Max
<1> HIDE DEF S
<1>4. \E x \in S : \A y \in S : x >= y
  BY <1>1, Greatest
<1>5. NewestConfirmed \in S
  BY <1>3, <1>4
<1> QED
  BY <1>2, <1>5

LEMMA HeadTailPair ==
  ASSUME NEW x, NEW y
  PROVE  Len(<<x, y>>) = 2 /\ Head(<<x, y>>) = x /\ Tail(<<x, y>>) = <<y>>
OBVIOUS

LEMMA HeadOne ==
  ASSUME NEW x
  PROVE  Head(<<x>>) = x
OBVIOUS

LEMMA ChainsDiffer ==
  /\ \A x, y : <<x>> # <<>> /\ <<x, y>> # <<>>
  /\ \A x, y, z : <<x>> # <<y, z>>
  /\ <<"stamp">> # <<"del row">> /\ <<"stamp">> # <<"get">> /\ <<"get">> # <<"del row">>
<1>1. \A x, y : Len(<<x>>) = 1 /\ Len(<<x, y>>) = 2
  OBVIOUS
<1>2. Len(<<>>) = 0
  OBVIOUS
<1>3. /\ \A x, y : <<x>> # <<>> /\ <<x, y>> # <<>>
      /\ \A x, y, z : <<x>> # <<y, z>>
  BY <1>1, <1>2
<1>4. <<"stamp">> # <<"del row">> /\ <<"stamp">> # <<"get">> /\ <<"get">> # <<"del row">>
  OBVIOUS
<1> QED
  BY <1>3, <1>4, Zenon

\* What is left of a call whose next step is known.
LEMMA AtChain ==
  ASSUME ResumesIInv, NEW c \in ResumeCalls, NEW step, At(c, step)
  PROVE  /\ calls[c] \in [does : Remaining, version : Uploads]
         /\ \/ step = "head" /\ calls[c].does = <<"head", "stamp">>
            \/ step = "del object" /\ calls[c].does = <<"del object", "del row">>
            \/ step \in {"stamp", "del row", "get"} /\ calls[c].does = <<step>>
<1>1. calls[c] \in [does : Remaining, version : Uploads] /\ calls[c].does # <<>>
      /\ Head(calls[c].does) = step
  BY DEF ResumesIInv, CallsSound, At
<1>2. calls[c].does \in Remaining
  BY <1>1
<1>3. \A x \in {"stamp", "del row", "get"} : calls[c].does = <<x>> => step = x
  BY <1>1, HeadOne
<1>4. \A x, y : calls[c].does = <<x, y>> => step = x
  BY <1>1, HeadTailPair
<1> QED
  BY <1>1, <1>2, <1>3, <1>4, Zenon DEF Remaining

\* A call goes on from one thing it does to the next.
LEMMA ProceedsEffect ==
  ASSUME ResumesIInv, NEW c \in ResumeCalls, NEW step, At(c, step), Proceeds(c)
  PROVE  /\ calls' \in [ResumeCalls -> [does : Remaining, version : Uploads]]
         /\ \A d \in ResumeCalls : d # c => calls'[d] = calls[d]
         /\ \/ calls'[c] = Over
            \/ /\ calls'[c].version = calls[c].version
               /\ \/ step = "head" /\ calls'[c].does = <<"stamp">>
                  \/ step = "del object" /\ calls'[c].does = <<"del row">>
<1> DEFINE q == calls[c]
           after == IF Len(q.does) = 1 THEN Over ELSE [does |-> Tail(q.does), version |-> q.version]
<1>1. Over \in [does : Remaining, version : Uploads]
  BY ResumesAssumption DEF Over, Remaining, Uploads
<1>2. calls' = [calls EXCEPT ![c] = after]
  BY DEF Proceeds
<1>3. q \in [does : Remaining, version : Uploads]
  BY AtChain
<1>4. \A x : q.does = <<x>> => after = Over
  <2> SUFFICES ASSUME NEW x, q.does = <<x>> PROVE after = Over
    OBVIOUS
  <2>1. Len(<<x>>) = 1
    OBVIOUS
  <2> QED
    BY <2>1
<1>5. \A x, y : q.does = <<x, y>> => after = [does |-> <<y>>, version |-> q.version]
  BY HeadTailPair
<1> HIDE DEF after
<1>6. after \in [does : Remaining, version : Uploads]
      /\ \/ after = Over
         \/ /\ after.version = q.version
            /\ \/ step = "head" /\ after.does = <<"stamp">>
               \/ step = "del object" /\ after.does = <<"del row">>
  <2>1. CASE step = "head" /\ q.does = <<"head", "stamp">>
    <3>1. after = [does |-> <<"stamp">>, version |-> q.version]
      BY <1>5, <2>1, Zenon
    <3> QED
      BY <1>3, <2>1, <3>1 DEF Remaining
  <2>2. CASE step = "del object" /\ q.does = <<"del object", "del row">>
    <3>1. after = [does |-> <<"del row">>, version |-> q.version]
      BY <1>5, <2>2, Zenon
    <3> QED
      BY <1>3, <2>2, <3>1 DEF Remaining
  <2>3. CASE q.does = <<step>>
    <3>1. after = Over
      BY <1>4, <2>3, Zenon
    <3> QED
      BY <1>1, <3>1
  <2> QED
    BY <2>1, <2>2, <2>3, AtChain, Zenon
<1> QED
  BY <1>2, <1>6 DEF ResumesIInv

\* What is Kept stays so, and a call that goes on or ends is sound as long as
\* its own next step is.
LEMMA CallsGoOn ==
  ASSUME ResumesIInv, NEW c \in ResumeCalls,
         \A d \in ResumeCalls : d # c => calls'[d] = calls[d],
         Kept \subseteq Kept', erased \subseteq erased',
         \/ calls'[c] = Over
         \/ calls'[c].does \in {ConfirmSteps, DeleteSteps}
         \/ calls'[c].does \in {<<"stamp">>, <<"get">>} /\ calls'[c].version \in Kept'
         \/ calls'[c].does = <<"del row">> /\ calls'[c].version \in erased'
  PROVE  CallsSound'
<1> SUFFICES ASSUME NEW d \in ResumeCalls
             PROVE  /\ calls'[d] # Over => calls'[d].does # <<>>
                    /\ calls'[d].does \in {<<"stamp">>, <<"get">>} => calls'[d].version \in Kept'
                    /\ calls'[d].does = <<"del row">> => calls'[d].version \in erased'
  BY Zenon DEF CallsSound, Over
<1>1. CASE d # c
  BY <1>1 DEF ResumesIInv, CallsSound
<1>2. CASE calls'[d] = Over
  <2>1. Over.does = <<>>
    BY DEF Over
  <2>2. calls'[d].does = <<>>
    BY <1>2, <2>1, Zenon
  <2> QED
    BY <1>2, <2>2, ChainsDiffer, Zenon
<1>3. CASE calls'[d].does \in {ConfirmSteps, DeleteSteps}
  BY <1>3, ChainsDiffer, Zenon DEF ConfirmSteps, DeleteSteps
<1>4. CASE calls'[d].does \in {<<"stamp">>, <<"get">>} /\ calls'[d].version \in Kept'
  BY <1>4, ChainsDiffer, Zenon
<1>5. CASE calls'[d].does = <<"del row">> /\ calls'[d].version \in erased'
  BY <1>5, ChainsDiffer, Zenon
<1> QED
  BY <1>1, <1>2, <1>3, <1>4, <1>5, Zenon

\* A call that goes on stays sound: the HEAD found the object, the delete of the
\* object took place.
LEMMA ProceedsSound ==
  ASSUME ResumesIInv, NEW c \in ResumeCalls, NEW step, At(c, step), Proceeds(c),
         Kept \subseteq Kept', erased \subseteq erased',
         step = "head" => calls[c].version \in Kept',
         step = "del object" => calls[c].version \in erased'
  PROVE  CallsSound' /\ calls' \in [ResumeCalls -> [does : Remaining, version : Uploads]]
<1>1. \/ calls'[c] = Over
      \/ calls'[c].does \in {<<"stamp">>, <<"get">>} /\ calls'[c].version \in Kept'
      \/ calls'[c].does = <<"del row">> /\ calls'[c].version \in erased'
  BY ProceedsEffect, Zenon
<1> QED
  BY <1>1, ProceedsEffect, CallsGoOn, Zenon

LEMMA EndedSound ==
  ASSUME ResumesIInv, NEW c \in ResumeCalls, Ended(c), Kept \subseteq Kept', erased \subseteq erased'
  PROVE  CallsSound' /\ calls' \in [ResumeCalls -> [does : Remaining, version : Uploads]]
<1>1. Over \in [does : Remaining, version : Uploads]
  BY ResumesAssumption DEF Over, Remaining, Uploads
<1>2. /\ calls' \in [ResumeCalls -> [does : Remaining, version : Uploads]]
      /\ \A d \in ResumeCalls : d # c => calls'[d] = calls[d]
      /\ calls'[c] = Over
  BY <1>1 DEF Ended, ResumesIInv
<1> QED
  BY <1>2, CallsGoOn

LEMMA ResumesInitInv == ResumesInit => ResumesIInv
<1> SUFFICES ASSUME ResumesInit PROVE ResumesIInv
  OBVIOUS
<1>1. Over \in [does : Remaining, version : Uploads] /\ \A c \in ResumeCalls : calls[c] = Over
  BY ResumesAssumption DEF ResumesInit, Over, Remaining, Uploads
<1>2. CallsSound
  <2>1. Over.does = <<>>
    BY DEF Over
  <2> QED
    BY <1>1, <2>1, ChainsDiffer, Zenon DEF CallsSound
<1> QED
  BY <1>1, <1>2 DEF ResumesInit, ResumesIInv, RowsSound

LEMMA ResumesStep == ResumesIInv /\ [ResumesNext]_resumeVars => ResumesIInv'
<1> SUFFICES ASSUME ResumesIInv, [ResumesNext]_resumeVars PROVE ResumesIInv'
  OBVIOUS
<1>1. CASE CreateResumeUrl
  <2>1. PICK v \in Uploads : /\ resumes[v] = "unborn"
                             /\ resumes' = [resumes EXCEPT ![v] = "pending"]
                             /\ good' = good \cup {v}
    BY <1>1 DEF CreateResumeUrl
  <2>2. RowsSound'
    BY <1>1, <2>1 DEF CreateResumeUrl, ResumesIInv, RowsSound, Kept
  <2>3. CallsSound'
    BY <1>1 DEF CreateResumeUrl, ResumesIInv, CallsSound, Kept
  <2> QED
    BY <1>1, <2>1, <2>2, <2>3 DEF CreateResumeUrl, ResumesIInv
<1>2. CASE PutResume
  <2>1. RowsSound' /\ CallsSound'
    BY <1>2 DEF PutResume, ResumesIInv, RowsSound, CallsSound, Kept
  <2> QED
    BY <1>2, <2>1 DEF PutResume, ResumesIInv
<1>3. CASE UrlExpires
  <2>1. RowsSound' /\ CallsSound'
    BY <1>3 DEF UrlExpires, ResumesIInv, RowsSound, CallsSound, Kept
  <2> QED
    BY <1>3, <2>1 DEF UrlExpires, ResumesIInv
<1>4. CASE \E c \in ResumeCalls : CallStarts(c)
  <2>1. PICK c \in ResumeCalls : CallStarts(c)
    BY <1>4
  <2>2. PICK q \in [does : Remaining, version : Uploads] :
          /\ calls' = [calls EXCEPT ![c] = q]
          /\ q.does \in {ConfirmSteps, DeleteSteps} \/ (q.does = DownloadSteps /\ q.version \in Kept)
    <3>1. CASE \E v \in Uploads, steps \in {ConfirmSteps, DeleteSteps} :
                 calls' = [calls EXCEPT ![c] = [does |-> steps, version |-> v]]
      <4>1. ConfirmSteps \in Remaining /\ DeleteSteps \in Remaining
        BY Zenon DEF ConfirmSteps, DeleteSteps, Remaining
      <4>2. PICK v \in Uploads, steps \in {ConfirmSteps, DeleteSteps} :
              calls' = [calls EXCEPT ![c] = [does |-> steps, version |-> v]]
        BY <3>1, Zenon
      <4>3. [does |-> steps, version |-> v] \in [does : Remaining, version : Uploads]
        BY <4>1
      <4> QED
        BY <4>2, <4>3
    <3>2. CASE NewestConfirmed # 0
               /\ calls' = [calls EXCEPT ![c] = [does |-> DownloadSteps, version |-> NewestConfirmed]]
      <4>1. NewestConfirmed \in Uploads /\ NewestConfirmed \in Kept
        BY <3>2, NewestIsConfirmed DEF ResumesIInv, RowsSound
      <4>2. [does |-> DownloadSteps, version |-> NewestConfirmed] \in [does : Remaining, version : Uploads]
        BY <4>1 DEF DownloadSteps, Remaining
      <4> QED
        BY <3>2, <4>1, <4>2
    <3> QED
      BY <2>1, <3>1, <3>2 DEF CallStarts
  <2>3. calls' \in [ResumeCalls -> [does : Remaining, version : Uploads]]
        /\ calls'[c] = q /\ \A d \in ResumeCalls : d # c => calls'[d] = calls[d]
    BY <2>2 DEF ResumesIInv
  <2>4. UNCHANGED <<resumes, uploaded, good, erased>>
    BY <2>1 DEF CallStarts
  <2>5. q.does \in {ConfirmSteps, DeleteSteps} \/ (q.does = <<"get">> /\ q.version \in Kept)
    BY <2>2 DEF DownloadSteps
  <2>6. CallsSound'
    BY <2>3, <2>4, <2>5, CallsGoOn, Zenon DEF Kept
  <2> QED
    BY <2>3, <2>4, <2>6 DEF ResumesIInv, RowsSound, Kept
<1>5. CASE \E c \in ResumeCalls : Heads(c)
  <2>1. PICK c \in ResumeCalls : Heads(c)
    BY <1>5
  <2>2. UNCHANGED <<resumes, uploaded, good, erased>> /\ At(c, "head")
    BY <2>1 DEF Heads
  <2>3. CallsSound' /\ calls' \in [ResumeCalls -> [does : Remaining, version : Uploads]]
    <3>1. CASE HeadFinds(calls[c].version) /\ Proceeds(c)
      BY <2>2, <3>1, ProceedsSound DEF HeadFinds, Kept
    <3>2. CASE Ended(c)
      BY <2>2, <3>2, EndedSound DEF Kept
    <3> QED
      BY <2>1, <3>1, <3>2 DEF Heads
  <2> QED
    BY <2>2, <2>3 DEF ResumesIInv, RowsSound, Kept
<1>6. CASE \E c \in ResumeCalls : Stamps(c)
  <2>1. PICK c \in ResumeCalls : Stamps(c)
    BY <1>6
  <2>2. UNCHANGED <<uploaded, good, erased>> /\ At(c, "stamp") /\ Proceeds(c)
    BY <2>1 DEF Stamps
  <2>3. CallsSound' /\ calls' \in [ResumeCalls -> [does : Remaining, version : Uploads]]
    BY <2>2, ProceedsSound DEF Kept
  <2>4. calls[c].version \in Uploads /\ calls[c].version \in Kept
    BY <2>2, AtChain DEF ResumesIInv, CallsSound
  <2>5. RowsSound' /\ resumes' \in [Uploads -> {"unborn", "pending", "confirmed", "deleted"}]
    BY <2>1, <2>2, <2>4 DEF Stamps, RowStands, ResumesIInv, RowsSound, Kept
  <2> QED
    BY <2>2, <2>3, <2>5 DEF ResumesIInv
<1>7. CASE \E c \in ResumeCalls : DeletesObject(c)
  <2>1. PICK c \in ResumeCalls : DeletesObject(c)
    BY <1>7
  <2>2. /\ At(c, "del object") /\ Proceeds(c)
        /\ uploaded' = uploaded \ {calls[c].version} /\ erased' = erased \cup {calls[c].version}
        /\ UNCHANGED <<resumes, good>> /\ calls[c].version \in Uploads
    BY <2>1 DEF DeletesObject, ResumesIInv
  <2>3. Kept \subseteq Kept' /\ erased \subseteq erased' /\ calls[c].version \in erased'
    BY <2>2 DEF Kept
  <2>4. CallsSound' /\ calls' \in [ResumeCalls -> [does : Remaining, version : Uploads]]
    BY <2>2, <2>3, ProceedsSound
  <2> QED
    BY <2>2, <2>3, <2>4 DEF ResumesIInv, RowsSound
<1>8. CASE \E c \in ResumeCalls : DeletesRow(c)
  <2>1. PICK c \in ResumeCalls : DeletesRow(c)
    BY <1>8
  <2>2. /\ At(c, "del row") /\ Proceeds(c)
        /\ resumes' = [resumes EXCEPT ![calls[c].version] = "deleted"]
        /\ UNCHANGED <<uploaded, good, erased>> /\ calls[c].version \in Uploads
    BY <2>1 DEF DeletesRow, ResumesIInv
  <2>3. CallsSound' /\ calls' \in [ResumeCalls -> [does : Remaining, version : Uploads]]
    BY <2>2, ProceedsSound DEF Kept
  <2>4. calls[c].version \in erased
    BY <2>2, AtChain DEF ResumesIInv, CallsSound
  <2> QED
    BY <2>2, <2>3, <2>4 DEF ResumesIInv, RowsSound, Kept
<1>9. CASE \E c \in ResumeCalls : Downloaded(c)
  <2>1. PICK c \in ResumeCalls : Downloaded(c)
    BY <1>9
  <2>2. UNCHANGED <<resumes, uploaded, good, erased>> /\ At(c, "get") /\ Proceeds(c)
    BY <2>1 DEF Downloaded
  <2>3. CallsSound' /\ calls' \in [ResumeCalls -> [does : Remaining, version : Uploads]]
    BY <2>2, ProceedsSound DEF Kept
  <2> QED
    BY <2>2, <2>3 DEF ResumesIInv, RowsSound, Kept
<1>10. CASE \E c \in ResumeCalls : CallFails(c)
  <2>1. PICK c \in ResumeCalls : CallFails(c)
    BY <1>10
  <2>2. UNCHANGED <<resumes, uploaded, good, erased>> /\ Ended(c)
    BY <2>1 DEF CallFails
  <2>3. CallsSound' /\ calls' \in [ResumeCalls -> [does : Remaining, version : Uploads]]
    BY <2>2, EndedSound DEF Kept
  <2> QED
    BY <2>2, <2>3 DEF ResumesIInv, RowsSound, Kept
<1>11. CASE UNCHANGED resumeVars
  BY <1>11 DEF resumeVars, ResumesIInv, RowsSound, CallsSound, Kept
<1> QED
  BY <1>1, <1>2, <1>3, <1>4, <1>5, <1>6, <1>7, <1>8, <1>9, <1>10, <1>11 DEF ResumesNext

\* The inductive invariant of the resume versions.
THEOREM ResumesInvariant == ResumesSpec => []ResumesIInv
<1> QED
  BY ResumesInitInv, ResumesStep, PTL DEF ResumesSpec

\* The version that is linked to, and the one a download is about to read, have
\* their object unless it was deleted.
THEOREM ServedStays == ResumesSpec => []ServedIsThere
<1>1. ResumesIInv => ServedIsThere
  <2> SUFFICES ASSUME ResumesIInv,
                      NEW v \in ({NewestConfirmed} \ {0})
                                \cup {calls[c].version : c \in {d \in ResumeCalls : At(d, "get")}}
               PROVE  v \in Kept
    BY DEF ServedIsThere, Kept
  <2>1. CASE v \in {NewestConfirmed} \ {0}
    BY <2>1, NewestIsConfirmed DEF ResumesIInv, RowsSound
  <2>2. CASE \E c \in ResumeCalls : At(c, "get") /\ v = calls[c].version
    <3>1. PICK c \in ResumeCalls : At(c, "get") /\ v = calls[c].version
      BY <2>2
    <3> QED
      BY <3>1, AtChain DEF ResumesIInv, CallsSound
  <2> QED
    BY <2>1, <2>2
<1> QED
  BY <1>1, ResumesInvariant, PTL

\* No delete, however it is interrupted, leaves an object without its row.
THEOREM NoneLeftBehind == ResumesSpec => []NothingLeftBehind
<1>1. ResumesIInv => NothingLeftBehind
  <2> SUFFICES ASSUME ResumesIInv, NEW v \in uploaded, ~RowStands(v) PROVE v \in erased
    BY DEF NothingLeftBehind
  <2>1. v \in Uploads /\ resumes[v] \in {"unborn", "deleted"}
    BY DEF ResumesIInv, RowStands
  <2> QED
    BY <2>1 DEF ResumesIInv, RowsSound
<1> QED
  BY <1>1, ResumesInvariant, PTL

(***************************************************************************)
(* The reports of the ops page: days, copies and the process that builds   *)
(* them.                                                                   *)
(***************************************************************************)
LEMMA Starts ==
  ASSUME NEW d \in Int, NEW e \in Int
  PROVE  /\ Start(d) \in Int /\ Start(d + 1) = Start(d) + DayLength /\ DayLength \in Nat \ {0}
         /\ d <= e => Start(d) <= Start(e)
<1>1. DayLength \in Nat \ {0}
  BY OpsAssumption
<1>2. Start(d) \in Int /\ Start(e) \in Int /\ Start(d + 1) = Start(d) + DayLength
  BY <1>1 DEF Start
<1>3. ASSUME d <= e PROVE Start(d) <= Start(e)
  <2> DEFINE k == e - d
  <2>1. k \in Nat /\ e = d + k
    BY <1>3
  <2>2. k * DayLength \in Nat
    BY <1>1, <2>1
  <2>3. e * DayLength = d * DayLength + k * DayLength
    BY <1>1, <2>1
  <2> HIDE DEF k
  <2> QED
    BY <1>1, <1>2, <2>2, <2>3 DEF Start
<1> QED
  BY <1>1, <1>2, <1>3

LEMMA DayParts ==
  ASSUME NEW t \in Nat
  PROVE  /\ Day(t) \in Nat /\ Start(Day(t)) <= t /\ t < Start(Day(t)) + DayLength
         /\ t % DayLength = t - Start(Day(t))
BY OpsAssumption DEF Day, Start

LEMMA DayIsOnly ==
  ASSUME NEW t \in Nat, NEW d \in Int, Start(d) <= t, t < Start(d) + DayLength
  PROVE  Day(t) = d
<1>1. Day(t) \in Nat /\ Start(Day(t)) <= t /\ t < Start(Day(t)) + DayLength
  BY DayParts
<1>2. CASE d + 1 <= Day(t)
  <2>1. Start(d + 1) <= Start(Day(t)) /\ Start(d + 1) = Start(d) + DayLength
    BY <1>1, <1>2, Starts
  <2> QED
    BY <1>1, <2>1, Starts
<1>3. CASE Day(t) + 1 <= d
  <2>1. Start(Day(t) + 1) <= Start(d) /\ Start(Day(t) + 1) = Start(Day(t)) + DayLength
    BY <1>1, <1>3, Starts
  <2> QED
    BY <1>1, <2>1, Starts
<1> QED
  BY <1>1, <1>2, <1>3


LEMMA Boundary ==
  ASSUME NEW t \in Nat, DayLength <= t
  PROVE  /\ Expected(t) \in Int
         /\ UntilBoundary(t) \in Nat \ {0} /\ t + UntilBoundary(t) = DueAt(Expected(t) + 1)
<1> DEFINE j == Day(t)
           k == Day(t - BuildMargin)
<1>1. /\ DayLength \in Nat \ {0} /\ BuildMargin \in Nat /\ BuildMargin < DayLength
      /\ t - BuildMargin \in Nat
  BY OpsAssumption
<1>2. j \in Nat /\ Start(j) <= t /\ t < Start(j) + DayLength /\ Start(j) \in Int
  BY DayParts, Starts
<1>3. k \in Nat /\ Start(k) <= t - BuildMargin /\ t - BuildMargin < Start(k) + DayLength
      /\ Start(k) \in Int
  BY <1>1, DayParts, Starts
<1>4. Expected(t) = k - 1 /\ DueAt(Expected(t) + 1) = Start(k) + DayLength + BuildMargin
  <2>1. Expected(t) = k - 1 /\ Expected(t) + 1 + 1 = k + 1
    BY <1>3 DEF Expected
  <2>2. Start(k + 1) = Start(k) + DayLength
    BY <1>3, Starts
  <2> QED
    BY <2>1, <2>2 DEF DueAt
<1>5. UntilBoundary(t) = (IF t < Start(j) + BuildMargin THEN Start(j) + BuildMargin
                          ELSE Start(j) + BuildMargin + DayLength) - t
  BY DEF UntilBoundary
<1> HIDE DEF j, k
<1>6. CASE t < Start(j) + BuildMargin
  <2>1. Start(j - 1) \in Int /\ Start(j) = Start(j - 1) + DayLength
    <3>1. j - 1 \in Int /\ (j - 1) + 1 = j
      BY <1>2
    <3> QED
      BY <3>1, Starts
  <2>2. k = j - 1
    BY <1>1, <1>2, <1>6, <2>1, DayIsOnly DEF k
  <2> QED
    BY <1>1, <1>2, <1>3, <1>4, <1>5, <1>6, <2>1, <2>2
<1>7. CASE ~(t < Start(j) + BuildMargin)
  <2>1. k = j
    BY <1>1, <1>2, <1>7, DayIsOnly DEF k
  <2> QED
    BY <1>1, <1>2, <1>3, <1>4, <1>5, <1>7, <2>1
<1> QED
  BY <1>6, <1>7

\* What a request that looks for yesterday's report knows: the day is over, and
\* the margin too.
LEMMA YesterdayIsOver ==
  ASSUME NEW t \in Nat, PastMargin(t)
  PROVE  DueAt(Day(t) - 1) <= t
<1>1. /\ Day(t) \in Nat /\ t % DayLength = t - Start(Day(t))
      /\ Start(Day(t)) \in Int /\ BuildMargin \in Nat
  BY DayParts, Starts, OpsAssumption
<1>2. (Day(t) - 1) + 1 = Day(t)
  BY <1>1
<1> QED
  BY <1>1, <1>2 DEF PastMargin, DueAt

-----------------------------------------------------------------------------
\* A request is in time, and one that looks or waits came past the margin.
VisitsInTime ==
  \A r \in OpsRequests : visit[r].at # "idle" =>
    /\ DayLength <= visit[r].since /\ visit[r].since <= now /\ now <= visit[r].since + Patience
    /\ visit[r].at # "read" => PastMargin(visit[r].since)

\* A build is of a day that is over, by the margin; once fetched it is whole.
BuildsInTime ==
  \A i \in OpsInstances, d \in Days :
    /\ building[i][d].at # "none" => DueAt(d) <= now
    /\ building[i][d].at \in {"insert", "stored"} => building[i][d].whole

\* When a copy ends, by each report that is newer.
CopyEnds ==
  copy # NoReport =>
    \A d \in Days : d > copy.day =>
      \/ copy.expires <= DueAt(d) + BoundaryBuffer + Patience
      \/ copy.expires <= (IF report[d] = NoReport THEN now ELSE report[d].stored) + ShortAge

OpsIInv == OpsTypeOK /\ DayLength <= now /\ VisitsInTime /\ BuildsInTime /\ WholeDays /\ CopyEnds


VisitRecords ==
  [at : {"idle", "lookup", "missing", "await", "read"}, inst : OpsInstances, since : Nat]
BuildRecords == [at : {"none", "fetch", "insert", "stored"}, whole : BOOLEAN]

LEMMA Initially ==
  Gone \in VisitRecords /\ Gone.at = "idle" /\ NoBuild \in BuildRecords /\ NoBuild.at = "none"
<1>1. (CHOOSE i \in OpsInstances : TRUE) \in OpsInstances
  BY OpsAssumption
<1> QED
  BY <1>1 DEF Gone, NoBuild, VisitRecords, BuildRecords

\* The newest stored report.
LEMMA NewestIsNewest ==
  ASSUME Stored # {}
  PROVE  Newest \in Stored /\ \A d \in Stored : d <= Newest
<1>1. LastDay \in Nat /\ Stored \subseteq 0..LastDay
  BY OpsAssumption DEF Stored, Days
<1>2. \E d \in Stored : \A e \in Stored : e <= d
  BY <1>1, Greatest
<1> QED
  BY <1>2 DEF Newest

\* Whoever waits for a build goes on in time.
LEMMA ReleasedInTime ==
  ASSUME OpsIInv, NEW i \in OpsInstances, NEW d \in Days, NEW at \in {"read", "idle"},
         visit' = Released(i, d, at), now' = now
  PROVE  visit' \in [OpsRequests -> VisitRecords] /\ VisitsInTime'
<1>1. visit \in [OpsRequests -> VisitRecords]
  BY DEF OpsIInv, OpsTypeOK, VisitRecords
<1>2. ASSUME NEW r \in OpsRequests
      PROVE  /\ visit'[r] \in VisitRecords
             /\ \/ visit'[r] = visit[r]
                \/ visit'[r].at = "idle"
                \/ visit[r].at = "await" /\ visit'[r].at = "read" /\ visit'[r].since = visit[r].since
  <2>1. visit[r] \in VisitRecords
    BY <1>1
  <2>2. [visit[r] EXCEPT !.at = at] \in VisitRecords /\ [visit[r] EXCEPT !.at = at].since = visit[r].since
        /\ [visit[r] EXCEPT !.at = at].at = at
    BY <2>1 DEF VisitRecords
  <2>3. visit'[r] = IF visit[r].at = "await" /\ visit[r].inst = i /\ Yesterday(r) = d
                      THEN IF at = "idle" THEN Gone ELSE [visit[r] EXCEPT !.at = at]
                      ELSE visit[r]
    BY DEF Released
  <2> QED
    BY <2>1, <2>2, <2>3, Initially
<1>3. visit' \in [OpsRequests -> VisitRecords]
  <2>1. visit' = [r \in OpsRequests |-> visit'[r]]
    BY DEF Released
  <2> QED
    BY <1>2, <2>1
<1>4. VisitsInTime'
  <2> SUFFICES ASSUME NEW r \in OpsRequests, visit'[r].at # "idle"
               PROVE  /\ DayLength <= visit'[r].since /\ visit'[r].since <= now
                      /\ now <= visit'[r].since + Patience
                      /\ visit'[r].at # "read" => PastMargin(visit'[r].since)
    BY DEF VisitsInTime, PastMargin
  <2>1. CASE visit'[r] = visit[r]
    BY <2>1 DEF OpsIInv, VisitsInTime
  <2>2. CASE visit[r].at = "await" /\ visit'[r].at = "read" /\ visit'[r].since = visit[r].since
    BY <2>2 DEF OpsIInv, VisitsInTime
  <2> QED
    BY <1>2, <2>1, <2>2
<1> QED
  BY <1>3, <1>4

\* The other parts, while no report and no copy is written and time stands still.
LEMMA ReportsStand ==
  ASSUME OpsIInv, UNCHANGED <<now, report, copy>>
  PROVE  WholeDays' /\ CopyEnds' /\ DayLength <= now'
BY DEF OpsIInv, WholeDays, CopyEnds, DueAt, Start

LEMMA OpsInitInv == OpsInit => OpsIInv
<1> SUFFICES ASSUME OpsInit PROVE OpsIInv
  OBVIOUS
<1>1. now = Start(1) /\ Start(1) = DayLength /\ DayLength \in Nat \ {0}
  BY OpsAssumption DEF OpsInit, Start
<1>2. Start(LastDay + 1) = Start(LastDay) + DayLength /\ Start(1) <= Start(LastDay)
      /\ Start(LastDay) \in Int
  <2>1. LastDay \in Int /\ 1 <= LastDay
    BY OpsAssumption
  <2> QED
    BY <2>1, Starts
<1>3. OpsTypeOK
  BY <1>1, <1>2, Initially DEF OpsInit, OpsTypeOK, VisitRecords, BuildRecords
<1>4. VisitsInTime /\ BuildsInTime
  BY Initially DEF OpsInit, VisitsInTime, BuildsInTime
<1> QED
  BY <1>1, <1>3, <1>4 DEF OpsInit, OpsIInv, WholeDays, CopyEnds

LEMMA VisitInv ==
  ASSUME OpsIInv, NEW r \in OpsRequests, NEW i \in OpsInstances, Visit(r, i)
  PROVE  OpsIInv'
<1>1. PICK w : w = [at |-> IF PastMargin(now) THEN "lookup" ELSE "read", inst |-> i, since |-> now]
  OBVIOUS
<1>2. visit' = [visit EXCEPT ![r] = w] /\ UNCHANGED <<now, report, building, copy>>
  BY <1>1 DEF Visit
<1>3. now \in Nat /\ Patience \in Nat
  BY OpsAssumption DEF OpsIInv, OpsTypeOK
<1>4. w \in VisitRecords /\ w.since = now /\ (w.at # "read" => PastMargin(now))
  BY <1>1, <1>3 DEF VisitRecords
<1>5. visit \in [OpsRequests -> VisitRecords]
  BY DEF OpsIInv, OpsTypeOK, VisitRecords
<1>6. visit' \in [OpsRequests -> VisitRecords] /\ OpsTypeOK'
  BY <1>2, <1>4, <1>5 DEF OpsIInv, OpsTypeOK, VisitRecords
<1>7. VisitsInTime'
  BY <1>2, <1>3, <1>4, <1>5 DEF OpsIInv, VisitsInTime, PastMargin
<1>8. BuildsInTime'
  BY <1>2 DEF OpsIInv, BuildsInTime, DueAt, Start
<1> QED
  BY <1>2, <1>6, <1>7, <1>8, ReportsStand DEF OpsIInv

LEMMA LooksUpInv ==
  ASSUME OpsIInv, NEW r \in OpsRequests, LooksUp(r)
  PROVE  OpsIInv'
<1>1. PICK at \in {"missing", "read"} : visit' = [visit EXCEPT ![r].at = at]
  BY DEF LooksUp
<1>2. visit[r].at = "lookup" /\ UNCHANGED <<now, report, building, copy>>
  BY DEF LooksUp
<1>3. visit \in [OpsRequests -> VisitRecords]
  BY DEF OpsIInv, OpsTypeOK, VisitRecords
<1>4. PICK w \in VisitRecords : w = [visit[r] EXCEPT !.at = at]
  BY <1>3 DEF VisitRecords
<1>5. w.since = visit[r].since /\ visit' = [visit EXCEPT ![r] = w]
  BY <1>1, <1>3, <1>4 DEF VisitRecords
<1>6. visit' \in [OpsRequests -> VisitRecords] /\ OpsTypeOK'
  BY <1>2, <1>3, <1>5 DEF OpsIInv, OpsTypeOK, VisitRecords
<1>7. VisitsInTime'
  BY <1>2, <1>3, <1>5 DEF OpsIInv, VisitsInTime, PastMargin
<1>8. BuildsInTime'
  BY <1>2 DEF OpsIInv, BuildsInTime, DueAt, Start
<1> QED
  BY <1>2, <1>6, <1>7, <1>8, ReportsStand DEF OpsIInv

LEMMA JoinsOrBuildsInv ==
  ASSUME OpsIInv, NEW r \in OpsRequests, JoinsOrBuilds(r)
  PROVE  OpsIInv'
<1> DEFINE y == Yesterday(r)
           n == visit[r].inst
<1>1. /\ visit[r].at = "missing" /\ UNCHANGED <<now, report, copy>>
      /\ visit' = [visit EXCEPT ![r].at = "await"]
      /\ building' = [building EXCEPT ![n][y] =
                        IF @.at = "none" THEN [NoBuild EXCEPT !.at = "fetch"] ELSE @]
  BY DEF JoinsOrBuilds
<1>2. visit \in [OpsRequests -> VisitRecords] /\ building \in [OpsInstances -> [Days -> BuildRecords]]
  BY DEF OpsIInv, OpsTypeOK, VisitRecords, BuildRecords
<1>3. PICK w \in VisitRecords : w = [visit[r] EXCEPT !.at = "await"]
  BY <1>2 DEF VisitRecords
<1>4. w.since = visit[r].since /\ visit' = [visit EXCEPT ![r] = w]
  BY <1>1, <1>2, <1>3 DEF VisitRecords
<1>5. visit' \in [OpsRequests -> VisitRecords]
  BY <1>2, <1>4
<1>6. VisitsInTime'
  BY <1>1, <1>2, <1>4 DEF OpsIInv, VisitsInTime, PastMargin
<1>7. DueAt(y) <= now
  <2>1. visit[r].since \in Nat /\ PastMargin(visit[r].since) /\ visit[r].since <= now
    BY <1>1, <1>2 DEF OpsIInv, VisitsInTime, VisitRecords
  <2>2. DueAt(y) <= visit[r].since /\ DueAt(y) \in Int /\ now \in Int
    <3>1. Day(visit[r].since) \in Int
      BY <2>1, DayParts
    <3>2. Start(Day(visit[r].since)) \in Int /\ Day(visit[r].since) - 1 + 1 = Day(visit[r].since)
      BY <3>1, Starts
    <3> QED
      BY <2>1, <3>2, YesterdayIsOver, OpsAssumption DEF Yesterday, DueAt, OpsIInv, OpsTypeOK
  <2> QED
    BY <2>1, <2>2
<1>8. PICK b \in BuildRecords : b = [NoBuild EXCEPT !.at = "fetch"]
  BY Initially DEF BuildRecords
<1>9. b.at = "fetch"
  BY <1>8, Initially DEF BuildRecords
<1> HIDE DEF y, n
<1>10. n \in OpsInstances
  BY <1>2 DEF n, VisitRecords
<1>11. building' \in [OpsInstances -> [Days -> BuildRecords]]
       /\ \A i \in OpsInstances, d \in Days :
            building'[i][d] = building[i][d] \/ (d = y /\ building'[i][d] = b)
  <2>1. CASE y \in Days
    BY <1>1, <1>2, <1>8, <1>10, <2>1
  <2>2. CASE y \notin Days
    <3>1. building' = building
      BY <1>1, <1>2, <1>10, <2>2
    <3> QED
      BY <1>2, <3>1
  <2> QED
    BY <2>1, <2>2
<1>12. BuildsInTime'
  <2> SUFFICES ASSUME NEW i \in OpsInstances, NEW d \in Days
               PROVE  /\ building'[i][d].at # "none" => DueAt(d) <= now
                      /\ building'[i][d].at \in {"insert", "stored"} => building'[i][d].whole
    BY <1>1 DEF BuildsInTime, DueAt, Start
  <2>1. CASE building'[i][d] = building[i][d]
    BY <2>1 DEF OpsIInv, BuildsInTime
  <2>2. CASE d = y /\ building'[i][d] = b
    BY <1>7, <1>9, <2>2
  <2> QED
    BY <1>11, <2>1, <2>2
<1>13. OpsTypeOK'
  BY <1>1, <1>5, <1>11 DEF OpsIInv, OpsTypeOK, VisitRecords, BuildRecords
<1> QED
  BY <1>1, <1>6, <1>12, <1>13, ReportsStand DEF OpsIInv

\* A build of a day that is over goes on to b.
LEMMA BuildGoesOn ==
  ASSUME OpsIInv, NEW i \in OpsInstances, NEW d \in Days, NEW b \in BuildRecords,
         building' = [building EXCEPT ![i][d] = b],
         b.at # "none" => DueAt(d) <= now,
         b.at \in {"insert", "stored"} => b.whole, now' = now
  PROVE  building' \in [OpsInstances -> [Days -> BuildRecords]] /\ BuildsInTime'
<1>1. building \in [OpsInstances -> [Days -> BuildRecords]]
  BY DEF OpsIInv, OpsTypeOK, BuildRecords
<1>2. building' \in [OpsInstances -> [Days -> BuildRecords]]
      /\ \A j \in OpsInstances, e \in Days :
           (building'[j][e] = building[j][e]) \/ (e = d /\ building'[j][e] = b)
  BY <1>1
<1>3. BuildsInTime'
  <2> SUFFICES ASSUME NEW j \in OpsInstances, NEW e \in Days
               PROVE  /\ building'[j][e].at # "none" => DueAt(e) <= now
                      /\ building'[j][e].at \in {"insert", "stored"} => building'[j][e].whole
    BY DEF BuildsInTime, DueAt, Start
  <2>1. CASE building'[j][e] = building[j][e]
    BY <2>1 DEF OpsIInv, BuildsInTime
  <2>2. CASE e = d /\ building'[j][e] = b
    BY <2>2
  <2> QED
    BY <1>2, <2>1, <2>2
<1> QED
  BY <1>2, <1>3

LEMMA FetchesInv ==
  ASSUME OpsIInv, NEW i \in OpsInstances, NEW d \in Days, Fetches(i, d)
  PROVE  OpsIInv'
<1>1. building[i][d].at = "fetch" /\ UNCHANGED <<now, report, copy>>
  BY DEF Fetches
<1>2. building[i][d] \in BuildRecords /\ DueAt(d) <= now /\ now \in Int
  BY <1>1 DEF OpsIInv, OpsTypeOK, BuildRecords, BuildsInTime
<1>3. CASE building' = [building EXCEPT ![i][d] =
                          [@ EXCEPT !.at = "insert", !.whole = now >= Start(d + 1) + Late]]
           /\ UNCHANGED visit
  <2>1. now >= Start(d + 1) + Late
    <3>1. d + 1 \in Int
      BY DEF Days
    <3>2. Start(d + 1) \in Int /\ Late \in Int /\ BuildMargin \in Int /\ Late <= BuildMargin
      BY <3>1, Starts, OpsAssumption
    <3> QED
      BY <1>2, <3>2 DEF DueAt
  <2>2. PICK b \in BuildRecords : b = [at |-> "insert", whole |-> TRUE]
    BY DEF BuildRecords
  <2>3. building' = [building EXCEPT ![i][d] = b]
    BY <1>2, <1>3, <2>1, <2>2 DEF BuildRecords
  <2>4. building' \in [OpsInstances -> [Days -> BuildRecords]] /\ BuildsInTime'
    BY <1>1, <1>2, <2>2, <2>3, BuildGoesOn
  <2>5. VisitsInTime' /\ OpsTypeOK'
    BY <1>1, <1>3, <2>4 DEF OpsIInv, OpsTypeOK, BuildRecords, VisitsInTime, PastMargin
  <2> QED
    BY <1>1, <2>4, <2>5, ReportsStand DEF OpsIInv
<1>4. CASE building' = [building EXCEPT ![i][d] = NoBuild] /\ visit' = Released(i, d, "read")
  <2>1. building' \in [OpsInstances -> [Days -> BuildRecords]] /\ BuildsInTime'
    BY <1>1, <1>4, Initially, BuildGoesOn
  <2>2. visit' \in [OpsRequests -> VisitRecords] /\ VisitsInTime'
    BY <1>1, <1>4, ReleasedInTime
  <2>3. OpsTypeOK'
    BY <1>1, <2>1, <2>2 DEF OpsIInv, OpsTypeOK, BuildRecords, VisitRecords
  <2> QED
    BY <1>1, <2>1, <2>2, <2>3, ReportsStand DEF OpsIInv
<1> QED
  BY <1>3, <1>4 DEF Fetches

LEMMA InsertsInv ==
  ASSUME OpsIInv, NEW i \in OpsInstances, NEW d \in Days, Inserts(i, d)
  PROVE  OpsIInv'
<1>1. building[i][d].at = "insert" /\ UNCHANGED <<now, copy>>
  BY DEF Inserts
<1>2. building[i][d] \in BuildRecords /\ building[i][d].whole = TRUE /\ DueAt(d) <= now
      /\ now \in Nat
  BY <1>1 DEF OpsIInv, OpsTypeOK, BuildRecords, BuildsInTime
<1>3. CASE /\ report' = [report EXCEPT ![d] = Inserted(d, [whole |-> building[i][d].whole, stored |-> now])]
           /\ building' = [building EXCEPT ![i][d].at = "stored"]
           /\ UNCHANGED visit
  <2>1. PICK b \in BuildRecords : b = [building[i][d] EXCEPT !.at = "stored"]
    BY <1>2 DEF BuildRecords
  <2>2. b.at = "stored" /\ b.whole /\ building' = [building EXCEPT ![i][d] = b]
    BY <1>2, <1>3, <2>1 DEF BuildRecords, OpsIInv, OpsTypeOK
  <2>3. building' \in [OpsInstances -> [Days -> BuildRecords]] /\ BuildsInTime'
    BY <1>1, <1>2, <2>2, BuildGoesOn
  <2>4. PICK r \in [whole : BOOLEAN, stored : Nat] : r = [whole |-> TRUE, stored |-> now]
    BY <1>2
  <2>5. report' = [report EXCEPT ![d] = IF report[d] = NoReport THEN r ELSE report[d]]
    BY <1>2, <1>3, <2>4 DEF Inserted
  <2>6. /\ report' \in [Days -> [whole : BOOLEAN, stored : Nat] \cup {NoReport}]
        /\ \A e \in Days :
             (report'[e] = report[e]) \/ (report[e] = NoReport /\ report'[e] = r)
    BY <2>5 DEF OpsIInv, OpsTypeOK
  <2>7. WholeDays'
    BY <2>4, <2>6 DEF OpsIInv, WholeDays
  <2>8. CopyEnds'
    <3> SUFFICES ASSUME copy # NoReport, NEW e \in Days, e > copy.day
                 PROVE  \/ copy.expires <= DueAt(e) + BoundaryBuffer + Patience
                        \/ copy.expires <= (IF report'[e] = NoReport THEN now ELSE report'[e].stored)
                                             + ShortAge
      BY <1>1 DEF CopyEnds, DueAt, Start
    <3>1. CASE report'[e] = report[e]
      BY <3>1 DEF OpsIInv, CopyEnds
    <3>2. CASE report[e] = NoReport /\ report'[e] = r
      BY <2>4, <3>2 DEF OpsIInv, CopyEnds
    <3> QED
      BY <2>6, <3>1, <3>2
  <2>9. VisitsInTime' /\ OpsTypeOK'
    BY <1>1, <1>3, <2>3, <2>6 DEF OpsIInv, OpsTypeOK, BuildRecords, VisitsInTime, PastMargin
  <2> QED
    BY <1>1, <2>3, <2>7, <2>8, <2>9 DEF OpsIInv
<1>4. CASE /\ building' = [building EXCEPT ![i][d] = NoBuild] /\ visit' = Released(i, d, "idle")
           /\ UNCHANGED report
  <2>1. building' \in [OpsInstances -> [Days -> BuildRecords]] /\ BuildsInTime'
    BY <1>1, <1>4, Initially, BuildGoesOn
  <2>2. visit' \in [OpsRequests -> VisitRecords] /\ VisitsInTime'
    BY <1>1, <1>4, ReleasedInTime
  <2>3. OpsTypeOK'
    BY <1>1, <1>4, <2>1, <2>2 DEF OpsIInv, OpsTypeOK, BuildRecords, VisitRecords
  <2> QED
    BY <1>1, <1>4, <2>1, <2>2, <2>3, ReportsStand DEF OpsIInv
<1> QED
  BY <1>3, <1>4 DEF Inserts

LEMMA BuildReturnsInv ==
  ASSUME OpsIInv, NEW i \in OpsInstances, NEW d \in Days, BuildReturns(i, d)
  PROVE  OpsIInv'
<1>1. building' = [building EXCEPT ![i][d] = NoBuild] /\ visit' = Released(i, d, "read")
      /\ UNCHANGED <<now, report, copy>>
  BY DEF BuildReturns
<1>2. building' \in [OpsInstances -> [Days -> BuildRecords]] /\ BuildsInTime'
  BY <1>1, Initially, BuildGoesOn
<1>3. visit' \in [OpsRequests -> VisitRecords] /\ VisitsInTime'
  BY <1>1, ReleasedInTime
<1>4. OpsTypeOK'
  BY <1>1, <1>2, <1>3 DEF OpsIInv, OpsTypeOK, BuildRecords, VisitRecords
<1> QED
  BY <1>1, <1>2, <1>3, <1>4, ReportsStand DEF OpsIInv

\* The max-age: a copy of the report that is expected ends soon after the next is
\* due, any other copy soon.
LEMMA MaxAgeEnds ==
  ASSUME NEW t \in Nat, DayLength <= t, NEW d \in Days
  PROVE  /\ MaxAge(t, d) \in Nat
         /\ \/ MaxAge(t, d) <= ShortAge
            \/ \A e \in Days : e > d => t + MaxAge(t, d) <= DueAt(e) + BoundaryBuffer
<1>1. /\ Expected(t) \in Int /\ UntilBoundary(t) \in Nat
      /\ t + UntilBoundary(t) = DueAt(Expected(t) + 1)
  BY Boundary
<1>2. ShortAge \in Nat /\ BoundaryBuffer \in Nat /\ BuildMargin \in Nat
  BY OpsAssumption
<1>3. CASE d = Expected(t)
  <2>1. MaxAge(t, d) = UntilBoundary(t) + BoundaryBuffer
    BY <1>3 DEF MaxAge
  <2>2. ASSUME NEW e \in Days, e > d PROVE DueAt(d + 1) <= DueAt(e) /\ DueAt(e) \in Int /\ DueAt(d + 1) \in Int
    <3>1. d \in Int /\ e \in Int /\ d + 1 <= e
      BY <2>2 DEF Days
    <3>2. /\ Start((d + 1) + 1) = Start(d + 1) + DayLength /\ Start(e + 1) = Start(e) + DayLength
          /\ Start(d + 1) <= Start(e) /\ Start(d + 1) \in Int /\ Start(e) \in Int
          /\ DayLength \in Int
      BY <3>1, Starts
    <3> QED
      BY <1>2, <3>2 DEF DueAt
  <2> QED
    BY <1>1, <1>2, <1>3, <2>1, <2>2
<1>4. CASE d # Expected(t)
  BY <1>1, <1>2, <1>4 DEF MaxAge
<1> QED
  BY <1>3, <1>4

LEMMA ServesInv ==
  ASSUME OpsIInv, NEW r \in OpsRequests, Serves(r)
  PROVE  OpsIInv'
<1>1. visit[r].at = "read" /\ visit' = [visit EXCEPT ![r] = Gone] /\ UNCHANGED <<now, report, building>>
  BY DEF Serves
<1>2. visit \in [OpsRequests -> VisitRecords]
  BY DEF OpsIInv, OpsTypeOK, VisitRecords
<1>3. visit' \in [OpsRequests -> VisitRecords] /\ VisitsInTime'
  BY <1>1, <1>2, Initially DEF OpsIInv, VisitsInTime, PastMargin
<1>4. BuildsInTime'
  BY <1>1 DEF OpsIInv, BuildsInTime, DueAt, Start
<1>5. WholeDays' /\ DayLength <= now'
  BY <1>1 DEF OpsIInv, WholeDays
<1>6. CASE UNCHANGED copy
  <2>1. OpsTypeOK'
    BY <1>1, <1>3, <1>6 DEF OpsIInv, OpsTypeOK, VisitRecords
  <2> QED
    BY <1>1, <1>3, <1>4, <1>6, <2>1, ReportsStand DEF OpsIInv
<1>7. CASE /\ Stored # {}
           /\ copy' = [day |-> Newest, expires |-> now + MaxAge(visit[r].since, Newest)]
  <2>1. Newest \in Days /\ Newest \in Stored /\ \A d \in Stored : d <= Newest
    BY <1>7, NewestIsNewest DEF Stored
  <2>2. PICK t \in Nat : t = visit[r].since /\ DayLength <= t /\ t <= now /\ now <= t + Patience
    BY <1>1, <1>2 DEF OpsIInv, VisitsInTime, VisitRecords
  <2>3. /\ MaxAge(t, Newest) \in Nat
        /\ \/ MaxAge(t, Newest) <= ShortAge
           \/ \A e \in Days : e > Newest => t + MaxAge(t, Newest) <= DueAt(e) + BoundaryBuffer
    BY <2>1, <2>2, MaxAgeEnds
  <2>4. now \in Nat /\ Patience \in Nat /\ ShortAge \in Nat /\ BoundaryBuffer \in Nat
    BY OpsAssumption DEF OpsIInv, OpsTypeOK
  <2>5. copy'.day = Newest /\ copy'.expires = now + MaxAge(t, Newest)
        /\ copy' \in [day : Days, expires : Nat]
    BY <1>7, <2>1, <2>2, <2>3, <2>4
  <2>6. OpsTypeOK'
    BY <1>1, <1>3, <2>5 DEF OpsIInv, OpsTypeOK, VisitRecords
  <2>7. CopyEnds'
    <3> SUFFICES ASSUME NEW e \in Days, e > copy'.day
                 PROVE  \/ copy'.expires <= DueAt(e) + BoundaryBuffer + Patience
                        \/ copy'.expires <= (IF report[e] = NoReport THEN now ELSE report[e].stored)
                                             + ShortAge
      BY <1>1 DEF CopyEnds, DueAt, Start
    <3>1. report[e] = NoReport
      <4>1. e \in Int /\ Newest \in Int /\ e > Newest
        BY <2>1, <2>5 DEF Days
      <4> QED
        BY <2>1, <4>1 DEF Stored
    <3>2. DueAt(e) \in Int
      <4>1. e + 1 \in Int
        BY DEF Days
      <4> QED
        BY <4>1, Starts, OpsAssumption DEF DueAt
    <3>3. CASE MaxAge(t, Newest) <= ShortAge
      BY <2>3, <2>4, <2>5, <3>1, <3>3
    <3>4. CASE t + MaxAge(t, Newest) <= DueAt(e) + BoundaryBuffer
      BY <2>2, <2>3, <2>4, <2>5, <3>2, <3>4
    <3> QED
      BY <2>3, <2>5, <3>3, <3>4
  <2> QED
    BY <1>3, <1>4, <1>5, <2>6, <2>7 DEF OpsIInv
<1> QED
  BY <1>6, <1>7 DEF Serves

LEMMA MinuteInv ==
  ASSUME OpsIInv, Minute
  PROVE  OpsIInv'
<1>1. /\ now' = now + 1 /\ now + 1 < Start(LastDay + 1)
      /\ \A r \in OpsRequests : visit[r].at # "idle" => now' - visit[r].since <= Patience
      /\ UNCHANGED <<report, building, visit, copy>>
  BY DEF Minute
<1>2. /\ now \in Nat /\ Patience \in Nat /\ ShortAge \in Nat /\ DayLength \in Nat
      /\ Start(LastDay + 1) \in Int
  <2>1. LastDay + 1 \in Int
    BY OpsAssumption
  <2> QED
    BY <2>1, Starts, OpsAssumption DEF OpsIInv, OpsTypeOK
<1>3. OpsTypeOK'
  BY <1>1, <1>2 DEF OpsIInv, OpsTypeOK
<1>4. \A r \in OpsRequests : visit[r].since \in Nat
  BY DEF OpsIInv, OpsTypeOK
<1>5. VisitsInTime' /\ DayLength <= now'
  BY <1>1, <1>2, <1>4 DEF OpsIInv, VisitsInTime, PastMargin
<1>6. \A d \in Days : DueAt(d) \in Int
  <2> SUFFICES ASSUME NEW d \in Days PROVE DueAt(d) \in Int
    OBVIOUS
  <2>1. d + 1 \in Int
    BY DEF Days
  <2> QED
    BY <2>1, Starts, OpsAssumption DEF DueAt
<1>7. BuildsInTime'
  <2> SUFFICES ASSUME NEW i \in OpsInstances, NEW d \in Days
               PROVE  /\ building[i][d].at # "none" => DueAt(d) <= now + 1
                      /\ building[i][d].at \in {"insert", "stored"} => building[i][d].whole
    BY <1>1 DEF BuildsInTime, DueAt, Start
  <2> QED
    BY <1>2, <1>6 DEF OpsIInv, BuildsInTime
<1>8. WholeDays'
  BY <1>1 DEF OpsIInv, WholeDays
<1>9. CopyEnds'
  <2> SUFFICES ASSUME copy # NoReport, NEW e \in Days, e > copy.day
               PROVE  \/ copy.expires <= DueAt(e) + BoundaryBuffer + Patience
                      \/ copy.expires <= (IF report[e] = NoReport THEN now + 1 ELSE report[e].stored)
                                           + ShortAge
    BY <1>1 DEF CopyEnds, DueAt, Start
  <2>1. copy.expires \in Nat
    BY DEF OpsIInv, OpsTypeOK
  <2> QED
    BY <1>2, <2>1 DEF OpsIInv, CopyEnds
<1> QED
  BY <1>3, <1>5, <1>7, <1>8, <1>9 DEF OpsIInv

LEMMA OpsStep == OpsIInv /\ [OpsNext]_opsVars => OpsIInv'
<1> SUFFICES ASSUME OpsIInv, [OpsNext]_opsVars PROVE OpsIInv'
  OBVIOUS
<1>1. CASE UNCHANGED opsVars
  <2>1. UNCHANGED <<now, report, building, visit, copy>>
    BY <1>1 DEF opsVars
  <2> QED
    BY <2>1, ReportsStand DEF OpsIInv, OpsTypeOK, VisitsInTime, PastMargin, BuildsInTime, DueAt, Start
<1> QED
  BY <1>1, MinuteInv, VisitInv, LooksUpInv, JoinsOrBuildsInv, ServesInv, FetchesInv, InsertsInv,
     BuildReturnsInv DEF OpsNext

\* The inductive invariant of the ops reports.
THEOREM OpsInvariant == OpsSpec => []OpsIInv
<1> QED
  BY OpsInitInv, OpsStep, PTL DEF OpsSpec

\* No stored report is clipped.
THEOREM DaysAreWhole == OpsSpec => []WholeDays
<1>1. OpsIInv => WholeDays
  BY DEF OpsIInv
<1> QED
  BY <1>1, OpsInvariant, PTL

\* A client is not kept from a newer report longer than the max-ages allow.
THEOREM NewsIsSeen == OpsSpec => []NewsArrives
<1>1. OpsIInv => NewsArrives
  <2> SUFFICES ASSUME OpsIInv, copy # NoReport, now < copy.expires,
                      NEW d \in Stored, d > copy.day
               PROVE  \/ now < report[d].stored + ShortAge + Patience
                      \/ now < DueAt(d) + BoundaryBuffer + Patience
    BY DEF NewsArrives
  <2>1. d \in Days /\ report[d] # NoReport
    BY DEF Stored
  <2>2. /\ now \in Nat /\ copy.expires \in Nat /\ report[d].stored \in Nat /\ Patience \in Nat
        /\ ShortAge \in Nat /\ BoundaryBuffer \in Nat /\ DueAt(d) \in Int
    <3>1. d + 1 \in Int
      BY <2>1 DEF Days
    <3>2. DueAt(d) \in Int
      BY <3>1, Starts, OpsAssumption DEF DueAt
    <3> QED
      BY <2>1, <3>2, OpsAssumption DEF OpsIInv, OpsTypeOK
  <2>3. copy.expires <= DueAt(d) + BoundaryBuffer + Patience \/ copy.expires <= report[d].stored + ShortAge
    BY <2>1 DEF OpsIInv, CopyEnds
  <2> QED
    BY <2>2, <2>3
<1> QED
  BY <1>1, OpsInvariant, PTL

(***************************************************************************)
(* GithubCache.  Settled is closed under every step by itself; what has    *)
(* to be shown is that no path through the caches and the shared calls     *)
(* hands the request of a settled token an entry filed under another one.  *)
(***************************************************************************)
USE GithubAssumption DEF GithubAssumption, Tokens

\* Nothing in a cache is about another account when it is filed under p.
Right(p, held) == \A w \in Windows : held[w] # None /\ held[w].pat = p => held[w].of = p

\* The cached calendars and the call under way have a shape.
Shelf == [Windows -> Entries \cup {None}]

LEMMA IdleAsked == Idle \in Asked
BY DEF Idle, Asked, Places, Windows

LEMMA ShownAsked ==
  ASSUME NEW p \in Tokens, NEW q \in Tokens
  PROVE  Shown(p, q) \in Asked /\ Shown(p, q).at = "idle" /\ Shown(p, q).pat = p /\ Shown(p, q).of = q
BY DEF Shown, Idle, Asked, Places, Windows

\* A request that goes on or is answered changes nothing else.
LEMMA MovedType ==
  ASSUME TypeOK, NEW r \in Requests, NEW e \in Asked, request' = [request EXCEPT ![r] = e]
  PROVE  /\ request' \in [Requests -> Asked]
         /\ \A s \in Requests : request'[s] = IF s = r THEN e ELSE request[s]
BY DEF TypeOK

LEMMA OpenType ==
  ASSUME TypeOK, NEW r \in Requests, NEW q \in Asked,
         NEW held \in Shelf, OpenWindow(r, q, held)
  PROVE  windows' \in Shelf /\ windowCall' \in Shelf /\ request' \in [Requests -> Asked]
<1>1. windows' \in Shelf
  BY DEF OpenWindow
<1>2. q.win \in Windows /\ Filed(q.pat, q.of) \in Entries
  BY DEF Asked, Filed, Entries
<1>3. CASE Usable(held[q.win], q.pat)
  <2>1. held[q.win] \in Entries
    BY <1>2, <1>3 DEF Usable, Shelf
  <2>2. Shown(q.pat, held[q.win].of) \in Asked
    BY <2>1, ShownAsked DEF Entries, Asked
  <2>3. request' = [request EXCEPT ![r] = Shown(q.pat, held[q.win].of)] /\ windowCall' = windowCall
    BY <1>3 DEF OpenWindow, Answered
  <2> QED
    BY <1>1, <2>2, <2>3, MovedType DEF TypeOK, Shelf
<1>4. CASE ~Usable(held[q.win], q.pat)
  <2>1. [q EXCEPT !.at = "window"] \in Asked
    BY DEF Asked, Places
  <2>2. /\ request' = [request EXCEPT ![r] = [q EXCEPT !.at = "window"]]
        /\ windowCall' = [windowCall EXCEPT ![q.win] = IF @ = None THEN Filed(q.pat, q.of) ELSE @]
    BY <1>4 DEF OpenWindow, GoesTo
  <2>3. windowCall' \in Shelf
    BY <1>2, <2>2 DEF TypeOK, Shelf
  <2> QED
    BY <1>1, <2>1, <2>2, <2>3, MovedType
<1> QED
  BY <1>3, <1>4

LEMMA ResolveType ==
  ASSUME TypeOK, NEW r \in Requests, NEW q \in Asked,
         NEW at \in Places, Resolve(r, q, at)
  PROVE  /\ windows' \in Shelf /\ windowCall' \in Shelf /\ request' \in [Requests -> Asked]
         /\ meta' \in [pat : Tokens, live : BOOLEAN] \cup {None} /\ metaCall' \in Tokens
<1> DEFINE kept == IF Foreign(q.pat) THEN [w \in Windows |-> None] ELSE windows
<1>1. kept \in Shelf
  BY DEF TypeOK, Shelf
<1>2. CASE Known(q.pat)
  <2>1. OpenWindow(r, [q EXCEPT !.of = q.pat], kept) /\ UNCHANGED <<meta, metaCall>>
    BY <1>2 DEF Resolve
  <2>2. [q EXCEPT !.of = q.pat] \in Asked
    BY DEF Asked
  <2>3. [q EXCEPT !.of = q.pat].pat = q.pat /\ [q EXCEPT !.of = q.pat].of = q.pat
    BY DEF Asked
  <2>4. windows' \in Shelf /\ windowCall' \in Shelf /\ request' \in [Requests -> Asked]
    BY <1>1, <2>1, <2>2, <2>3, OpenType
  <2> QED
    BY <2>1, <2>4 DEF TypeOK
<1>3. CASE ~Known(q.pat)
  <2>1. /\ meta' = (IF Foreign(q.pat) THEN None ELSE meta) /\ windows' = kept
        /\ metaCall' = (IF metaCall = None THEN q.pat ELSE metaCall)
        /\ request' = [request EXCEPT ![r] = [[q EXCEPT !.of = None] EXCEPT !.at = at]]
        /\ windowCall' = windowCall
    BY <1>3 DEF Resolve, GoesTo
  <2>2. [[q EXCEPT !.of = None] EXCEPT !.at = at] \in Asked
    BY DEF Asked
  <2>3. request' \in [Requests -> Asked]
    BY <2>1, <2>2, MovedType
  <2>4. metaCall' \in Tokens
    BY <2>1 DEF TypeOK, Asked
  <2> QED
    BY <1>1, <2>1, <2>3, <2>4 DEF TypeOK, Shelf
<1> QED
  BY <1>2, <1>3

LEMMA WithTokenType ==
  ASSUME TypeOK, NEW r \in Requests, NEW q \in Asked, WithToken(r, q)
  PROVE  /\ windows' \in Shelf /\ windowCall' \in Shelf /\ request' \in [Requests -> Asked]
         /\ meta' \in [pat : Tokens, live : BOOLEAN] \cup {None} /\ metaCall' \in Tokens
<1>1. CASE UNCHANGED service /\ \E p \in Tokens : Answered(r, p, None)
  BY <1>1, ShownAsked, MovedType DEF Answered, TypeOK, service, Shelf
<1>2. ASSUME Resolve(r, q, IF q.win = Default THEN "meta" ELSE "years")
      PROVE  /\ windows' \in Shelf /\ windowCall' \in Shelf /\ request' \in [Requests -> Asked]
             /\ meta' \in [pat : Tokens, live : BOOLEAN] \cup {None} /\ metaCall' \in Tokens
  <2>1. (IF q.win = Default THEN "meta" ELSE "years") \in Places
    BY DEF Places
  <2> QED
    BY <1>2, <2>1, ResolveType
<1>3. q.pat \in Tokens
  BY DEF Asked
<1> QED
  BY <1>1, <1>2, <1>3 DEF WithToken, Refused

LEMMA InitType == Init => TypeOK
BY IdleAsked DEF Init, TypeOK

LEMMA NextType == TypeOK /\ [Next]_vars => TypeOK'
<1> SUFFICES ASSUME TypeOK, [Next]_vars PROVE TypeOK'
  OBVIOUS
<1>1. CASE AdminWrites \/ AdminReturns \/ AdminElsewhere
  BY <1>1 DEF AdminWrites, AdminReturns, AdminElsewhere, TypeOK, service
<1>2. CASE StoredExpires \/ MetaExpires
  BY <1>2 DEF StoredExpires, MetaExpires, TypeOK, service, token
<1>3. CASE MetaArrives
  <2>1. ASSUME NEW q \in Tokens PROVE [r \in Requests |-> Woken(r, q)] \in [Requests -> Asked]
    BY DEF Woken, TypeOK, Asked, Places
  <2>2. request' \in [Requests -> Asked]
    BY <1>3, <2>1 DEF MetaArrives, TypeOK
  <2>3. [pat |-> metaCall, live |-> TRUE] \in [pat : Tokens, live : BOOLEAN]
    BY DEF TypeOK
  <2>4. meta' \in [pat : Tokens, live : BOOLEAN] \cup {None}
    BY <1>3, <2>3 DEF MetaArrives, TypeOK
  <2> QED
    BY <1>3, <2>2, <2>4 DEF MetaArrives, TypeOK, token
<1>4. ASSUME NEW w \in Windows, WindowExpires(w) PROVE TypeOK'
  BY <1>4 DEF WindowExpires, TypeOK, token
<1>5. ASSUME NEW w \in Windows, WindowArrives(w) PROVE TypeOK'
  <2>1. windowCall[w] \in Entries
    BY <1>5 DEF WindowArrives, TypeOK
  <2>2. PICK of \in {windowCall[w].of, None} :
          /\ windows' = IF of = None THEN windows ELSE [windows EXCEPT ![w] = windowCall[w]]
          /\ request' = [r \in Requests |->
               IF request[r].at = "window" /\ request[r].win = w
                 THEN Shown(request[r].pat, of) ELSE request[r]]
    BY <1>5 DEF WindowArrives
  <2>3. ASSUME NEW r \in Requests PROVE Shown(request[r].pat, of) \in Asked
    BY <2>1, ShownAsked DEF TypeOK, Asked, Entries
  <2>4. request' \in [Requests -> Asked]
    BY <2>2, <2>3 DEF TypeOK
  <2>5. windows' \in [Windows -> Entries \cup {None}]
    BY <2>1, <2>2 DEF TypeOK
  <2> QED
    BY <1>5, <2>4, <2>5 DEF WindowArrives, TypeOK, token
<1>6. ASSUME NEW r \in Requests, NEW w \in Windows, Ask(r, w) PROVE TypeOK'
  <2>1. [Idle EXCEPT !.win = w] \in Asked
    BY IdleAsked DEF Asked
  <2>2. CASE stored = Unknown
    <3>1. [[Idle EXCEPT !.win = w] EXCEPT !.at = "row"] \in Asked
      BY <2>1 DEF Asked, Places
    <3>2. request' \in [Requests -> Asked]
      BY <1>6, <2>2, <3>1, MovedType DEF Ask, GoesTo
    <3> QED
      BY <1>6, <2>2, <3>2 DEF Ask, TypeOK, token, service
  <2>3. CASE stored # Unknown
    <3>1. [[Idle EXCEPT !.win = w] EXCEPT !.pat = stored] \in Asked
      BY <2>1, <2>3 DEF Asked, TypeOK
    <3>2. WithToken(r, [[Idle EXCEPT !.win = w] EXCEPT !.pat = stored]) /\ UNCHANGED token
      BY <1>6, <2>3 DEF Ask
    <3> QED
      BY <3>1, <3>2, WithTokenType DEF TypeOK, token, Shelf
  <2> QED
    BY <2>2, <2>3
<1>7. ASSUME NEW r \in Requests, RowIsRead(r) PROVE TypeOK'
  <2>1. [[Idle EXCEPT !.win = request[r].win, !.pat = row] EXCEPT !.at = "loaded"] \in Asked
    BY DEF TypeOK, Asked, Places, Idle, Windows
  <2>2. request' \in [Requests -> Asked]
    BY <1>7, <2>1, ShownAsked, MovedType DEF RowIsRead, GoesTo, Answered
  <2> QED
    BY <1>7, <2>2 DEF RowIsRead, TypeOK, token, service
<1>8. ASSUME NEW r \in Requests, RowArrives(r) PROVE TypeOK'
  <2>1. request[r] \in Asked
    BY DEF TypeOK
  <2>2. stored' \in Tokens \cup {Unknown}
    BY <1>8, <2>1 DEF RowArrives, Asked
  <2> QED
    BY <1>8, <2>1, <2>2, WithTokenType DEF RowArrives, TypeOK, Shelf
<1>9. ASSUME NEW r \in Requests, WakeYears(r) PROVE TypeOK'
  <2>1. request[r] \in Asked /\ "meta" \in Places
    BY DEF TypeOK, Places
  <2>2. CASE Refused(r, request[r])
    BY <1>9, <2>1, <2>2, ShownAsked, MovedType DEF Refused, Answered, WakeYears, TypeOK, service, token, Asked
  <2> QED
    BY <1>9, <2>1, <2>2, ResolveType DEF WakeYears, TypeOK, token, Shelf
<1>10. ASSUME NEW r \in Requests, WakeMeta(r) PROVE TypeOK'
  <2>1. request[r] \in Asked /\ windows \in Shelf
    BY DEF TypeOK, Shelf
  <2>2. CASE request[r].of = None
    <3>1. Shown(request[r].pat, None) \in Asked
      BY <2>1, ShownAsked DEF Asked
    <3>2. request' \in [Requests -> Asked]
      BY <1>10, <2>2, <3>1, MovedType DEF Answered, WakeMeta
    <3> QED
      BY <1>10, <2>2, <3>2 DEF WakeMeta, TypeOK, service, token
  <2>3. CASE request[r].of # None
    BY <1>10, <2>1, <2>3, OpenType DEF WakeMeta, TypeOK, token, Shelf
  <2> QED
    BY <2>2, <2>3
<1>11. CASE UNCHANGED vars
  BY <1>11 DEF vars, token, service, TypeOK
<1> QED
  BY <1>1, <1>2, <1>3, <1>4, <1>5, <1>6, <1>7, <1>8, <1>9, <1>10, <1>11 DEF Next

-----------------------------------------------------------------------------
(* A settled token stays settled.                                          *)

\* The first conjunct of Settled.
TokenSettled(p) == row = p /\ stored \in {p, Unknown} /\ saving \in {p, Unknown}

\* What a request of p may know.
Own(p, q) == q \in Asked /\ q.pat = p /\ q.of \in {p, None}

\* A request of a settled token that goes on with its own knowledge.
LEMMA MovedSettled ==
  ASSUME TypeOK, NEW p \in Pats, Settled(p), NEW r \in Requests,
         NEW e \in Asked, request' = [request EXCEPT ![r] = e],
         Own(p, e) \/ (e.at \in {"idle", "row"} /\ e.of = None)
  PROVE  \A s \in Requests :
           /\ request'[s].at \notin {"idle", "row"} => request'[s].pat = p
           /\ request'[s].pat = p => request'[s].of \in {p, None}
<1> SUFFICES ASSUME NEW s \in Requests
             PROVE  /\ request'[s].at \notin {"idle", "row"} => request'[s].pat = p
                    /\ request'[s].pat = p => request'[s].of \in {p, None}
  OBVIOUS
<1>1. request'[s] = IF s = r THEN e ELSE request[s]
  BY MovedType
<1>2. CASE s = r
  BY <1>1, <1>2 DEF Own
<1>3. CASE s # r
  BY <1>1, <1>3 DEF Settled
<1> QED
  BY <1>2, <1>3

LEMMA OpenSettled ==
  ASSUME TypeOK, NEW p \in Pats, Settled(p), NEW r \in Requests,
         NEW q, Own(p, q), q.of = p, NEW held \in Shelf, Right(p, held),
         OpenWindow(r, q, held), TokenSettled(p)', UNCHANGED metaCall
  PROVE  Settled(p)'
<1>1. q.win \in Windows /\ q \in Asked /\ Filed(q.pat, q.of) = Filed(p, p)
  BY DEF Own, Asked
<1>2. windows' = held
  BY DEF OpenWindow
<1>3. CASE Usable(held[q.win], q.pat)
  <2>1. Shown(q.pat, held[q.win].of) = Shown(p, p)
    BY <1>1, <1>3 DEF Usable, Right, Own
  <2>2. Own(p, Shown(p, p))
    BY ShownAsked DEF Own
  <2>3. request' = [request EXCEPT ![r] = Shown(p, p)] /\ windowCall' = windowCall
    BY <1>3, <2>1 DEF OpenWindow, Answered
  <2>4. \A s \in Requests :
           /\ request'[s].at \notin {"idle", "row"} => request'[s].pat = p
           /\ request'[s].pat = p => request'[s].of \in {p, None}
    BY <2>2, <2>3, MovedSettled DEF Own
  <2> QED
    BY <1>2, <2>3, <2>4 DEF Settled, Right, TokenSettled
<1>4. CASE ~Usable(held[q.win], q.pat)
  <2>1. Own(p, [q EXCEPT !.at = "window"])
    BY <1>1 DEF Own, Asked, Places
  <2>2. /\ request' = [request EXCEPT ![r] = [q EXCEPT !.at = "window"]]
        /\ windowCall' = [windowCall EXCEPT ![q.win] = IF @ = None THEN Filed(p, p) ELSE @]
    BY <1>1, <1>4 DEF OpenWindow, GoesTo
  <2>3. \A s \in Requests :
           /\ request'[s].at \notin {"idle", "row"} => request'[s].pat = p
           /\ request'[s].pat = p => request'[s].of \in {p, None}
    BY <2>1, <2>2, MovedSettled DEF Own
  <2>4. \A w \in Windows : windowCall'[w] \in {Filed(p, p), None}
    BY <1>1, <2>2 DEF Settled, TypeOK
  <2> QED
    BY <1>2, <2>3, <2>4 DEF Settled, Right, TokenSettled
<1> QED
  BY <1>3, <1>4

LEMMA ResolveSettled ==
  ASSUME TypeOK, NEW p \in Pats, Settled(p), NEW r \in Requests,
         NEW q, Own(p, q), NEW at \in Places, Resolve(r, q, at), TokenSettled(p)'
  PROVE  Settled(p)'
<1> DEFINE kept == IF Foreign(q.pat) THEN [w \in Windows |-> None] ELSE windows
<1>1. kept \in Shelf /\ Right(p, kept)
  BY DEF TypeOK, Shelf, Right, Settled
<1>2. CASE Known(q.pat)
  <2>1. OpenWindow(r, [q EXCEPT !.of = q.pat], kept) /\ UNCHANGED <<meta, metaCall>>
    BY <1>2 DEF Resolve
  <2>2. Own(p, [q EXCEPT !.of = q.pat]) /\ [q EXCEPT !.of = q.pat].of = p
    BY DEF Own, Asked
  <2> QED
    BY <1>1, <2>1, <2>2, OpenSettled
<1>3. CASE ~Known(q.pat)
  <2>1. /\ windows' = kept /\ metaCall' = (IF metaCall = None THEN q.pat ELSE metaCall)
        /\ request' = [request EXCEPT ![r] = [[q EXCEPT !.of = None] EXCEPT !.at = at]]
        /\ windowCall' = windowCall
    BY <1>3 DEF Resolve, GoesTo
  <2>2. Own(p, [[q EXCEPT !.of = None] EXCEPT !.at = at])
    BY DEF Own, Asked
  <2>3. \A s \in Requests :
           /\ request'[s].at \notin {"idle", "row"} => request'[s].pat = p
           /\ request'[s].pat = p => request'[s].of \in {p, None}
    BY <2>1, <2>2, MovedSettled DEF Own
  <2>4. metaCall' \in {p, None}
    BY <2>1 DEF Own, Settled
  <2> QED
    BY <1>1, <2>1, <2>3, <2>4 DEF Settled, Right, TokenSettled
<1> QED
  BY <1>2, <1>3

\* An answer that shows nothing, the caches left as they are.
LEMMA NothingShown ==
  ASSUME TypeOK, NEW p \in Pats, Settled(p), NEW r \in Requests, NEW q \in Tokens,
         Answered(r, q, None), TokenSettled(p)', UNCHANGED service
  PROVE  Settled(p)'
<1>1. Shown(q, None) \in Asked /\ Shown(q, None).at = "idle" /\ Shown(q, None).of = None
  BY ShownAsked
<1>2. \A s \in Requests :
         /\ request'[s].at \notin {"idle", "row"} => request'[s].pat = p
         /\ request'[s].pat = p => request'[s].of \in {p, None}
  BY <1>1, MovedSettled DEF Answered
<1> QED
  BY <1>2 DEF Settled, TokenSettled, service

LEMMA WithTokenSettled ==
  ASSUME TypeOK, NEW p \in Pats, Settled(p), NEW r \in Requests,
         NEW q, Own(p, q), WithToken(r, q), TokenSettled(p)'
  PROVE  Settled(p)'
<1>1. (IF q.win = Default THEN "meta" ELSE "years") \in Places /\ q.pat \in Tokens /\ q.pat # None
  BY DEF Places, Own
<1>2. CASE Resolve(r, q, IF q.win = Default THEN "meta" ELSE "years")
  BY <1>1, <1>2, ResolveSettled
<1>3. CASE Refused(r, q)
  BY <1>1, <1>3, NothingShown DEF Refused
<1> QED
  BY <1>1, <1>2, <1>3 DEF WithToken

LEMMA StepSettled ==
  ASSUME TypeOK, NEW p \in Pats, Settled(p), [Next]_vars, row' = p
  PROVE  Settled(p)'
<1>1. CASE AdminWrites
  <2>1. saving' = p
    BY <1>1 DEF AdminWrites
  <2> QED
    BY <1>1, <2>1 DEF AdminWrites, Settled, service
<1>2. CASE AdminReturns \/ AdminElsewhere
  BY <1>2 DEF AdminReturns, AdminElsewhere, Settled, service
<1>3. CASE StoredExpires \/ MetaExpires
  BY <1>3 DEF StoredExpires, MetaExpires, Settled, service, token
<1>4. CASE MetaArrives
  <2>1. PICK q \in {p, None} : request' = [r \in Requests |-> Woken(r, q)]
    BY <1>4 DEF MetaArrives, Settled
  <2>2. ASSUME NEW r \in Requests
        PROVE  /\ request'[r].at \notin {"idle", "row"} => request'[r].pat = p
               /\ request'[r].pat = p => request'[r].of \in {p, None}
    <3>1. request'[r] = Woken(r, q) /\ request[r] \in Asked
      BY <2>1 DEF TypeOK
    <3>2. CASE request[r].at \in {"years", "meta"}
      BY <3>1, <3>2 DEF Woken, Settled, Asked
    <3>3. CASE request[r].at \notin {"years", "meta"}
      BY <3>1, <3>3 DEF Woken, Settled
    <3> QED
      BY <3>2, <3>3
  <2> QED
    BY <1>4, <2>2 DEF MetaArrives, Settled, token
<1>5. ASSUME NEW w \in Windows, WindowExpires(w) PROVE Settled(p)'
  <2>1. \A x \in Windows : windows'[x] = None \/ windows'[x] = windows[x]
    BY <1>5 DEF WindowExpires, TypeOK
  <2> QED
    BY <1>5, <2>1 DEF WindowExpires, Settled, token
<1>6. ASSUME NEW w \in Windows, WindowArrives(w) PROVE Settled(p)'
  <2>1. windowCall[w] = Filed(p, p)
    BY <1>6 DEF WindowArrives, Settled
  <2>2. PICK of \in {p, None} :
          /\ windows' = IF of = None THEN windows ELSE [windows EXCEPT ![w] = windowCall[w]]
          /\ request' = [r \in Requests |->
               IF request[r].at = "window" /\ request[r].win = w
                 THEN Shown(request[r].pat, of) ELSE request[r]]
    BY <1>6, <2>1 DEF WindowArrives, Filed
  <2>3. ASSUME NEW r \in Requests
        PROVE  /\ request'[r].at \notin {"idle", "row"} => request'[r].pat = p
               /\ request'[r].pat = p => request'[r].of \in {p, None}
    BY <2>2, ShownAsked DEF TypeOK, Asked, Settled
  <2>4. ASSUME NEW x \in Windows
        PROVE  windows'[x] # None /\ windows'[x].pat = p => windows'[x].of = p
    BY <2>1, <2>2 DEF TypeOK, Settled, Filed
  <2>5. ASSUME NEW x \in Windows PROVE windowCall'[x] \in {Filed(p, p), None}
    BY <1>6 DEF WindowArrives, TypeOK, Settled
  <2> QED
    BY <1>6, <2>3, <2>4, <2>5 DEF WindowArrives, Settled, token
<1>7. ASSUME NEW r \in Requests, NEW w \in Windows, Ask(r, w) PROVE Settled(p)'
  <2>1. [Idle EXCEPT !.win = w] \in Asked
    BY IdleAsked DEF Asked
  <2>2. TokenSettled(p)'
    BY <1>7 DEF Ask, TokenSettled, Settled, token
  <2>3. CASE stored = Unknown
    <3>1. [[Idle EXCEPT !.win = w] EXCEPT !.at = "row"] \in Asked
      BY <2>1 DEF Asked, Places
    <3>2. [[Idle EXCEPT !.win = w] EXCEPT !.at = "row"].of = None
      BY DEF Idle
    <3>3. [[Idle EXCEPT !.win = w] EXCEPT !.at = "row"].at = "row"
      BY DEF Idle
    <3>4. request' = [request EXCEPT ![r] = [[Idle EXCEPT !.win = w] EXCEPT !.at = "row"]]
      BY <1>7, <2>3 DEF Ask, GoesTo
    <3>5. \A s \in Requests :
             /\ request'[s].at \notin {"idle", "row"} => request'[s].pat = p
             /\ request'[s].pat = p => request'[s].of \in {p, None}
      BY <3>1, <3>2, <3>3, <3>4, MovedSettled
    <3> QED
      BY <1>7, <2>2, <2>3, <3>5 DEF Ask, Settled, TokenSettled, service
  <2>4. CASE stored # Unknown
    <3>1. Own(p, [[Idle EXCEPT !.win = w] EXCEPT !.pat = stored])
      BY <2>1, <2>4 DEF Own, Asked, Settled, Idle
    <3>2. WithToken(r, [[Idle EXCEPT !.win = w] EXCEPT !.pat = stored])
      BY <1>7, <2>4 DEF Ask
    <3> QED
      BY <2>2, <3>1, <3>2, WithTokenSettled
  <2> QED
    BY <2>3, <2>4
<1>8. ASSUME NEW r \in Requests, RowIsRead(r) PROVE Settled(p)'
  <2>1. TokenSettled(p)' /\ UNCHANGED service
    BY <1>8 DEF RowIsRead, TokenSettled, Settled, token
  <2>2. CASE Answered(r, None, None)
    BY <2>1, <2>2, NothingShown
  <2>3. CASE GoesTo(r, "loaded", [Idle EXCEPT !.win = request[r].win, !.pat = row])
    <3>1. request[r].win \in Windows /\ Default \in Windows
      BY DEF TypeOK, Asked, Windows
    <3>2. Own(p, [[Idle EXCEPT !.win = request[r].win, !.pat = row] EXCEPT !.at = "loaded"])
      BY <3>1 DEF Own, Asked, Places, Settled, Idle
    <3>3. \A s \in Requests :
             /\ request'[s].at \notin {"idle", "row"} => request'[s].pat = p
             /\ request'[s].pat = p => request'[s].of \in {p, None}
      BY <2>3, <3>2, MovedSettled DEF Own, GoesTo
    <3> QED
      BY <2>1, <3>3 DEF Settled, TokenSettled, service
  <2> QED
    BY <1>8, <2>2, <2>3 DEF RowIsRead
<1>9. ASSUME NEW r \in Requests, RowArrives(r) PROVE Settled(p)'
  <2>1. Own(p, request[r])
    BY <1>9 DEF RowArrives, Own, Settled, TypeOK
  <2>2. TokenSettled(p)'
    BY <1>9, <2>1 DEF RowArrives, TokenSettled, Settled, Own
  <2> QED
    BY <1>9, <2>1, <2>2, WithTokenSettled DEF RowArrives
<1>10. ASSUME NEW r \in Requests, WakeYears(r) \/ WakeMeta(r) PROVE Settled(p)'
  <2>1. Own(p, request[r]) /\ TokenSettled(p)'
    BY <1>10 DEF WakeYears, WakeMeta, Own, Settled, TypeOK, TokenSettled, token
  <2>2. request[r].pat \in Tokens /\ "meta" \in Places
    BY DEF TypeOK, Asked, Places
  <2>3. CASE \E q \in Tokens : Answered(r, q, None) /\ UNCHANGED service
    BY <2>1, <2>3, NothingShown
  <2>4. CASE Resolve(r, request[r], "meta")
    BY <2>1, <2>2, <2>4, ResolveSettled
  <2>5. CASE request[r].of # None /\ OpenWindow(r, request[r], windows) /\ UNCHANGED <<meta, metaCall>>
    <3>1. windows \in Shelf /\ Right(p, windows)
      BY DEF TypeOK, Shelf, Right, Settled
    <3> QED
      BY <2>1, <2>5, <3>1, OpenSettled DEF Own
  <2> QED
    BY <1>10, <2>2, <2>3, <2>4, <2>5 DEF WakeYears, WakeMeta, Refused
<1>11. CASE UNCHANGED vars
  BY <1>11 DEF vars, token, service, Settled
<1> QED
  BY <1>1, <1>2, <1>3, <1>4, <1>5, <1>6, <1>7, <1>8, <1>9, <1>10, <1>11 DEF Next

\* Once a token has settled, nothing but a change of the token shows or caches
\* another account's calendar under it, for any number of concurrent requests.
THEOREM CalendarsSettle == Spec => SettledStays
<1>1. Init => TypeOK
  BY InitType
<1>2. TypeOK /\ [Next]_vars => TypeOK'
  BY NextType
<1>3. TypeOK /\ [Next]_vars => [\A p \in Pats : Settled(p) /\ row' = p => Settled(p)']_vars
  BY StepSettled
<1> QED
  BY <1>1, <1>2, <1>3, PTL DEF Spec, SettledStays

(***************************************************************************)
(* The order of a page's sections, for any number of sections, pages and   *)
(* requests.  Two facts carry the proof: nobody changes a row that another *)
(* has locked, and as long as nobody else has written positions on a page, *)
(* what a request found there is still all of it, and in that order.       *)
(***************************************************************************)
\* Sets of rows are finite, and a larger one has more rows.
LEMMA RowCount ==
  ASSUME NEW T \in SUBSET Sections
  PROVE  /\ IsFiniteSet(T) /\ Cardinality(T) \in 0..MaxSections
         /\ \A S \in SUBSET T : S # T => Cardinality(S) < Cardinality(T)
<1>1. IsFiniteSet(Sections) /\ Cardinality(Sections) = MaxSections
  BY FS_Interval, SectionOrderAssumption DEF Sections
<1>2. IsFiniteSet(T) /\ Cardinality(T) <= MaxSections /\ Cardinality(T) \in Nat
  BY <1>1, FS_Subset, FS_CardinalityType
<1>3. ASSUME NEW S \in SUBSET T, S # T PROVE Cardinality(S) < Cardinality(T)
  <2>1. Cardinality(S) <= Cardinality(T) /\ Cardinality(S) # Cardinality(T) /\ IsFiniteSet(S)
    BY <1>2, <1>3, FS_Subset
  <2> QED
    BY <1>2, <2>1, FS_CardinalityType
<1> QED
  BY <1>2, <1>3, SectionOrderAssumption

\* A finite set of numbers has a greatest: the one that most are at most.
LEMMA MaxOf ==
  ASSUME NEW T \in SUBSET Nat, IsFiniteSet(T), T # {}
  PROVE  Positions!Max(T) \in T /\ \A y \in T : y <= Positions!Max(T)
<1> DEFINE upTo(x) == {y \in T : y <= x}
           counts == {Cardinality(upTo(x)) : x \in T}
<1>1. \A x \in T : IsFiniteSet(upTo(x)) /\ Cardinality(upTo(x)) \in 0..Cardinality(T)
  BY FS_Subset, FS_CardinalityType
<1>2. PICK most \in counts : \A n \in counts : n <= most
  <2>1. counts \subseteq 0..Cardinality(T) /\ counts # {} /\ Cardinality(T) \in Nat
    BY <1>1, FS_CardinalityType
  <2> HIDE DEF counts
  <2> QED
    BY <2>1, Greatest
<1>3. PICK x \in T : most = Cardinality(upTo(x))
  OBVIOUS
<1>4. ASSUME NEW y \in T PROVE y <= x
  <2> SUFFICES ASSUME y > x PROVE FALSE
    OBVIOUS
  <2>0. x \in Nat /\ y \in Nat /\ \A z \in T : z \in Nat
    BY <1>3, <1>4
  <2>1. upTo(x) \in SUBSET upTo(y) /\ y \in upTo(y) /\ y \notin upTo(x)
    <3>1. \A z \in T : z <= x => z <= y
      BY <2>0
    <3>2. y <= y /\ ~(y <= x)
      BY <2>0
    <3> QED
      BY <1>4, <3>1, <3>2
  <2>2. Cardinality(upTo(x)) <= Cardinality(upTo(y)) /\ Cardinality(upTo(x)) # Cardinality(upTo(y))
    <3> HIDE DEF upTo
    <3> QED
      BY <1>1, <2>1, FS_Subset
  <2>3. Cardinality(upTo(y)) <= Cardinality(upTo(x))
    BY <1>2, <1>3
  <2>4. Cardinality(upTo(x)) \in Nat /\ Cardinality(upTo(y)) \in Nat
    BY <1>1, <1>3, <1>4, FS_CardinalityType
  <2> HIDE DEF upTo
  <2> QED
    BY <2>2, <2>3, <2>4
<1>5. \E z \in T : \A y \in T : z >= y
  BY <1>4
<1>6. Positions!Max(T) \in T /\ \A y \in T : Positions!Max(T) >= y
  BY <1>5 DEF Positions!Max
<1> QED
  BY <1>6

LEMMA OnSections == \A p : On(p) \subseteq Sections /\ \A s \in On(p) : table[s] # Nothing /\ table[s].page = p
BY DEF On

\* What the rows of the table are like.
LEMMA TypedRows ==
  ASSUME TableSound
  PROVE  /\ \A s \in Sections : table[s] # Nothing =>
              table[s] \in RowTypes /\ table[s].page \in Pages /\ table[s].position \in Nat /\ table[s].born \in Nat
         /\ \A p : \A s \in On(p) : s \in Sections /\ table[s] \in RowTypes /\ table[s].position \in Nat
BY SectionOrderAssumption DEF TableSound, RowTypes, On

LEMMA PlaceAtTheEnd ==
  ASSUME TableSound, NEW p
  PROVE  NextPosition(p) \in Nat /\ \A s \in On(p) : table[s].position < NextPosition(p)
<1> DEFINE after == [s \in On(p) |-> table[s].position + 1]
           T == {after[s] : s \in On(p)}
<1>1. IsFiniteSet(On(p)) /\ \A s \in On(p) : table[s].position \in Nat
  BY OnSections, RowCount, TypedRows
<1>2. after \in Surjection(On(p), T)
  BY DEF Surjection
<1>3. IsFiniteSet(T)
  <2> HIDE DEF after, T
  <2> QED
    BY <1>1, <1>2, FS_Surjection
<1>4. T \subseteq Nat
  BY <1>1
<1>5. IsFiniteSet({0} \cup T)
  <2> HIDE DEF T
  <2>1. IsFiniteSet(T \cup {0})
    BY <1>3, FS_AddElement
  <2> QED
    BY <2>1, T \cup {0} = {0} \cup T
<1>6. NextPosition(p) = Positions!Max({0} \cup T)
  <2>1. {table[s].position + 1 : s \in On(p)} = T
    OBVIOUS
  <2> QED
    BY <2>1 DEF NextPosition
<1>7. {0} \cup T \in SUBSET Nat /\ {0} \cup T # {}
  BY <1>4
<1>8. NextPosition(p) \in {0} \cup T /\ \A y \in {0} \cup T : y <= NextPosition(p)
  <2> HIDE DEF T
  <2> QED
    BY <1>5, <1>6, <1>7, MaxOf
<1>9. ASSUME NEW s \in On(p) PROVE table[s].position < NextPosition(p)
  <2>1. table[s].position + 1 \in T
    OBVIOUS
  <2> QED
    BY <1>1, <1>4, <1>8, <2>1
<1> QED
  BY <1>4, <1>8, <1>9

\* created_at tells the rows of one position apart.
LEMMA RowOrder ==
  ASSUME TableSound, NEW s \in Sections, NEW t \in Sections, table[s] # Nothing, table[t] # Nothing
  PROVE  /\ ~(Before(s, t) /\ Before(t, s))
         /\ s = t \/ Before(s, t) \/ Before(t, s)
         /\ \A u \in Sections : table[u] # Nothing /\ Before(s, t) /\ Before(t, u) => Before(s, u)
<1>1. \A x \in Sections : table[x] # Nothing => table[x].position \in Nat /\ table[x].born \in Nat
  BY TypedRows
<1> QED
  BY <1>1 DEF Before, TableSound

\* A row's rank among S says how it compares with the others.
LEMMA OrderedRanks ==
  ASSUME TableSound, NEW S \in SUBSET Sections, \A s \in S : table[s] # Nothing
  PROVE  /\ Ordered(S) \in [S -> 0..MaxSections] /\ Ordered(S) \in Ranks
         /\ \A s, t \in S : Before(s, t) => Ordered(S)[s] < Ordered(S)[t]
<1> DEFINE earlier(s) == {t \in S : Before(t, s)}
<1>1. Ordered(S) = [s \in S |-> Cardinality(earlier(s))]
  BY DEF Ordered
<1>2. \A s \in S : Cardinality(earlier(s)) \in 0..MaxSections
  BY RowCount
<1>3. ASSUME NEW s \in S, NEW t \in S, Before(s, t)
      PROVE  Cardinality(earlier(s)) < Cardinality(earlier(t))
  <2>1. earlier(s) \in SUBSET earlier(t)
    BY <1>3, RowOrder
  <2>2. s \in earlier(t) /\ s \notin earlier(s) /\ earlier(t) \in SUBSET Sections
    BY <1>3, RowOrder
  <2> HIDE DEF earlier
  <2> QED
    BY <2>1, <2>2, RowCount
<1> HIDE DEF earlier
<1>4. Ordered(S) \in [S -> 0..MaxSections]
  BY <1>1, <1>2
<1> QED
  BY <1>1, <1>3, <1>4 DEF Ranks

\* The index of a row among those that were got: as many are of a lower rank.
LEMMA Indexes ==
  ASSUME NEW S \in SUBSET Sections, NEW rank, \A s \in S : rank[s] \in Nat
  PROVE  /\ Index(S, rank) \in [S -> Nat]
         /\ \A s, t \in S : rank[s] < rank[t] => Index(S, rank)[s] < Index(S, rank)[t]
<1> DEFINE lower(s) == {t \in S : rank[t] < rank[s]}
<1>1. \A s \in S : Cardinality(lower(s)) \in Nat
  <2>1. \A s \in S : lower(s) \in SUBSET Sections
    OBVIOUS
  <2> HIDE DEF lower
  <2> QED
    BY <2>1, RowCount
<1>2. ASSUME NEW s \in S, NEW t \in S, rank[s] < rank[t]
      PROVE  Cardinality(lower(s)) < Cardinality(lower(t))
  <2>1. lower(s) \in SUBSET lower(t) /\ lower(t) \in SUBSET Sections /\ s \in lower(t) /\ s \notin lower(s)
    BY <1>2
  <2> HIDE DEF lower
  <2> QED
    BY <2>1, RowCount
<1>3. Index(S, rank) = [s \in S |-> Cardinality(lower(s))]
  BY DEF Index
<1> HIDE DEF lower
<1> QED
  BY <1>1, <1>2, <1>3

\* What kind of request it is.
LEMMA Kinds ==
  ASSUME NEW r \in Pendings
  PROVE  /\ r.op \in {"create", "place", "move", "reorder"}
         /\ r.op = "create" <=> r \in Creations
         /\ r.op = "place" <=> r \in Placings
         /\ r.op = "move" <=> r \in Movings
         /\ r.op = "reorder" <=> r \in Reorderings
         /\ r.pages \in SUBSET Pages /\ r.disturbed \in SUBSET Pages /\ r.locks \in SUBSET Sections
BY DEF Pendings, Creations, Placings, Movings, Reorderings

\* A request stays sound while others change neither a row it has locked nor,
\* but for deletes, a page that they do not tell it they disturb.
LEMMA Undisturbed ==
  ASSUME NEW k \in Clients, pending[k] \in Pendings, RequestSound(pending[k]),
         NEW d, d \subseteq pending[k].pages, pending[k].disturbed \subseteq d,
         pending'[k] = [pending[k] EXCEPT !.disturbed = d],
         \A s \in pending[k].locks : table'[s] = table[s],
         \A p \in pending[k].pages \ d : \A s \in On(p)' : s \in On(p) /\ table'[s] = table[s]
  PROVE  pending'[k] \in Pendings /\ RequestSound(pending[k])'
<1> DEFINE r == pending[k]
           q == pending'[k]
<1>1. r.locks \subseteq Sections /\ d \subseteq Pages
  BY Kinds
<1>2. q.op = r.op /\ q.pages = r.pages /\ q.disturbed = d /\ q.locks = r.locks
  BY DEF Pendings, Creations, Placings, Movings, Reorderings
<1>3. q.disturbed \subseteq q.pages /\ \A s \in q.locks : table'[s] # Nothing
  BY <1>2 DEF RequestSound
<1>4. ASSUME q.page = r.page, q.position = r.position, r.page \in r.pages, PlaceSound(r)
      PROVE  PlaceSound(pending[k])'
  BY <1>2, <1>4 DEF PlaceSound
<1>5. ASSUME q.row = r.row, q.from = r.from, q.page = r.page, MoveSound(r)
      PROVE  MoveSound(pending[k])'
  BY <1>2, <1>5 DEF MoveSound
<1>6. ASSUME NEW others, q.from = r.from, q.todo = r.todo, q.got = r.got, q.rank = r.rank,
             SortSound(r, others)
      PROVE  SortSound(pending[k], others)'
  <2>1. q.from \in q.pages /\ q.todo \subseteq DOMAIN q.rank
    BY <1>2, <1>6 DEF SortSound
  <2>2. q.got \subseteq q.locks \cap On(r.from)' \cap DOMAIN q.rank
    BY <1>1, <1>2, <1>6 DEF SortSound, On
  <2>3. ASSUME q.from \notin q.disturbed
        PROVE  \A s \in On(r.from)' : s \in On(r.from) /\ table'[s] = table[s]
    BY <1>2, <1>6, <2>1, <2>3
  <2>4. ASSUME q.from \notin q.disturbed
        PROVE  On(r.from)' \subseteq q.got \cup q.todo \cup others
    BY <1>2, <1>6, <2>3, <2>4 DEF SortSound
  <2>5. ASSUME q.from \notin q.disturbed, NEW s \in On(r.from)' \cap (q.got \cup q.todo),
               NEW t \in On(r.from)' \cap (q.got \cup q.todo), Before(s, t)'
        PROVE  q.rank[s] < q.rank[t]
    <3>1. s \in On(r.from) /\ t \in On(r.from) /\ table'[s] = table[s] /\ table'[t] = table[t]
      BY <2>3, <2>5
    <3>2. Before(s, t)
      BY <2>5, <3>1 DEF Before
    <3> QED
      BY <1>2, <1>6, <2>5, <3>1, <3>2 DEF SortSound
  <2> QED
    BY <2>1, <2>2, <2>4, <2>5 DEF SortSound
<1>7. CASE r.op = "create"
  <2>1. q \in Creations /\ q.page = r.page /\ q.position = r.position
    BY <1>1, <1>7, Kinds DEF Creations
  <2>2. PlaceSound(pending[k])' /\ q.page \in q.pages
    BY <1>2, <1>4, <1>7, <2>1 DEF RequestSound
  <2> QED
    BY <1>2, <1>3, <1>7, <2>1, <2>2 DEF RequestSound, Pendings
<1>8. CASE r.op = "place"
  <2>1. q \in Placings /\ q.row = r.row /\ q.from = r.from /\ q.page = r.page /\ q.position = r.position
    BY <1>1, <1>8, Kinds DEF Placings
  <2>2. MoveSound(pending[k])' /\ PlaceSound(pending[k])'
    BY <1>4, <1>5, <1>8, <2>1 DEF RequestSound, MoveSound
  <2> QED
    BY <1>2, <1>3, <1>8, <2>1, <2>2 DEF RequestSound, Pendings
<1>9. CASE r.op = "move"
  <2>1. /\ q \in Movings /\ q.row = r.row /\ q.from = r.from /\ q.page = r.page /\ q.position = r.position
        /\ q.todo = r.todo /\ q.got = r.got /\ q.rank = r.rank
    BY <1>1, <1>9, Kinds DEF Movings
  <2>2. MoveSound(pending[k])' /\ PlaceSound(pending[k])' /\ SortSound(pending[k], {r.row})'
    BY <1>4, <1>5, <1>6, <1>9, <2>1 DEF RequestSound, MoveSound
  <2> QED
    BY <1>2, <1>3, <1>9, <2>1, <2>2 DEF RequestSound, Pendings
<1>10. CASE r.op = "reorder"
  <2>1. q \in Reorderings /\ q.from = r.from /\ q.todo = r.todo /\ q.got = r.got /\ q.rank = r.rank
    BY <1>1, <1>10, Kinds DEF Reorderings
  <2>2. SortSound(pending[k], {})'
    BY <1>6, <1>10, <2>1 DEF RequestSound
  <2> QED
    BY <1>2, <1>3, <1>10, <2>1, <2>2 DEF RequestSound, Pendings
<1> QED
  BY <1>7, <1>8, <1>9, <1>10, Kinds

\* c has looked or locked, and now is about to do q.
LEMMA LookInv ==
  ASSUME OrderIInv, NEW c \in Clients, NEW q \in Pendings, RequestSound(q),
         pending' = [pending EXCEPT ![c] = q], UNCHANGED <<table, commits>>,
         \A k \in Clients \ {c} : pending[k] # Nothing => q.locks \cap pending[k].locks = {}
  PROVE  OrderIInv'
<1>1. pending' \in [Clients -> Pendings \cup {Nothing}]
  BY DEF OrderIInv
<1>2. pending'[c] = q /\ \A k \in Clients \ {c} : pending'[k] = pending[k]
  BY DEF OrderIInv
<1>3. TableSound' /\ (commits \in 0..MaxCommits)'
  BY DEF OrderIInv, TableSound
<1>4. LocksExclude'
  BY <1>2 DEF OrderIInv, LocksExclude
<1>5. ASSUME NEW k \in Clients, pending'[k] # Nothing PROVE RequestSound(pending[k])'
  <2>1. RequestSound(pending'[k])
    BY <1>2, <1>5 DEF OrderIInv
  <2> QED
    BY <2>1 DEF RequestSound, PlaceSound, MoveSound, SortSound, On, Before
<1> QED
  BY <1>1, <1>3, <1>4, <1>5 DEF OrderIInv

\* c has written and is done; the others hear of the pages it wrote.
LEMMA WroteInv ==
  ASSUME OrderIInv, NEW c \in Clients, pending[c] # Nothing, Wrote(c), Commits, TableSound',
         \A s \in Sections : table'[s] # table[s] => table[s] = Nothing \/ s \in pending[c].locks,
         \A s \in Sections : table'[s] # table[s] /\ table'[s] # Nothing => table'[s].page \in pending[c].pages
  PROVE  OrderIInv'
<1> DEFINE d(k) == pending[k].disturbed \cup (pending[c].pages \cap pending[k].pages)
<1>1. /\ pending'[c] = Nothing
      /\ \A k \in Clients \ {c} : /\ pending[k] = Nothing => pending'[k] = Nothing
                                  /\ pending[k] # Nothing => pending'[k] = [pending[k] EXCEPT !.disturbed = d(k)]
  BY DEF Wrote
<1>2. ASSUME NEW k \in Clients, pending'[k] # Nothing
      PROVE  /\ pending'[k] \in Pendings /\ RequestSound(pending[k])'
             /\ k # c /\ pending[k] # Nothing /\ pending'[k].locks = pending[k].locks
  <2>1. k # c /\ pending[k] # Nothing /\ pending'[k] = [pending[k] EXCEPT !.disturbed = d(k)]
    BY <1>1, <1>2
  <2>2. pending[k] \in Pendings /\ RequestSound(pending[k])
    BY <2>1 DEF OrderIInv
  <2>3. \A s \in pending[k].locks : table'[s] = table[s]
    <3>1. \A s \in pending[k].locks : s \in Sections /\ table[s] # Nothing /\ s \notin pending[c].locks
      BY <2>1, <2>2, Kinds DEF RequestSound, OrderIInv, LocksExclude
    <3> QED
      BY <3>1
  <2>4. d(k) \subseteq pending[k].pages /\ pending[k].disturbed \subseteq d(k)
    BY <2>2 DEF RequestSound
  <2>5. \A p \in pending[k].pages \ d(k) : \A s \in On(p)' : s \in On(p) /\ table'[s] = table[s]
    BY DEF On
  <2>6. pending'[k].locks = pending[k].locks
    BY <2>1, <2>2 DEF Pendings, Creations, Placings, Movings, Reorderings
  <2> HIDE DEF d
  <2> QED
    BY <2>1, <2>2, <2>3, <2>4, <2>5, <2>6, Undisturbed
<1>3. pending' \in [Clients -> Pendings \cup {Nothing}]
  <2>1. DOMAIN pending' = Clients /\ pending' = [k \in Clients |-> pending'[k]]
    BY DEF Wrote
  <2> QED
    BY <1>2, <2>1
<1>4. LocksExclude'
  BY <1>2 DEF OrderIInv, LocksExclude
<1>5. commits' \in 0..MaxCommits
  BY SectionOrderAssumption DEF OrderIInv, Commits
<1> QED
  BY <1>2, <1>3, <1>4, <1>5 DEF OrderIInv

\* A query that gets further keeps what is sound about its request.
LEMMA AcquiredSound ==
  ASSUME TableSound, NEW c \in Clients, NEW r \in Movings \cup Reorderings, RequestSound(r)
  PROVE  /\ Acquired(c, r) \in Pendings /\ RequestSound(Acquired(c, r))
         /\ \A k \in Clients \ {c} : pending[k] # Nothing /\ r.locks \cap pending[k].locks = {}
              => Acquired(c, r).locks \cap pending[k].locks = {}
<1> DEFINE q == Acquired(c, r)
           U == Unlocked(c, r)
           L == {s \in U : table[s] # Nothing}
<1>1. r \in Pendings /\ (r.op = "move" \/ r.op = "reorder") /\ r.rank \in Ranks
  BY DEF Pendings, Movings, Reorderings
<1>2. \E others : SortSound(r, others)
  BY <1>1 DEF RequestSound
<1>3. U \subseteq r.todo /\ U \subseteq DOMAIN r.rank /\ U \subseteq Sections /\ \A s \in U : ~LockedBut(c, s)
  <2>1. U \subseteq r.todo /\ r.todo \subseteq Sections
    BY DEF Unlocked, Movings, Reorderings
  <2>2. \A s \in r.todo : r.rank[s] \in Nat
    BY <1>1, <1>2 DEF SortSound, Ranks
  <2> QED
    BY <1>2, <2>1, <2>2 DEF Unlocked, SortSound
<1> HIDE DEF U
<1>4. q = [r EXCEPT !.todo = r.todo \ U, !.got = r.got \cup (U \cap On(r.from)), !.locks = r.locks \cup L]
  BY DEF Acquired, U, Movings, Reorderings
<1>5. /\ q.op = r.op /\ q.pages = r.pages /\ q.from = r.from /\ q.disturbed = r.disturbed /\ q.rank = r.rank
      /\ q.todo = r.todo \ U /\ q.got = r.got \cup (U \cap On(r.from)) /\ q.locks = r.locks \cup L
  BY <1>4 DEF Movings, Reorderings
<1>6. \A k \in Clients \ {c} : pending[k] # Nothing /\ r.locks \cap pending[k].locks = {}
        => q.locks \cap pending[k].locks = {}
  BY <1>3, <1>5 DEF LockedBut
<1>7. q.todo \subseteq Sections /\ q.got \subseteq Sections /\ q.locks \subseteq Sections
  BY <1>3, <1>5, OnSections DEF Movings, Reorderings
<1>8. ASSUME NEW others, SortSound(r, others) PROVE SortSound(q, others)
  <2>1. q.got \subseteq q.locks \cap On(q.from) \cap DOMAIN q.rank
    BY <1>3, <1>5, <1>8, OnSections DEF SortSound
  <2>2. On(r.from) \cap (q.got \cup q.todo) \subseteq On(r.from) \cap (r.got \cup r.todo)
    BY <1>3, <1>5
  <2> HIDE DEF q, L
  <2> QED
    BY <1>3, <1>5, <1>8, <2>1, <2>2 DEF SortSound
<1>9. q.disturbed \subseteq q.pages /\ \A s \in q.locks : table[s] # Nothing
  BY <1>5 DEF RequestSound
<1>10. CASE r.op = "move"
  <2>1. r \in Movings
    BY <1>1, <1>10, Kinds
  <2>2. q \in Movings /\ q.row = r.row /\ q.page = r.page /\ q.position = r.position
    <3> HIDE DEF q
    <3> QED
      BY <1>4, <1>5, <1>7, <2>1 DEF Movings
  <2> HIDE DEF q, L
  <2>3. MoveSound(q) /\ PlaceSound(q) /\ SortSound(q, {q.row}) /\ q.row \notin q.got \cup q.todo
    BY <1>3, <1>5, <1>8, <1>10, <2>2 DEF RequestSound, MoveSound, PlaceSound
  <2> QED
    BY <1>5, <1>6, <1>9, <1>10, <2>2, <2>3 DEF RequestSound, Pendings, q
<1>11. CASE r.op = "reorder"
  <2>1. r \in Reorderings
    BY <1>1, <1>11, Kinds
  <2>2. q \in Reorderings
    <3> HIDE DEF q
    <3> QED
      BY <1>4, <1>5, <1>7, <2>1 DEF Reorderings
  <2> HIDE DEF q, L
  <2>3. SortSound(q, {})
    BY <1>8, <1>11 DEF RequestSound
  <2> QED
    BY <1>5, <1>6, <1>9, <1>11, <2>2, <2>3 DEF RequestSound, Pendings, q
<1> QED
  BY <1>1, <1>10, <1>11

LEMMA AcquireInv ==
  ASSUME OrderIInv, NEW c \in Clients, NEW m \in Movings \cup Reorderings, RequestSound(m),
         \A k \in Clients \ {c} : pending[k] # Nothing => m.locks \cap pending[k].locks = {},
         pending' = [pending EXCEPT ![c] = Acquired(c, m)], UNCHANGED <<table, commits>>
  PROVE  OrderIInv'
<1> DEFINE q == Acquired(c, m)
<1>1. TableSound
  BY DEF OrderIInv
<1>2. /\ q \in Pendings /\ RequestSound(q)
      /\ \A k \in Clients \ {c} : pending[k] # Nothing => q.locks \cap pending[k].locks = {}
  BY <1>1, AcquiredSound
<1>3. pending' = [pending EXCEPT ![c] = q]
  OBVIOUS
<1> HIDE DEF q
<1> QED
  BY <1>2, <1>3, LookInv

LEMMA CreateLooksInv ==
  ASSUME OrderIInv, NEW c \in Clients, NEW p \in Pages, CreateLooks(c, p)
  PROVE  OrderIInv'
<1> DEFINE q == [op |-> "create", pages |-> {p}, page |-> p, position |-> NextPosition(p),
                 disturbed |-> {}, locks |-> {}]
<1>1. NextPosition(p) \in Nat /\ \A s \in On(p) : table[s].position < NextPosition(p)
  BY PlaceAtTheEnd DEF OrderIInv
<1>2. q \in Pendings
  BY <1>1 DEF Pendings, Creations
<1>3. RequestSound(q)
  BY <1>1 DEF RequestSound, PlaceSound
<1>4. q.locks = {}
  OBVIOUS
<1>5. pending' = [pending EXCEPT ![c] = q] /\ UNCHANGED <<table, commits>>
  BY DEF CreateLooks
<1> HIDE DEF q
<1> QED
  BY <1>2, <1>3, <1>4, <1>5, LookInv

LEMMA MoveLooksInv ==
  ASSUME OrderIInv, NEW c \in Clients, NEW s \in Sections, NEW p \in Pages, MoveLooks(c, s, p)
  PROVE  OrderIInv'
<1> DEFINE q == [op |-> "place", row |-> s, pages |-> {p, table[s].page}, page |-> p, from |-> table[s].page,
                 position |-> NextPosition(p), disturbed |-> {}, locks |-> {s}]
<1>1. NextPosition(p) \in Nat /\ \A t \in On(p) : table[t].position < NextPosition(p)
  BY PlaceAtTheEnd DEF OrderIInv
<1>2. table[s] # Nothing /\ table[s].page # p /\ table[s].page \in Pages /\ ~LockedBut(c, s)
  BY TypedRows DEF MoveLooks, OrderIInv
<1>3. q \in Pendings
  BY <1>1, <1>2 DEF Pendings, Placings
<1>4. RequestSound(q)
  BY <1>1, <1>2 DEF RequestSound, MoveSound, PlaceSound
<1>5. \A k \in Clients \ {c} : pending[k] # Nothing => q.locks \cap pending[k].locks = {}
  BY <1>2 DEF LockedBut
<1>6. pending' = [pending EXCEPT ![c] = q] /\ UNCHANGED <<table, commits>>
  BY DEF MoveLooks
<1> HIDE DEF q
<1> QED
  BY <1>3, <1>4, <1>5, <1>6, LookInv

\* Every row that is there is in the sort, and its rank says where.
LEMMA SortedSound ==
  ASSUME TableSound, NEW r, NEW others, r.from \in r.pages, r.todo = On(r.from) \ others,
         r.rank = Ordered(r.todo), r.got = {}
  PROVE  SortSound(r, others) /\ r.rank \in Ranks
<1>1. /\ r.todo \subseteq On(r.from) /\ r.todo \in SUBSET Sections
      /\ \A s \in r.todo : table[s] # Nothing
  BY OnSections
<1>2. /\ r.rank \in [r.todo -> 0..MaxSections] /\ r.rank \in Ranks
      /\ \A s, t \in r.todo : Before(s, t) => r.rank[s] < r.rank[t]
  BY <1>1, OrderedRanks
<1> QED
  BY <1>1, <1>2 DEF SortSound

LEMMA ResequenceSortsInv ==
  ASSUME OrderIInv, NEW c \in Clients, ResequenceSorts(c)
  PROVE  OrderIInv'
<1> DEFINE r == pending[c]
           rest == On(r.from) \ {r.row}
           m == [op |-> "move", row |-> r.row, pages |-> r.pages, page |-> r.page, from |-> r.from,
                 position |-> r.position, disturbed |-> r.disturbed, locks |-> r.locks,
                 todo |-> rest, rank |-> Ordered(rest), got |-> {}]
<1>1. /\ r # Nothing /\ r \in Placings /\ RequestSound(r) /\ MoveSound(r) /\ PlaceSound(r)
      /\ r.disturbed \subseteq r.pages /\ \A s \in r.locks : table[s] # Nothing
  BY Kinds DEF ResequenceSorts, OrderIInv, RequestSound
<1>2. /\ m.op = "move" /\ m.row = r.row /\ m.pages = r.pages /\ m.page = r.page /\ m.from = r.from
      /\ m.position = r.position /\ m.disturbed = r.disturbed /\ m.locks = r.locks
      /\ m.todo = rest /\ m.rank = Ordered(rest) /\ m.got = {}
  OBVIOUS
<1>3. TableSound /\ rest \subseteq Sections
  BY OnSections DEF OrderIInv
<1>4. pending' = [pending EXCEPT ![c] = Acquired(c, m)] /\ UNCHANGED <<table, commits>>
  BY DEF ResequenceSorts
<1>5. SortSound(m, {m.row}) /\ Ordered(rest) \in Ranks
  <2> HIDE DEF m
  <2>1. m.from \in m.pages
    BY <1>1, <1>2 DEF MoveSound
  <2> QED
    BY <1>2, <1>3, <2>1, SortedSound
<1>6. m \in Movings
  <2> HIDE DEF rest
  <2> QED
    BY <1>1, <1>3, <1>5 DEF Movings, Placings
<1> HIDE DEF m
<1>7. RequestSound(m)
  BY <1>1, <1>2, <1>5 DEF RequestSound, MoveSound, PlaceSound
<1>8. \A k \in Clients \ {c} : pending[k] # Nothing => m.locks \cap pending[k].locks = {}
  BY <1>1, <1>2 DEF OrderIInv, LocksExclude
<1> QED
  BY <1>4, <1>6, <1>7, <1>8, AcquireInv

LEMMA ReorderSelectsInv ==
  ASSUME OrderIInv, NEW c \in Clients, NEW p \in Pages, ReorderSelects(c, p)
  PROVE  OrderIInv'
<1> DEFINE m == [op |-> "reorder", pages |-> {p}, from |-> p, disturbed |-> {}, locks |-> {},
                 todo |-> On(p), rank |-> Ordered(On(p)), got |-> {}]
<1>1. /\ m.op = "reorder" /\ m.pages = {p} /\ m.from = p /\ m.disturbed = {} /\ m.locks = {}
      /\ m.todo = On(p) /\ m.rank = Ordered(On(p)) /\ m.got = {}
  OBVIOUS
<1>2. TableSound /\ On(p) \subseteq Sections
  BY OnSections DEF OrderIInv
<1>3. pending' = [pending EXCEPT ![c] = Acquired(c, m)] /\ UNCHANGED <<table, commits>>
  BY DEF ReorderSelects
<1>4. SortSound(m, {}) /\ Ordered(On(p)) \in Ranks
  <2> HIDE DEF m
  <2>1. m.todo = On(m.from) \ {}
    BY <1>1
  <2> QED
    BY <1>1, <1>2, <2>1, SortedSound
<1>5. m \in Reorderings
  BY <1>2, <1>4 DEF Reorderings
<1> HIDE DEF m
<1>6. RequestSound(m)
  BY <1>1, <1>4 DEF RequestSound
<1>7. \A k \in Clients \ {c} : pending[k] # Nothing => m.locks \cap pending[k].locks = {}
  BY <1>1
<1> QED
  BY <1>3, <1>5, <1>6, <1>7, AcquireInv

LEMMA LockMoreInv ==
  ASSUME OrderIInv, NEW c \in Clients, LockMore(c)
  PROVE  OrderIInv'
<1> DEFINE r == pending[c]
<1>1. r # Nothing /\ r \in Movings \cup Reorderings /\ RequestSound(r) /\ TableSound
  BY Kinds DEF LockMore, OrderIInv
<1>2. pending' = [pending EXCEPT ![c] = Acquired(c, r)] /\ UNCHANGED <<table, commits>>
  BY DEF LockMore, OrderIInv
<1>3. \A k \in Clients \ {c} : pending[k] # Nothing => r.locks \cap pending[k].locks = {}
  BY <1>1 DEF OrderIInv, LocksExclude
<1> HIDE DEF r
<1> QED
  BY <1>1, <1>2, <1>3, AcquireInv

LEMMA FailsInv ==
  ASSUME OrderIInv, NEW c \in Clients, Fails(c)
  PROVE  OrderIInv'
<1>1. /\ pending' \in [Clients -> Pendings \cup {Nothing}]
      /\ \A k \in Clients : pending'[k] # Nothing => pending'[k] = pending[k] /\ pending[k] # Nothing
      /\ UNCHANGED <<table, commits>>
  BY DEF Fails, Replied, OrderIInv
<1>2. TableSound' /\ LocksExclude' /\ (commits \in 0..MaxCommits)'
  BY <1>1 DEF OrderIInv, TableSound, LocksExclude
<1>3. ASSUME NEW k \in Clients, pending'[k] # Nothing PROVE RequestSound(pending[k])'
  <2>1. RequestSound(pending'[k])
    BY <1>1, <1>3 DEF OrderIInv
  <2> QED
    BY <1>1, <2>1 DEF RequestSound, PlaceSound, MoveSound, SortSound, On, Before
<1> QED
  BY <1>1, <1>2, <1>3 DEF OrderIInv

LEMMA DeleteInv ==
  ASSUME OrderIInv, NEW s \in Sections, Delete(s)
  PROVE  OrderIInv'
<1>1. /\ table' = [table EXCEPT ![s] = Nothing] /\ pending' = pending /\ commits' = commits + 1
      /\ commits < MaxCommits /\ table[s] # Nothing
      /\ \A c \in Clients : pending[c] # Nothing => s \notin pending[c].locks
  BY DEF Delete, Commits
<1>2. TableSound' /\ (commits \in 0..MaxCommits)'
  BY <1>1, SectionOrderAssumption DEF OrderIInv, TableSound, RowTypes
<1>3. ASSUME NEW k \in Clients, pending[k] # Nothing PROVE RequestSound(pending[k])'
  <2>1. pending[k] \in Pendings /\ RequestSound(pending[k])
    BY <1>3 DEF OrderIInv
  <2>2. pending'[k] = [pending[k] EXCEPT !.disturbed = pending[k].disturbed]
    BY <1>1, <2>1 DEF Pendings, Creations, Placings, Movings, Reorderings
  <2>3. \A t \in pending[k].locks : table'[t] = table[t]
    BY <1>1, <1>3, <2>1, Kinds DEF OrderIInv, TableSound
  <2>4. \A p : \A t \in On(p)' : t \in On(p) /\ table'[t] = table[t]
    BY <1>1 DEF OrderIInv, TableSound, On
  <2>5. pending[k].disturbed \subseteq pending[k].pages
    BY <2>1 DEF RequestSound
  <2> QED
    BY <2>1, <2>2, <2>3, <2>4, <2>5, Undisturbed
<1> QED
  BY <1>1, <1>2, <1>3 DEF OrderIInv, LocksExclude

\* Rows written by one commit are sound if their born columns are: kept, or new.
LEMMA NumberedRows ==
  ASSUME TableSound, NEW S \in SUBSET Sections, NEW index \in [S -> Nat],
         \A s \in S : table[s] # Nothing
  PROVE  /\ DOMAIN Numbered(index) = Sections
         /\ \A s \in Sections \ S : Numbered(index)[s] = table[s]
         /\ \A s \in S : /\ Numbered(index)[s] \in RowTypes
                         /\ Numbered(index)[s].page = table[s].page
                         /\ Numbered(index)[s].position = index[s]
                         /\ Numbered(index)[s].born = table[s].born
<1>1. \A s \in Sections \ S : Numbered(index)[s] = table[s]
  BY DEF Numbered
<1>2. ASSUME NEW s \in S
      PROVE  /\ table[s] \in RowTypes /\ index[s] \in Nat
             /\ Numbered(index)[s] = [table[s] EXCEPT !.position = index[s]]
  BY TypedRows DEF Numbered
<1> QED
  BY <1>1, <1>2 DEF Numbered, RowTypes

LEMMA CreateInsertsInv ==
  ASSUME OrderIInv, NEW c \in Clients, CreateInserts(c)
  PROVE  OrderIInv'
<1> DEFINE r == pending[c]
<1>1. r # Nothing /\ r.op = "create" /\ r \in Creations /\ RequestSound(r) /\ r.page \in r.pages
  BY Kinds DEF CreateInserts, OrderIInv, RequestSound
<1>2. PICK s \in Sections :
        /\ table[s] = Nothing
        /\ table' = [table EXCEPT ![s] =
             [page |-> r.page, position |-> r.position, born |-> MaxSections + commits + 1]]
  BY DEF CreateInserts
<1>3. TableSound /\ commits \in Nat /\ commits < MaxCommits /\ commits' = commits + 1
  BY DEF OrderIInv, CreateInserts, Commits
<1>4. table'[s].page = r.page /\ table'[s].born = MaxSections + commits + 1 /\ table'[s] \in RowTypes
  BY <1>1, <1>2, <1>3, SectionOrderAssumption DEF TableSound, Creations, RowTypes
<1>5. \A t \in Sections \ {s} : table'[t] = table[t]
  BY <1>2, <1>3 DEF TableSound
<1>6. \A t \in Sections : table[t] # Nothing => table[t].born \in Nat /\ table[t].born <= MaxSections + commits
  BY <1>3, TypedRows DEF TableSound
<1>7. TableSound'
  <2>1. table' \in [Sections -> RowTypes \cup {Nothing}]
    BY <1>2, <1>3, <1>4, <1>5 DEF TableSound
  <2>2. \A t \in Sections : table'[t] # Nothing => table'[t].born <= MaxSections + commits'
    BY <1>3, <1>4, <1>5, <1>6, SectionOrderAssumption
  <2>3. \A t, u \in Sections :
          table'[t] # Nothing /\ table'[u] # Nothing /\ table'[t].born = table'[u].born => t = u
    BY <1>3, <1>4, <1>5, <1>6, SectionOrderAssumption DEF TableSound
  <2> QED
    BY <2>1, <2>2, <2>3 DEF TableSound
<1> QED
  BY <1>1, <1>2, <1>4, <1>5, <1>7, WroteInv DEF CreateInserts

\* What the two commits of a sort write.
LEMMA MoveWrites ==
  ASSUME OrderIInv, NEW c \in Clients, MoveCommits(c)
  PROVE  \E index :
           /\ index \in [pending[c].got -> Nat]
           /\ \A s, t \in pending[c].got : pending[c].rank[s] < pending[c].rank[t] => index[s] < index[t]
           /\ DOMAIN table' = Sections
           /\ \A s \in Sections \ (pending[c].got \cup {pending[c].row}) : table'[s] = table[s]
           /\ \A s \in pending[c].got : /\ table[s] # Nothing /\ table'[s] \in RowTypes
                                        /\ table'[s].page = table[s].page
                                        /\ table'[s].position = index[s]
                                        /\ table'[s].born = table[s].born
           /\ table[pending[c].row] # Nothing /\ table'[pending[c].row] \in RowTypes
           /\ table'[pending[c].row].page = pending[c].page
           /\ table'[pending[c].row].position = pending[c].position
           /\ table'[pending[c].row].born = table[pending[c].row].born
<1> DEFINE r == pending[c]
           index == Index(r.got, r.rank)
<1>1. /\ r # Nothing /\ r.op = "move" /\ r \in Movings /\ RequestSound(r) /\ MoveSound(r)
      /\ SortSound(r, {r.row}) /\ r.row \notin r.got /\ TableSound
  BY Kinds DEF MoveCommits, AllLocked, OrderIInv, RequestSound
<1>2. table' = [Numbered(index) EXCEPT ![r.row] = [Numbered(index)[r.row] EXCEPT !.page = r.page, !.position = r.position]]
  BY DEF MoveCommits
<1>3. r.got \in SUBSET Sections /\ r.row \in Sections /\ r.page \in Pages /\ r.position \in Nat /\ r.rank \in Ranks
  BY <1>1 DEF Movings
<1>4. \A s \in r.got : r.rank[s] \in Nat
  BY <1>1, <1>3 DEF SortSound, Ranks
<1>5. index \in [r.got -> Nat] /\ \A s, t \in r.got : r.rank[s] < r.rank[t] => index[s] < index[t]
  <2> HIDE DEF r
  <2> QED
    BY <1>3, <1>4, Indexes
<1>6. (\A s \in r.got : table[s] # Nothing) /\ table[r.row] # Nothing
  BY <1>1 DEF SortSound, MoveSound, RequestSound
<1> HIDE DEF index
<1>7. /\ DOMAIN Numbered(index) = Sections
      /\ \A s \in Sections \ r.got : Numbered(index)[s] = table[s]
      /\ \A s \in r.got : /\ Numbered(index)[s] \in RowTypes
                          /\ Numbered(index)[s].page = table[s].page
                          /\ Numbered(index)[s].position = index[s]
                          /\ Numbered(index)[s].born = table[s].born
  BY <1>1, <1>3, <1>5, <1>6, NumberedRows
<1>8. table[r.row] \in RowTypes /\ Numbered(index)[r.row] = table[r.row]
  BY <1>1, <1>3, <1>6, <1>7, TypedRows
<1>9. \A s \in Sections \ {r.row} : table'[s] = Numbered(index)[s]
  BY <1>2, <1>7
<1>10. table'[r.row] = [table[r.row] EXCEPT !.page = r.page, !.position = r.position]
  BY <1>2, <1>3, <1>7, <1>8
<1>11. /\ table'[r.row] \in RowTypes /\ table'[r.row].page = r.page /\ table'[r.row].position = r.position
       /\ table'[r.row].born = table[r.row].born
  BY <1>3, <1>8, <1>10 DEF RowTypes
<1>12. DOMAIN table' = Sections
  BY <1>2, <1>7
<1> HIDE DEF r
<1>13. \A s \in r.got : s \in Sections \ {r.row}
  BY <1>1, <1>3
<1>14. \A s \in Sections \ (r.got \cup {r.row}) : table'[s] = table[s]
  BY <1>7, <1>9
<1>15. \A s \in r.got : /\ table[s] # Nothing /\ table'[s] \in RowTypes
                        /\ table'[s].page = table[s].page
                        /\ table'[s].position = index[s]
                        /\ table'[s].born = table[s].born
  BY <1>6, <1>7, <1>9, <1>13
<1> QED
  BY <1>5, <1>6, <1>11, <1>12, <1>14, <1>15 DEF r

LEMMA ReorderWrites ==
  ASSUME OrderIInv, NEW c \in Clients, ReorderCommits(c)
  PROVE  \E index :
           /\ index \in [pending[c].got -> Nat]
           /\ \A s, t \in pending[c].got : index[s] = index[t] => s = t
           /\ DOMAIN table' = Sections
           /\ \A s \in Sections \ pending[c].got : table'[s] = table[s]
           /\ \A s \in pending[c].got : /\ table[s] # Nothing /\ table'[s] \in RowTypes
                                        /\ table'[s].page = table[s].page
                                        /\ table'[s].position = index[s]
                                        /\ table'[s].born = table[s].born
<1> DEFINE r == pending[c]
<1>1. r # Nothing /\ r.op = "reorder" /\ r \in Reorderings /\ RequestSound(r) /\ SortSound(r, {}) /\ TableSound
  BY Kinds DEF ReorderCommits, AllLocked, OrderIInv, RequestSound
<1>2. r.got \in SUBSET Sections /\ \A s \in r.got : table[s] # Nothing
  BY <1>1 DEF Reorderings, SortSound, RequestSound
<1>3. PICK index \in Accepted(r.got) : table' = Numbered(index)
  BY DEF ReorderCommits
<1>4. index \in [r.got -> Nat] /\ \A s, t \in r.got : index[s] = index[t] => s = t
  BY <1>2, <1>3, RowCount DEF Accepted
<1> HIDE DEF r
<1>5. /\ DOMAIN Numbered(index) = Sections
      /\ \A s \in Sections \ r.got : Numbered(index)[s] = table[s]
      /\ \A s \in r.got : /\ Numbered(index)[s] \in RowTypes
                          /\ Numbered(index)[s].page = table[s].page
                          /\ Numbered(index)[s].position = index[s]
                          /\ Numbered(index)[s].born = table[s].born
  BY <1>1, <1>2, <1>4, NumberedRows
<1> QED
  BY <1>2, <1>3, <1>4, <1>5 DEF r

\* Rows that are written keep their born columns, and those tell them apart.
LEMMA WrittenSound ==
  ASSUME TableSound, DOMAIN table' = Sections, commits \in Nat, commits' = commits + 1,
         \A s \in Sections : \/ table'[s] = table[s]
                             \/ table[s] # Nothing /\ table'[s] \in RowTypes /\ table'[s].born = table[s].born,
         table' = [s \in Sections |-> table'[s]]
  PROVE  TableSound'
<1>1. \A s \in Sections : table'[s] # Nothing => table[s] # Nothing /\ table'[s].born = table[s].born
  OBVIOUS
<1>2. table' \in [Sections -> RowTypes \cup {Nothing}]
  BY DEF TableSound
<1>3. \A s \in Sections : table'[s] # Nothing => table'[s].born <= MaxSections + commits'
  BY <1>1, TypedRows, SectionOrderAssumption DEF TableSound
<1>4. \A s, t \in Sections :
        table'[s] # Nothing /\ table'[t] # Nothing /\ table'[s].born = table'[t].born => s = t
  BY <1>1 DEF TableSound
<1> QED
  BY <1>2, <1>3, <1>4 DEF TableSound

LEMMA MoveCommitsInv ==
  ASSUME OrderIInv, NEW c \in Clients, MoveCommits(c)
  PROVE  OrderIInv'
<1> DEFINE r == pending[c]
<1>1. /\ r # Nothing /\ MoveSound(r) /\ SortSound(r, {r.row}) /\ RequestSound(r) /\ r.row \in Sections
      /\ r.got \subseteq Sections
  BY Kinds DEF MoveCommits, AllLocked, OrderIInv, RequestSound, Movings
<1>2. PICK index :
        /\ DOMAIN table' = Sections
        /\ \A s \in Sections \ (r.got \cup {r.row}) : table'[s] = table[s]
        /\ \A s \in r.got : /\ table[s] # Nothing /\ table'[s] \in RowTypes
                            /\ table'[s].page = table[s].page
                            /\ table'[s].position = index[s]
                            /\ table'[s].born = table[s].born
        /\ table[r.row] # Nothing /\ table'[r.row] \in RowTypes
        /\ table'[r.row].page = r.page
        /\ table'[r.row].position = r.position
        /\ table'[r.row].born = table[r.row].born
  BY MoveWrites
<1>3. table' = [s \in Sections |-> table'[s]]
  <2> DEFINE index2 == Index(r.got, r.rank)
             moved == [Numbered(index2)[r.row] EXCEPT !.page = r.page, !.position = r.position]
             old == Numbered(index2)
  <2>1. table' = [old EXCEPT ![r.row] = moved]
    BY DEF MoveCommits
  <2>2. old = [s \in Sections |-> old[s]]
    BY DEF Numbered
  <2> HIDE DEF old, moved
  <2> QED
    BY <2>1, <2>2
<1>4. TableSound'
  <2>1. \A s \in Sections : \/ table'[s] = table[s]
                            \/ table[s] # Nothing /\ table'[s] \in RowTypes /\ table'[s].born = table[s].born
    BY <1>2
  <2>2. TableSound /\ commits \in Nat /\ commits' = commits + 1
    BY DEF OrderIInv, MoveCommits, Commits
  <2> QED
    BY <1>2, <1>3, <2>1, <2>2, WrittenSound
<1>5. \A s \in Sections : table'[s] # table[s] => s \in r.got \cup {r.row} /\ s \in r.locks
  BY <1>1, <1>2 DEF SortSound, MoveSound
<1>6. \A s \in r.got \cup {r.row} : table'[s].page \in r.pages
  BY <1>1, <1>2 DEF SortSound, MoveSound, On
<1> QED
  BY <1>1, <1>4, <1>5, <1>6, WroteInv DEF MoveCommits

LEMMA ReorderCommitsInv ==
  ASSUME OrderIInv, NEW c \in Clients, ReorderCommits(c)
  PROVE  OrderIInv'
<1> DEFINE r == pending[c]
<1>1. r # Nothing /\ SortSound(r, {}) /\ RequestSound(r) /\ r.got \subseteq Sections
  BY Kinds DEF ReorderCommits, AllLocked, OrderIInv, RequestSound, Reorderings
<1>2. PICK index :
        /\ DOMAIN table' = Sections
        /\ \A s \in Sections \ r.got : table'[s] = table[s]
        /\ \A s \in r.got : /\ table[s] # Nothing /\ table'[s] \in RowTypes
                            /\ table'[s].page = table[s].page
                            /\ table'[s].position = index[s]
                            /\ table'[s].born = table[s].born
  BY ReorderWrites
<1>3. table' = [s \in Sections |-> table'[s]]
  BY <1>2 DEF ReorderCommits, Numbered
<1>4. TableSound'
  BY <1>2, <1>3, WrittenSound DEF OrderIInv, ReorderCommits, Commits
<1>5. \A s \in Sections : table'[s] # table[s] => s \in r.got /\ s \in r.locks
  BY <1>1, <1>2 DEF SortSound
<1>6. \A s \in r.got : table'[s].page \in r.pages
  BY <1>1, <1>2 DEF SortSound, On
<1> QED
  BY <1>1, <1>4, <1>5, <1>6, WroteInv DEF ReorderCommits

LEMMA OrderInitInv ==
  ASSUME OrderInit PROVE OrderIInv
<1>1. PICK n \in 0..MaxSections : \E home \in [1..n -> Pages] :
        table = [s \in Sections |->
          IF s > n THEN Nothing
          ELSE [page |-> home[s], born |-> s,
                position |-> Cardinality({t \in 1..s - 1 : home[t] = home[s]})]]
  BY DEF OrderInit
<1>2. PICK home \in [1..n -> Pages] :
        table = [s \in Sections |->
          IF s > n THEN Nothing
          ELSE [page |-> home[s], born |-> s,
                position |-> Cardinality({t \in 1..s - 1 : home[t] = home[s]})]]
  BY <1>1
<1> DEFINE earlier(s) == {t \in 1..s - 1 : home[t] = home[s]}
<1>3. ASSUME NEW s \in Sections, table[s] # Nothing
      PROVE  table[s] \in RowTypes /\ table[s].born = s
  <2>1. s \in 1..n /\ table[s] = [page |-> home[s], born |-> s, position |-> Cardinality(earlier(s))]
    BY <1>2, <1>3 DEF Sections
  <2>2. earlier(s) \in SUBSET Sections
    BY SectionOrderAssumption DEF Sections
  <2> HIDE DEF earlier
  <2>3. Cardinality(earlier(s)) \in Nat
    BY <2>2, RowCount, SectionOrderAssumption
  <2>4. s \in 1..MaxSections + MaxCommits
    BY SectionOrderAssumption DEF Sections
  <2> QED
    BY <2>1, <2>3, <2>4 DEF RowTypes
<1>4. commits = 0 /\ pending = [c \in Clients |-> Nothing]
  BY DEF OrderInit
<1>5. table \in [Sections -> RowTypes \cup {Nothing}]
  <2>1. table = [s \in Sections |-> table[s]]
    BY <1>2
  <2> QED
    BY <1>3, <2>1
<1>6. TableSound
  BY <1>3, <1>4, <1>5, SectionOrderAssumption DEF TableSound, Sections
<1> QED
  BY <1>4, <1>6, SectionOrderAssumption DEF OrderIInv, LocksExclude

LEMMA OrderNextInv ==
  ASSUME OrderIInv, OrderNext PROVE OrderIInv'
BY CreateLooksInv, CreateInsertsInv, DeleteInv, LockMoreInv, MoveLooksInv, ResequenceSortsInv,
   ReorderSelectsInv, MoveCommitsInv, ReorderCommitsInv, FailsInv DEF OrderNext

\* Every row there is keeps its type, and every operation under way still knows
\* what it needs to.
THEOREM OrderInvariant == OrderSpec => []OrderIInv
<1>1. OrderInit => OrderIInv
  BY OrderInitInv
<1>2. OrderIInv /\ [OrderNext]_orderVars => OrderIInv'
  <2> SUFFICES ASSUME OrderIInv, UNCHANGED orderVars PROVE OrderIInv'
    BY OrderNextInv
  <2> QED
    BY DEF orderVars, OrderIInv, TableSound, LocksExclude, RequestSound, PlaceSound, MoveSound, SortSound, On, Before
<1> QED
  BY <1>1, <1>2, PTL DEF OrderSpec

-----------------------------------------------------------------------------
(* What a commit does to two sections of a page.                           *)

\* Only commits write, and the one that commits has been answered.
LEMMA Writers ==
  ASSUME OrderIInv, OrderNext, table' # table
  PROVE  \/ \E s \in Sections : Delete(s)
         \/ \E c \in Clients : /\ CreateInserts(c) \/ MoveCommits(c) \/ ReorderCommits(c)
                               /\ pending[c] # Nothing /\ pending'[c] = Nothing
                               /\ RequestSound(pending[c])
<1>1. \/ \E s \in Sections : Delete(s)
      \/ \E c \in Clients : CreateInserts(c) \/ MoveCommits(c) \/ ReorderCommits(c)
  BY DEF OrderNext, CreateLooks, LockMore, MoveLooks, ResequenceSorts, ReorderSelects, Fails
<1>2. ASSUME NEW c \in Clients, CreateInserts(c) \/ MoveCommits(c) \/ ReorderCommits(c)
      PROVE  pending[c] # Nothing /\ pending'[c] = Nothing /\ RequestSound(pending[c])
  <2>1. pending[c] # Nothing /\ Wrote(c)
    BY <1>2 DEF CreateInserts, MoveCommits, ReorderCommits, AllLocked
  <2> QED
    BY <2>1 DEF Wrote, OrderIInv
<1> QED
  BY <1>1, <1>2

\* A delete leaves the others alone.
LEMMA DeleteKeeps ==
  ASSUME OrderIInv, NEW u \in Sections, Delete(u), NEW s \in Sections, table'[s] # Nothing
  PROVE  table'[s] = table[s]
BY DEF Delete, OrderIInv, TableSound

\* A create leaves the others alone, and adds at the end.
LEMMA CreateKeeps ==
  ASSUME OrderIInv, NEW c \in Clients, CreateInserts(c)
  PROVE  \E u \in Sections :
           /\ table[u] = Nothing /\ \A s \in Sections \ {u} : table'[s] = table[s]
           /\ table'[u].page \notin pending[c].disturbed =>
                \A s \in Sections \ {u} : table[s] # Nothing /\ table[s].page = table'[u].page =>
                  table[s].position < table'[u].position
<1> DEFINE r == pending[c]
<1>1. RequestSound(r) /\ r.op = "create"
  BY DEF CreateInserts, OrderIInv
<1>2. PICK u \in Sections :
        /\ table[u] = Nothing
        /\ table' = [table EXCEPT ![u] =
             [page |-> r.page, position |-> r.position, born |-> MaxSections + commits + 1]]
  BY DEF CreateInserts
<1>3. table'[u].page = r.page /\ table'[u].position = r.position /\ \A s \in Sections \ {u} : table'[s] = table[s]
  BY <1>2 DEF OrderIInv, TableSound
<1> QED
  BY <1>1, <1>2, <1>3 DEF RequestSound, PlaceSound, On

\* A move, when it had the page it came from to itself, keeps the order of what
\* is left there.
LEMMA MoveKeeps ==
  ASSUME OrderIInv, NEW c \in Clients, MoveCommits(c),
         NEW s \in Sections \ {pending[c].row}, NEW t \in Sections \ {pending[c].row},
         Together(s, t), Before(s, t), table[s].page \notin pending[c].disturbed
  PROVE  \/ table'[s] = table[s] /\ table'[t] = table[t]
         \/ table'[s].position < table'[t].position
<1> DEFINE r == pending[c]
<1>1. r # Nothing /\ r.todo = {} /\ MoveSound(r) /\ SortSound(r, {r.row})
  BY DEF MoveCommits, AllLocked, OrderIInv, RequestSound
<1>2. PICK index :
        /\ index \in [r.got -> Nat]
        /\ \A x, y \in r.got : r.rank[x] < r.rank[y] => index[x] < index[y]
        /\ \A x \in Sections \ (r.got \cup {r.row}) : table'[x] = table[x]
        /\ \A x \in r.got : table'[x].position = index[x]
  BY MoveWrites
<1>3. CASE table[s].page # r.from
  <2>1. s \notin r.got /\ t \notin r.got
    BY <1>1, <1>3 DEF SortSound, On, Together
  <2> QED
    BY <1>2, <2>1
<1>4. CASE table[s].page = r.from
  <2>1. s \in On(r.from) /\ t \in On(r.from)
    BY <1>4 DEF On, Together
  <2>2. s \in r.got /\ t \in r.got /\ r.rank[s] < r.rank[t]
    BY <1>1, <1>4, <2>1 DEF SortSound
  <2> QED
    BY <1>2, <2>2
<1> QED
  BY <1>3, <1>4

\* The row that a move takes along ends up behind all of a page that it had to
\* itself.
LEMMA MoveAppends ==
  ASSUME OrderIInv, NEW c \in Clients, MoveCommits(c),
         NEW s \in Sections \ {pending[c].row}, table'[s] # Nothing,
         table'[s].page = table'[pending[c].row].page,
         table'[s].page \notin pending[c].disturbed
  PROVE  table'[s].position < table'[pending[c].row].position
<1> DEFINE r == pending[c]
<1>1. r # Nothing /\ MoveSound(r) /\ PlaceSound(r) /\ SortSound(r, {r.row})
  BY DEF MoveCommits, AllLocked, OrderIInv, RequestSound
<1>2. /\ \A x \in Sections \ (r.got \cup {r.row}) : table'[x] = table[x]
      /\ \A x \in r.got : table'[x].page = table[x].page
      /\ table'[r.row].page = r.page /\ table'[r.row].position = r.position
  BY MoveWrites
<1>3. s \notin r.got
  BY <1>1, <1>2 DEF SortSound, MoveSound, On
<1>4. table'[s] = table[s] /\ s \in On(r.page)
  BY <1>2, <1>3 DEF On
<1> QED
  BY <1>1, <1>2, <1>4 DEF PlaceSound

\* A reorder gives the rows of a page that it had to itself indexes of their own.
LEMMA ReorderTells ==
  ASSUME OrderIInv, NEW c \in Clients, ReorderCommits(c), NEW s \in Sections, NEW t \in Sections,
         s # t, Together(s, t), table[s].page \notin pending[c].disturbed
  PROVE  \/ table'[s] = table[s] /\ table'[t] = table[t]
         \/ table'[s].position # table'[t].position
<1> DEFINE r == pending[c]
<1>1. r # Nothing /\ r.todo = {} /\ SortSound(r, {})
  BY DEF ReorderCommits, AllLocked, OrderIInv, RequestSound
<1>2. PICK index :
        /\ \A x, y \in r.got : index[x] = index[y] => x = y
        /\ \A x \in Sections \ r.got : table'[x] = table[x]
        /\ \A x \in r.got : table'[x].position = index[x]
  BY ReorderWrites
<1>3. CASE table[s].page # r.from
  BY <1>1, <1>2, <1>3 DEF SortSound, On, Together
<1>4. CASE table[s].page = r.from
  <2>1. s \in r.got /\ t \in r.got
    BY <1>1, <1>4 DEF SortSound, On, Together
  <2> QED
    BY <1>2, <2>1
<1> QED
  BY <1>3, <1>4

\* Rows that a move or a reorder changes stay what they are but for the row that
\* is taken along.
LEMMA SortKeepsPages ==
  ASSUME OrderIInv, NEW c \in Clients
  PROVE  /\ MoveCommits(c) =>
              /\ \A s \in Sections \ {pending[c].row} :
                   table'[s] # Nothing => table[s] # Nothing /\ table'[s].page = table[s].page
              /\ table'[pending[c].row].page # table[pending[c].row].page
         /\ ReorderCommits(c) =>
              \A s \in Sections : table'[s] # Nothing => table[s] # Nothing /\ table'[s].page = table[s].page
<1>1. ASSUME MoveCommits(c)
      PROVE  /\ \A s \in Sections \ {pending[c].row} :
                  table'[s] # Nothing => table[s] # Nothing /\ table'[s].page = table[s].page
             /\ table'[pending[c].row].page # table[pending[c].row].page
  <2>1. MoveSound(pending[c])
    BY <1>1 DEF MoveCommits, AllLocked, OrderIInv, RequestSound
  <2>2. /\ \A s \in Sections \ (pending[c].got \cup {pending[c].row}) : table'[s] = table[s]
        /\ \A s \in pending[c].got : table[s] # Nothing /\ table'[s].page = table[s].page
        /\ table'[pending[c].row].page = pending[c].page
    BY <1>1, MoveWrites
  <2> QED
    BY <2>1, <2>2 DEF MoveSound
<1>2. ASSUME ReorderCommits(c)
      PROVE  \A s \in Sections : table'[s] # Nothing => table[s] # Nothing /\ table'[s].page = table[s].page
  <2>1. /\ \A s \in Sections \ pending[c].got : table'[s] = table[s]
        /\ \A s \in pending[c].got : table[s] # Nothing /\ table'[s].page = table[s].page
    BY <1>2, ReorderWrites
  <2> QED
    BY <2>1
<1> QED
  BY <1>1, <1>2

LEMMA TieStep ==
  ASSUME OrderIInv, OrderNext, table' # table, NEW s \in Sections, NEW t \in Sections,
         ~Tied(s, t), Tied(s, t)'
  PROVE  \E c \in Clients : pending[c] # Nothing /\ pending'[c] = Nothing /\ ~Alone(c, table'[s].page)
<1>1. /\ s # t /\ table'[s] # Nothing /\ table'[t] # Nothing /\ table'[s].page = table'[t].page
      /\ table'[s].position = table'[t].position
  BY DEF Tied, Together
<1>2. ~(table'[s] = table[s] /\ table'[t] = table[t])
  BY DEF Tied, Together
<1>3. ASSUME NEW u \in Sections, Delete(u) PROVE FALSE
  BY <1>1, <1>2, <1>3, DeleteKeeps
<1>4. ASSUME NEW c \in Clients, RequestSound(pending[c]),
             CreateInserts(c) \/ MoveCommits(c) \/ ReorderCommits(c),
             table'[s].page \notin pending[c].disturbed
      PROVE  FALSE
  <2>0. TableSound
    BY DEF OrderIInv
  <2>1. CASE CreateInserts(c)
    <3>1. PICK u \in Sections :
            /\ \A x \in Sections \ {u} : table'[x] = table[x]
            /\ table'[u].page \notin pending[c].disturbed =>
                 \A x \in Sections \ {u} : table[x] # Nothing /\ table[x].page = table'[u].page =>
                   table[x].position < table'[u].position
      BY <2>1, CreateKeeps
    <3>2. CASE u = s
      <4>1. table'[t] = table[t] /\ table[t].position < table'[s].position /\ table[t].position \in Nat
        BY <1>1, <1>4, <2>0, <3>1, <3>2, TypedRows
      <4> QED
        BY <1>1, <4>1
    <3>3. CASE u = t
      <4>1. table'[s] = table[s] /\ table[s].position < table'[t].position /\ table[s].position \in Nat
        BY <1>1, <1>4, <2>0, <3>1, <3>3, TypedRows
      <4> QED
        BY <1>1, <4>1
    <3> QED
      BY <1>2, <3>1, <3>2, <3>3
  <2>2. CASE MoveCommits(c)
    <3>0. TableSound'
      BY <2>2, MoveCommitsInv DEF OrderIInv
    <3>1. table'[s].position \in Nat /\ table'[t].position \in Nat
      BY <1>1, <3>0 DEF TableSound, RowTypes
    <3>2. CASE s = pending[c].row
      <4>1. table'[t].position < table'[s].position
        BY <1>1, <1>4, <2>2, <3>2, MoveAppends
      <4> QED
        BY <1>1, <3>1, <4>1
    <3>3. CASE t = pending[c].row
      <4>1. table'[s].position < table'[t].position
        BY <1>1, <1>4, <2>2, <3>3, MoveAppends
      <4> QED
        BY <1>1, <3>1, <4>1
    <3>4. CASE s # pending[c].row /\ t # pending[c].row
      <4>1. Together(s, t) /\ Together(t, s) /\ table[s].page \notin pending[c].disturbed
            /\ table[t].page = table[s].page
        BY <1>1, <1>4, <2>2, <3>4, SortKeepsPages DEF Together
      <4>2. Before(s, t) \/ Before(t, s)
        BY <1>1, <2>0, <4>1, RowOrder DEF Together
      <4>3. table'[s].position < table'[t].position \/ table'[t].position < table'[s].position
        BY <1>2, <2>2, <3>4, <4>1, <4>2, MoveKeeps
      <4> QED
        BY <1>1, <3>1, <4>3
    <3> QED
      BY <3>2, <3>3, <3>4
  <2>3. CASE ReorderCommits(c)
    <3>1. Together(s, t) /\ table[s].page \notin pending[c].disturbed
      BY <1>1, <1>4, <2>3, SortKeepsPages DEF Together
    <3> QED
      BY <1>1, <1>2, <2>3, <3>1, ReorderTells
  <2> QED
    BY <1>4, <2>1, <2>2, <2>3
<1> QED
  BY <1>3, <1>4, Writers DEF Alone

LEMMA OrderStep ==
  ASSUME OrderIInv, OrderNext, table' # table, NEW s \in Sections, NEW t \in Sections,
         Together(s, t), Together(s, t)', table'[s].page = table[s].page, Before(s, t), ~Before(s, t)'
  PROVE  \E c \in Clients :
           /\ pending[c] # Nothing /\ pending'[c] = Nothing
           /\ pending[c].op = "reorder" \/ ~Alone(c, table[s].page)
<1>1. /\ s # t /\ table[s] # Nothing /\ table[t] # Nothing /\ table[s].page = table[t].page
      /\ table'[s] # Nothing /\ table'[t] # Nothing /\ table'[t].page = table[t].page
  BY DEF Together
<1>2. ~(table'[s] = table[s] /\ table'[t] = table[t]) /\ ~(table'[s].position < table'[t].position)
  BY DEF Before
<1>3. ASSUME NEW u \in Sections, Delete(u) PROVE FALSE
  BY <1>1, <1>2, <1>3, DeleteKeeps
<1>4. ASSUME NEW c \in Clients, CreateInserts(c) PROVE FALSE
  BY <1>1, <1>2, <1>4, CreateKeeps
<1>5. ASSUME NEW c \in Clients, MoveCommits(c), table[s].page \notin pending[c].disturbed PROVE FALSE
  <2>1. s # pending[c].row /\ t # pending[c].row
    BY <1>1, <1>5, SortKeepsPages
  <2> QED
    BY <1>2, <1>5, <2>1, MoveKeeps
<1>6. \A c \in Clients : ReorderCommits(c) => pending[c].op = "reorder"
  BY DEF ReorderCommits, AllLocked
<1> QED
  BY <1>3, <1>4, <1>5, <1>6, Writers DEF Alone

\* Two sections come to share a position only by an operation that overlapped
\* another on their page (createSection() and a move append without a lock).
THEOREM TiesOnlyFromOverlap == OrderSpec => TiesComeFromOverlap
<1> DEFINE step == table' # table => \A s, t \in Sections :
      ~Tied(s, t) /\ Tied(s, t)'
        => \E c \in Clients : pending[c] # Nothing /\ pending'[c] = Nothing /\ ~Alone(c, table'[s].page)
<1>1. OrderIInv /\ OrderNext => step
  BY TieStep
<1>2. OrderIInv /\ [OrderNext]_orderVars => [step]_orderVars
  BY <1>1
<1>3. OrderSpec => [][step]_orderVars
  BY <1>2, OrderInvariant, PTL DEF OrderSpec
<1> QED
  BY <1>3 DEF TiesComeFromOverlap

\* Of two sections that stay on their page the same one comes first, until
\* somebody reorders them or a move that did not have the page to itself commits
\* (resequencePage()).
THEOREM OrderStays == OrderSpec => OrderIsKept
<1> DEFINE step == table' # table => \A s, t \in Sections :
      Together(s, t) /\ Together(s, t)' /\ table'[s].page = table[s].page /\ Before(s, t) /\ ~Before(s, t)'
        => \E c \in Clients :
             /\ pending[c] # Nothing /\ pending'[c] = Nothing
             /\ pending[c].op = "reorder" \/ ~Alone(c, table[s].page)
<1>1. OrderIInv /\ OrderNext => step
  BY OrderStep
<1>2. OrderIInv /\ [OrderNext]_orderVars => [step]_orderVars
  BY <1>1
<1>3. OrderSpec => [][step]_orderVars
  BY <1>2, OrderInvariant, PTL DEF OrderSpec
<1> QED
  BY <1>3 DEF OrderIsKept

(***************************************************************************)
(* buildPlan(), for dashboards of any size.  What has been planned is told *)
(* by the rows it was made of: a query's id is that row's own or has a     *)
(* number below the counter, so the id of the next row is new.             *)
(***************************************************************************)

\* What sequences are made of.
LEMMA SeqParts ==
  ASSUME NEW S, NEW s \in Seq(S)
  PROVE  Len(s) \in Nat /\ DOMAIN s = 1..Len(s) /\ \A i \in DOMAIN s : s[i] \in S
OBVIOUS

LEMMA AppendParts ==
  ASSUME NEW S, NEW s \in Seq(S), NEW e \in S
  PROVE  /\ Append(s, e) \in Seq(S) /\ Len(Append(s, e)) = Len(s) + 1
         /\ DOMAIN Append(s, e) = 1..Len(s) + 1
         /\ \A i \in DOMAIN s : Append(s, e)[i] = s[i]
         /\ Append(s, e)[Len(s) + 1] = e
         /\ \A i \in DOMAIN Append(s, e) : i \in DOMAIN s \/ i = Len(s) + 1
OBVIOUS

LEMMA ConcatParts ==
  ASSUME NEW S, NEW s \in Seq(S), NEW t \in Seq(S)
  PROVE  /\ s \o t \in Seq(S) /\ Len(s \o t) = Len(s) + Len(t) /\ DOMAIN (s \o t) = 1..Len(s) + Len(t)
         /\ \A i \in DOMAIN s : i \in DOMAIN (s \o t) /\ (s \o t)[i] = s[i]
         /\ \A i \in DOMAIN t : Len(s) + i \in DOMAIN (s \o t) /\ (s \o t)[Len(s) + i] = t[i]
         /\ \A i \in DOMAIN (s \o t) : i \in DOMAIN s \/ \E j \in DOMAIN t : i = Len(s) + j
<1>1. s \o t \in Seq(S) /\ Len(s \o t) = Len(s) + Len(t) /\ DOMAIN (s \o t) = 1..Len(s) + Len(t)
  OBVIOUS
<1>2. \A i \in DOMAIN s : i \in DOMAIN (s \o t) /\ (s \o t)[i] = s[i]
  OBVIOUS
<1>3. \A i \in DOMAIN t : Len(s) + i \in DOMAIN (s \o t) /\ (s \o t)[Len(s) + i] = t[i]
  OBVIOUS
<1>4. ASSUME NEW i \in DOMAIN (s \o t), i \notin DOMAIN s PROVE \E j \in DOMAIN t : i = Len(s) + j
  <2>1. i - Len(s) \in DOMAIN t /\ i = Len(s) + (i - Len(s))
    BY <1>1, <1>4
  <2> QED
    BY <2>1
<1> QED
  BY <1>1, <1>2, <1>3, <1>4

\* What is left out, row by row.
LEMMA DroppedAre ==
  \A x : x \in DroppedIds <=>
    \E n \in DOMAIN dashboard : \E k \in DOMAIN dashboard[n] :
      Dropped(dashboard[n], dashboard[n][k]) /\ x = DeclaredId(n, dashboard[n][k].id)
<1>1. \A n, k : <<n, k>> \in RowPlaces(dashboard) <=> n \in DOMAIN dashboard /\ k \in DOMAIN dashboard[n]
  BY DEF RowPlaces
<1>2. \A p \in RowPlaces(dashboard) : \E n \in DOMAIN dashboard : \E k \in DOMAIN dashboard[n] : p = <<n, k>>
  BY DEF RowPlaces
<1>3. ASSUME NEW n \in DOMAIN dashboard, NEW k \in DOMAIN dashboard[n], Dropped(dashboard[n], dashboard[n][k])
      PROVE  DeclaredId(n, dashboard[n][k].id) \in DroppedIds
  <2>1. <<n, k>> \in RowPlaces(dashboard) /\ <<n, k>>[1] = n /\ <<n, k>>[2] = k
    BY <1>1
  <2> QED
    BY <1>3, <2>1 DEF DroppedIds
<1>4. ASSUME NEW x \in DroppedIds
      PROVE  \E n \in DOMAIN dashboard : \E k \in DOMAIN dashboard[n] :
               Dropped(dashboard[n], dashboard[n][k]) /\ x = DeclaredId(n, dashboard[n][k].id)
  <2>1. PICK p \in RowPlaces(dashboard) : /\ Dropped(dashboard[p[1]], dashboard[p[1]][p[2]])
                                      /\ x = DeclaredId(p[1], dashboard[p[1]][p[2]].id)
    BY DEF DroppedIds
  <2>2. p[1] \in DOMAIN dashboard /\ p[2] \in DOMAIN dashboard[p[1]]
    BY <1>2
  <2> QED
    BY <2>1, <2>2
<1> QED
  BY <1>3, <1>4

\* The rows, their ids and their queries.
LEMMA RowParts ==
  \A line \in Rows : /\ line.id \in LocalIds \cup {NoId} /\ line.kind \in {"metric", "expression"}
                    /\ line.tokens \subseteq LocalIds
BY DEF Rows, Metric, Expression

LEMMA QueryParts ==
  ASSUME PlanTypes, NEW n \in DOMAIN dashboard, NEW k \in DOMAIN dashboard[n]
  PROVE  LET q == Query(n, dashboard[n], dashboard[n][k])
         IN /\ q \in Queries
            /\ q.id.widget \in {0, n}
            /\ IF dashboard[n][k].id = NoId THEN q.id.local = autoCounter
               ELSE q.id = DeclaredId(n, dashboard[n][k].id)
            /\ q.uses \subseteq {DeclaredId(n, t) : t \in Declared(dashboard[n])}
<1> DEFINE line == dashboard[n][k]
           q == Query(n, dashboard[n], line)
<1>1. line \in Rows /\ n \in Nat /\ autoCounter \in Nat
  BY DEF PlanTypes
<1>2. line.id \in LocalIds \cup {NoId} /\ line.tokens \subseteq LocalIds
  BY <1>1, RowParts
<1> HIDE DEF line
<1>3. IF line.id = NoId THEN q.id = GivenId(n, line) ELSE q.id = DeclaredId(n, line.id)
  BY DEF Query
<1>4. q.id \in Ids
  BY <1>1, <1>2, <1>3 DEF Ids, GivenId, DeclaredId
<1>5. q.uses = {DeclaredId(n, t) : t \in References(dashboard[n], line)} /\ q.returned = ReturnData(dashboard[n], line)
  BY DEF Query
<1>6. \A t \in References(dashboard[n], line) : t \in Declared(dashboard[n]) /\ DeclaredId(n, t) \in Ids
  BY <1>1, <1>2 DEF References, Ids, DeclaredId
<1>7. q.returned \in BOOLEAN
  BY <1>5 DEF ReturnData
<1>8. q = [id |-> q.id, returned |-> q.returned, uses |-> q.uses]
  BY DEF Query
<1>9. q \in Queries
  <2> HIDE DEF q
  <2> QED
    BY <1>4, <1>5, <1>6, <1>7, <1>8 DEF Queries
<1>10. q.id.widget \in {0, n} /\ (line.id = NoId => q.id.local = autoCounter)
  BY <1>3 DEF GivenId, DeclaredId
<1> QED
  BY <1>3, <1>5, <1>6, <1>9, <1>10 DEF line

LEMMA ReadWidgetInv ==
  ASSUME PlanIInv, ReadWidget
  PROVE  PlanIInv'
<1> USE DEF UnderWay
<1>0. PICK m \in 0..MaxRows : \E w \in [1..m -> Rows] :
        /\ \A j, k \in 1..m : w[j].id = w[k].id /\ w[j].id # NoId => j = k
        /\ dashboard' = Append(dashboard, w)
  BY DEF ReadWidget
<1>1. PICK w \in [1..m -> Rows] :
        /\ \A j, k \in 1..m : w[j].id = w[k].id /\ w[j].id # NoId => j = k
        /\ dashboard' = Append(dashboard, w)
  BY <1>0
<1>2. w \in Seq(Rows) /\ DOMAIN w = 1..m
  OBVIOUS
<1>3. dashboard \in Seq(Seq(Rows)) /\ Len(dashboard) \in Nat /\ DOMAIN dashboard = 1..Len(dashboard)
  BY SeqParts DEF PlanIInv, PlanTypes
<1>4. /\ dashboard' \in Seq(Seq(Rows)) /\ Len(dashboard') = Len(dashboard) + 1
      /\ DOMAIN dashboard' = 1..Len(dashboard) + 1
      /\ \A n \in DOMAIN dashboard : n \in DOMAIN dashboard' /\ dashboard'[n] = dashboard[n]
      /\ dashboard'[Len(dashboard) + 1] = w
      /\ \A n \in DOMAIN dashboard' : n \in DOMAIN dashboard \/ n = Len(dashboard) + 1
  BY <1>1, <1>2, <1>3, AppendParts
<1>5. /\ nextRow = 0 /\ nextRow' = 1 /\ widgetQueries = << >> /\ series = << >>
      /\ UNCHANGED <<autoCounter, widgetQueries, series, queries, plan>>
  BY DEF ReadWidget, PlanIInv, PlanTypes
<1>6. DOMAIN widgetQueries = {} /\ DOMAIN series = {}
  BY <1>5
<1>7. PlanTypes'
  <2>1. \A n \in DOMAIN dashboard' : \A j, k \in DOMAIN dashboard'[n] :
          dashboard'[n][j].id = dashboard'[n][k].id /\ dashboard'[n][j].id # NoId => j = k
    <3>1. \A n \in DOMAIN dashboard : \A j, k \in DOMAIN dashboard[n] :
            dashboard[n][j].id = dashboard[n][k].id /\ dashboard[n][j].id # NoId => j = k
      BY DEF PlanIInv, PlanTypes
    <3>2. \A j, k \in DOMAIN w : w[j].id = w[k].id /\ w[j].id # NoId => j = k
      BY <1>1, <1>2
    <3>3. TAKE n \in DOMAIN dashboard'
    <3>4. CASE n \in DOMAIN dashboard
      BY <1>4, <3>1, <3>4
    <3>5. CASE n = Len(dashboard) + 1
      BY <1>4, <3>2, <3>5
    <3> QED
      BY <1>4, <3>4, <3>5
  <2>2. Len(dashboard'[Len(dashboard')]) \in Nat /\ Len(dashboard') # 0
    BY <1>2, <1>3, <1>4
  <2> QED
    BY <1>4, <1>5, <2>1, <2>2 DEF PlanIInv, PlanTypes
<1>8. \A q, n, k : MadeOf(q, n, k) => MadeOf(q, n, k)'
  BY <1>4, <1>5 DEF MadeOf
<1>9. NoneLooksGiven' => NoneLooksGiven
  BY <1>4 DEF NoneLooksGiven
<1>10. IdsSound'
  <2>1. ASSUME NEW i \in DOMAIN queries
        PROVE  \E n \in DOMAIN dashboard' :
                 n < Len(dashboard') /\ \E k \in DOMAIN dashboard'[n] : MadeOf(queries[i], n, k)'
    <3>1. PICK n \in DOMAIN dashboard : \E k \in DOMAIN dashboard[n] : MadeOf(queries[i], n, k)
      BY DEF PlanIInv, IdsSound
    <3>2. n < Len(dashboard) + 1
      BY <1>3
    <3>3. PICK k \in DOMAIN dashboard[n] : MadeOf(queries[i], n, k)
      BY <3>1
    <3>4. MadeOf(queries[i], n, k)'
      <4> DEFINE q == queries[i]
      <4>1. q' = q /\ MadeOf(q, n, k)
        BY <1>5, <3>3
      <4> QED
        BY <1>4, <1>5, <4>1 DEF MadeOf
    <3> QED
      BY <1>4, <3>2, <3>4
  <2>2. NoneLooksGiven' => IdsAreDistinct'
    BY <1>5, <1>9 DEF PlanIInv, IdsSound, IdsAreDistinct
  <2> QED
    BY <1>5, <1>6, <2>1, <2>2 DEF IdsSound
<1>11. UsesSound'
  <2>1. DroppedIds \subseteq DroppedIds'
    <3> SUFFICES ASSUME NEW x \in DroppedIds PROVE x \in DroppedIds'
      OBVIOUS
    <3>0. PICK n \in DOMAIN dashboard : \E k \in DOMAIN dashboard[n] :
            Dropped(dashboard[n], dashboard[n][k]) /\ x = DeclaredId(n, dashboard[n][k].id)
      BY DroppedAre
    <3>1. PICK k \in DOMAIN dashboard[n] :
            Dropped(dashboard[n], dashboard[n][k]) /\ x = DeclaredId(n, dashboard[n][k].id)
      BY <3>0
    <3>2. <<n, k>> \in RowPlaces(dashboard')
      BY <1>4, <3>1 DEF RowPlaces
    <3>3. Dropped(dashboard'[n], dashboard'[n][k]) /\ x = DeclaredId(n, dashboard'[n][k].id)
      BY <1>4, <3>1
    <3> QED
      BY <3>2, <3>3 DEF DroppedIds
  <2>2. QueryIds' = QueryIds
    BY <1>5 DEF QueryIds
  <2>3. \A k \in DOMAIN queries : queries[k].uses \subseteq QueryIds' \cup DroppedIds'
    BY <2>1, <2>2 DEF PlanIInv, UsesSound
  <2>4. \A j \in DOMAIN dashboard'[Len(dashboard')] : ~(j < 1)
    BY <1>2, <1>4
  <2> QED
    BY <1>5, <1>6, <2>3, <2>4 DEF UsesSound
<1>12. DrawnSound'
  <2>1. \A i \in DOMAIN plan : plan[i].widget <= Len(dashboard) /\ plan[i].widget \in Nat
    <3>1. \A i \in DOMAIN plan : plan[i] \in Drawings
      BY SeqParts DEF PlanIInv, PlanTypes
    <3> QED
      BY <3>1 DEF PlanIInv, DrawnSound, Drawings
  <2>2. \A i \in DOMAIN plan : plan[i].widget <= Len(dashboard) + 1 /\ plan[i].widget < Len(dashboard) + 1
    BY <1>3, <2>1
  <2>3. Draws(plan, queries) /\ Draws(series, widgetQueries)
    BY DEF PlanIInv, DrawnSound
  <2> QED
    BY <1>4, <1>5, <1>6, <2>2, <2>3 DEF DrawnSound
<1> QED
  BY <1>7, <1>10, <1>11, <1>12 DEF PlanIInv

LEMMA DropRowInv ==
  ASSUME PlanIInv, DropRow
  PROVE  PlanIInv'
<1> DEFINE w == dashboard[UnderWay]
<1>1. /\ nextRow # 0 /\ nextRow \in DOMAIN w /\ Dropped(w, w[nextRow]) /\ nextRow' = nextRow + 1
      /\ UNCHANGED <<dashboard, autoCounter, widgetQueries, series, queries, plan>>
  BY DEF DropRow, RowIsNext
<1>2. /\ UnderWay # 0 /\ UnderWay \in DOMAIN dashboard /\ w \in Seq(Rows) /\ nextRow \in Nat
      /\ DOMAIN w = 1..Len(w) /\ Len(w) \in Nat
  BY <1>1 DEF PlanIInv, PlanTypes, UnderWay
<1>3. PlanTypes'
  BY <1>1, <1>2 DEF PlanIInv, PlanTypes, UnderWay
<1>4. IdsSound'
  <2>1. \A k \in DOMAIN w : k < nextRow => k < nextRow + 1
    BY <1>2
  <2>2. \A q, n, k : MadeOf(q, n, k)' <=> MadeOf(q, n, k)
    BY <1>1 DEF MadeOf
  <2>3. (NoneLooksGiven' => NoneLooksGiven) /\ (IdsAreDistinct => IdsAreDistinct') /\ UnderWay' = UnderWay
    BY <1>1 DEF NoneLooksGiven, IdsAreDistinct, UnderWay
  <2>4. \A i \in DOMAIN queries : \E n \in DOMAIN dashboard :
          n < UnderWay /\ \E k \in DOMAIN dashboard[n] : MadeOf(queries[i], n, k)'
    BY <1>1, <2>2 DEF PlanIInv, IdsSound
  <2>5. \A i \in DOMAIN widgetQueries : \E k \in DOMAIN w :
          k < nextRow + 1 /\ MadeOf(widgetQueries[i], UnderWay, k)'
    <3> SUFFICES ASSUME NEW i \in DOMAIN widgetQueries
                 PROVE  \E k \in DOMAIN w : k < nextRow + 1 /\ MadeOf(widgetQueries[i], UnderWay, k)'
      OBVIOUS
    <3>1. PICK k \in DOMAIN w : k < nextRow /\ MadeOf(widgetQueries[i], UnderWay, k)
      BY DEF PlanIInv, IdsSound
    <3>2. MadeOf(widgetQueries[i], UnderWay, k)'
      BY <1>1, <2>3, <3>1 DEF MadeOf
    <3> QED
      BY <2>1, <3>1, <3>2
  <2> QED
    BY <1>1, <2>3, <2>4, <2>5 DEF PlanIInv, IdsSound
<1>5. UsesSound'
  <2>1. DeclaredId(UnderWay, w[nextRow].id) \in DroppedIds
    BY <1>1, <1>2, DroppedAre
  <2>2. \A j \in DOMAIN w : j < nextRow + 1 => j < nextRow \/ j = nextRow
    BY <1>2
  <2>3. DroppedIds' = DroppedIds /\ WidgetIds' = WidgetIds /\ QueryIds' = QueryIds /\ UnderWay' = UnderWay
    BY <1>1 DEF DroppedIds, WidgetIds, QueryIds, UnderWay
  <2>4. \A j \in DOMAIN w : j < nextRow + 1 /\ w[j].id # NoId =>
          DeclaredId(UnderWay, w[j].id) \in WidgetIds \cup DroppedIds
    BY <1>1, <2>1, <2>2 DEF PlanIInv, UsesSound
  <2> QED
    BY <1>1, <2>3, <2>4 DEF PlanIInv, UsesSound
<1>6. DrawnSound'
  <2>1. Draws(plan, queries)' = Draws(plan, queries) /\ Draws(series, widgetQueries)' = Draws(series, widgetQueries)
        /\ UnderWay' = UnderWay
    BY <1>1 DEF Draws, UnderWay
  <2>2. nextRow' # 0 => nextRow # 0
    BY <1>1
  <2> QED
    BY <1>1, <2>1, <2>2 DEF PlanIInv, DrawnSound
<1> QED
  BY <1>3, <1>4, <1>5, <1>6 DEF PlanIInv

\* A row that has not been planned yet gets an id that nothing has so far.
LEMMA FreshId ==
  ASSUME PlanTypes, NoneLooksGiven, NEW n \in DOMAIN dashboard, NEW k \in DOMAIN dashboard[n],
         NEW q, NEW m, NEW j, MadeOf(q, m, j), m < n \/ (m = n /\ j < k)
  PROVE  q.id # Query(n, dashboard[n], dashboard[n][k]).id
<1> DEFINE new == Query(n, dashboard[n], dashboard[n][k])
<1>1. IF dashboard[n][k].id = NoId THEN new.id.local = autoCounter ELSE new.id = DeclaredId(n, dashboard[n][k].id)
  BY QueryParts
<1> HIDE DEF new
<1>2. SUFFICES ASSUME q.id = new.id PROVE FALSE
  BY DEF new
<1>3. /\ m \in DOMAIN dashboard /\ j \in DOMAIN dashboard[m]
      /\ IF dashboard[m][j].id = NoId THEN q.id.local \in Nat /\ q.id.local < autoCounter
         ELSE q.id = DeclaredId(m, dashboard[m][j].id)
  BY DEF MadeOf
<1>4. m \in Nat /\ n \in Nat /\ j \in Nat /\ k \in Nat /\ autoCounter \in Nat
  <2>1. dashboard \in Seq(Seq(Rows)) /\ dashboard[n] \in Seq(Rows) /\ dashboard[m] \in Seq(Rows)
    BY <1>3 DEF PlanTypes
  <2>2. DOMAIN dashboard \subseteq Nat /\ DOMAIN dashboard[n] \subseteq Nat /\ DOMAIN dashboard[m] \subseteq Nat
    BY <2>1, SeqParts
  <2> QED
    BY <1>3, <2>2 DEF PlanTypes
<1>5. dashboard[n][k].id \notin Nat /\ dashboard[m][j].id \notin Nat
  BY <1>3 DEF NoneLooksGiven
<1>6. \A i, id : DeclaredId(i, id).local = id /\ DeclaredId(i, id).widget = i
  BY DEF DeclaredId
<1>7. CASE dashboard[n][k].id = NoId
  BY <1>1, <1>2, <1>3, <1>4, <1>5, <1>6, <1>7
<1>8. CASE dashboard[n][k].id # NoId /\ dashboard[m][j].id = NoId
  BY <1>1, <1>2, <1>3, <1>4, <1>5, <1>6, <1>8
<1>9. CASE dashboard[n][k].id # NoId /\ dashboard[m][j].id # NoId
  <2>1. m = n /\ dashboard[m][j].id = dashboard[n][k].id
    BY <1>1, <1>2, <1>3, <1>6, <1>9
  <2>2. j = k
    BY <1>3, <1>9, <2>1 DEF PlanTypes
  <2> QED
    BY <1>4, <2>1, <2>2
<1> QED
  BY <1>7, <1>8, <1>9

LEMMA DrawsAre ==
  ASSUME NEW s, NEW asked, Draws(s, asked)
  PROVE  /\ \A i \in DOMAIN s : \E k \in DOMAIN asked : asked[k].returned /\ asked[k].id = s[i].id
         /\ \A k \in DOMAIN asked : asked[k].returned => \E i \in DOMAIN s : asked[k].id = s[i].id
<1> DEFINE drawn == {s[i].id : i \in DOMAIN s}
           returned == {asked[k].id : k \in {j \in DOMAIN asked : asked[j].returned}}
<1>1. drawn = returned
  BY DEF Draws
<1>2. \A i \in DOMAIN s : s[i].id \in drawn
  OBVIOUS
<1>3. \A x \in returned : \E k \in DOMAIN asked : asked[k].returned /\ asked[k].id = x
  OBVIOUS
<1>4. \A k \in DOMAIN asked : asked[k].returned => asked[k].id \in returned
  OBVIOUS
<1>5. \A x \in drawn : \E i \in DOMAIN s : x = s[i].id
  OBVIOUS
<1> HIDE DEF drawn, returned
<1> QED
  BY <1>1, <1>2, <1>3, <1>4, <1>5

\* What is drawn of two widgets, one after the other, is what is drawn of both.
LEMMA DrawsBoth ==
  ASSUME NEW a \in Seq(Queries), NEW b \in Seq(Queries), NEW s \in Seq(Drawings), NEW t \in Seq(Drawings),
         Draws(s, a), Draws(t, b), \A i \in DOMAIN s : \A j \in DOMAIN t : s[i].widget <= t[j].widget
  PROVE  Draws(s \o t, a \o b)
<1> DEFINE st == s \o t
           ab == a \o b
<1>1. /\ \A i \in DOMAIN s : i \in DOMAIN st /\ st[i] = s[i]
      /\ \A i \in DOMAIN t : Len(s) + i \in DOMAIN st /\ st[Len(s) + i] = t[i]
      /\ \A i \in DOMAIN st : i \in DOMAIN s \/ \E j \in DOMAIN t : i = Len(s) + j
  BY ConcatParts
<1>2. /\ \A i \in DOMAIN a : i \in DOMAIN ab /\ ab[i] = a[i]
      /\ \A i \in DOMAIN b : Len(a) + i \in DOMAIN ab /\ ab[Len(a) + i] = b[i]
      /\ \A i \in DOMAIN ab : i \in DOMAIN a \/ \E j \in DOMAIN b : i = Len(a) + j
  BY ConcatParts
<1>3. /\ DOMAIN s = 1..Len(s) /\ DOMAIN t = 1..Len(t) /\ DOMAIN a = 1..Len(a) /\ DOMAIN b = 1..Len(b)
      /\ Len(s) \in Nat /\ Len(t) \in Nat /\ Len(a) \in Nat /\ Len(b) \in Nat
  BY SeqParts
<1> HIDE DEF st, ab
<1>4. /\ \A i \in DOMAIN s : \E k \in DOMAIN a : a[k].returned /\ a[k].id = s[i].id
      /\ \A k \in DOMAIN a : a[k].returned => \E i \in DOMAIN s : a[k].id = s[i].id
  <2>1. \A i \in DOMAIN s : \E k \in DOMAIN a : a[k].returned /\ a[k].id = s[i].id
    BY DrawsAre
  <2>2. \A k \in DOMAIN a : a[k].returned => \E i \in DOMAIN s : a[k].id = s[i].id
    BY DrawsAre
  <2> QED
    BY <2>1, <2>2
<1>5. /\ \A i \in DOMAIN t : \E k \in DOMAIN b : b[k].returned /\ b[k].id = t[i].id
      /\ \A k \in DOMAIN b : b[k].returned => \E i \in DOMAIN t : b[k].id = t[i].id
  <2>1. \A i \in DOMAIN t : \E k \in DOMAIN b : b[k].returned /\ b[k].id = t[i].id
    BY DrawsAre
  <2>2. \A k \in DOMAIN b : b[k].returned => \E i \in DOMAIN t : b[k].id = t[i].id
    BY DrawsAre
  <2> QED
    BY <2>1, <2>2
<1>6. ASSUME NEW i \in DOMAIN st PROVE \E k \in DOMAIN ab : ab[k].returned /\ ab[k].id = st[i].id
  <2>1. CASE i \in DOMAIN s
    <3>1. PICK k \in DOMAIN a : a[k].returned /\ a[k].id = s[i].id
      BY <1>4, <2>1
    <3> QED
      BY <1>1, <1>2, <2>1, <3>1
  <2>2. ASSUME NEW l \in DOMAIN t, i = Len(s) + l
        PROVE  \E k \in DOMAIN ab : ab[k].returned /\ ab[k].id = st[i].id
    <3>1. st[i] = t[l]
      BY <1>1, <2>2
    <3>2. PICK k \in DOMAIN b : b[k].returned /\ b[k].id = t[l].id
      BY <1>5
    <3> QED
      BY <1>2, <3>1, <3>2
  <2> QED
    BY <1>1, <2>1, <2>2
<1>7. ASSUME NEW k \in DOMAIN ab, ab[k].returned PROVE \E i \in DOMAIN st : ab[k].id = st[i].id
  <2>1. CASE k \in DOMAIN a
    <3>1. PICK i \in DOMAIN s : a[k].id = s[i].id
      BY <1>2, <1>4, <1>7, <2>1
    <3> QED
      BY <1>1, <1>2, <2>1, <3>1
  <2>2. ASSUME NEW l \in DOMAIN b, k = Len(a) + l PROVE \E i \in DOMAIN st : ab[k].id = st[i].id
    <3>1. ab[k] = b[l]
      BY <1>2, <2>2
    <3>2. PICK i \in DOMAIN t : b[l].id = t[i].id
      BY <1>5, <1>7, <3>1
    <3> QED
      BY <1>1, <3>1, <3>2
  <2> QED
    BY <1>2, <2>1, <2>2
<1>8. ASSUME NEW i \in DOMAIN st, NEW j \in DOMAIN st, i < j
      PROVE  /\ st[i].widget <= st[j].widget
             /\ \E x, y \in DOMAIN ab : x < y /\ ab[x].id = st[i].id /\ ab[y].id = st[j].id
  <2>1. CASE i \in DOMAIN s /\ j \in DOMAIN s
    <3>1. st[i] = s[i] /\ st[j] = s[j] /\ s[i].widget <= s[j].widget
      BY <1>1, <1>8, <2>1 DEF Draws
    <3>2. PICK x \in DOMAIN a, y \in DOMAIN a : x < y /\ a[x].id = s[i].id /\ a[y].id = s[j].id
      BY <1>8, <2>1 DEF Draws
    <3> QED
      BY <1>2, <3>1, <3>2
  <2>2. ASSUME i \in DOMAIN s, NEW l \in DOMAIN t, j = Len(s) + l
        PROVE  /\ st[i].widget <= st[j].widget
               /\ \E x, y \in DOMAIN ab : x < y /\ ab[x].id = st[i].id /\ ab[y].id = st[j].id
    <3>1. st[i] = s[i] /\ st[j] = t[l] /\ s[i].widget <= t[l].widget
      BY <1>1, <2>2
    <3>2. PICK x \in DOMAIN a : a[x].id = s[i].id
      BY <1>4, <2>2
    <3>3. PICK y \in DOMAIN b : b[y].id = t[l].id
      BY <1>5
    <3>4. x < Len(a) + y /\ ab[x] = a[x] /\ ab[Len(a) + y] = b[y] /\ x \in DOMAIN ab /\ Len(a) + y \in DOMAIN ab
      BY <1>2, <1>3
    <3> QED
      BY <3>1, <3>2, <3>3, <3>4
  <2>3. ASSUME NEW k \in DOMAIN t, i = Len(s) + k, NEW l \in DOMAIN t, j = Len(s) + l
        PROVE  /\ st[i].widget <= st[j].widget
               /\ \E x, y \in DOMAIN ab : x < y /\ ab[x].id = st[i].id /\ ab[y].id = st[j].id
    <3>0. k < l
      BY <1>3, <1>8, <2>3
    <3>1. st[i] = t[k] /\ st[j] = t[l] /\ t[k].widget <= t[l].widget
      BY <1>1, <2>3, <3>0 DEF Draws
    <3>2. PICK x \in DOMAIN b, y \in DOMAIN b : x < y /\ b[x].id = t[k].id /\ b[y].id = t[l].id
      BY <3>0 DEF Draws
    <3>3. /\ Len(a) + x < Len(a) + y /\ ab[Len(a) + x] = b[x] /\ ab[Len(a) + y] = b[y]
          /\ Len(a) + x \in DOMAIN ab /\ Len(a) + y \in DOMAIN ab
      BY <1>2, <1>3, <3>2
    <3> QED
      BY <3>1, <3>2, <3>3
  <2>4. ASSUME NEW k \in DOMAIN t, i = Len(s) + k, j \in DOMAIN s PROVE FALSE
    BY <1>3, <1>8, <2>4
  <2> QED
    BY <1>1, <2>1, <2>2, <2>3, <2>4
<1>9. Draws(st, ab)
  BY <1>6, <1>7, <1>8 DEF Draws
<1> QED
  BY <1>9 DEF st, ab

LEMMA One ==
  ASSUME NEW S, NEW e \in S, NEW s \in Seq(S)
  PROVE  <<e>> \in Seq(S) /\ DOMAIN <<e>> = {1} /\ <<e>>[1] = e /\ Append(s, e) = s \o <<e>>
<1>1. <<e>> \in Seq(S) /\ DOMAIN <<e>> = 1..1 /\ <<e>>[1] = e /\ Len(<<e>>) = 1
  OBVIOUS
<1>2. DOMAIN <<e>> = {1}
  BY <1>1
<1>3. Append(s, e) = s \o <<e>>
  OBVIOUS
<1> QED
  BY <1>1, <1>2, <1>3

\* One row more: a query, and a series if its data are returned.
LEMMA DrawsOne ==
  ASSUME NEW a \in Seq(Queries), NEW s \in Seq(Drawings), NEW q \in Queries, NEW d \in Drawings,
         Draws(s, a), d.id = q.id, \A i \in DOMAIN s : s[i].widget <= d.widget
  PROVE  IF q.returned THEN Draws(Append(s, d), Append(a, q)) ELSE Draws(s, Append(a, q))
<1>1. /\ <<q>> \in Seq(Queries) /\ DOMAIN <<q>> = {1} /\ <<q>>[1] = q /\ Append(a, q) = a \o <<q>>
      /\ <<d>> \in Seq(Drawings) /\ DOMAIN <<d>> = {1} /\ <<d>>[1] = d /\ Append(s, d) = s \o <<d>>
  BY One
<1>2. CASE q.returned
  <2>1. Draws(<<d>>, <<q>>)
    <3>1. \A i, j \in DOMAIN <<d>> : ~(i < j)
      BY <1>1
    <3>2. {<<q>>[k].id : k \in {j \in DOMAIN <<q>> : <<q>>[j].returned}} = {q.id}
      BY <1>1, <1>2
    <3>3. {<<d>>[i].id : i \in DOMAIN <<d>>} = {q.id}
      BY <1>1
    <3> QED
      BY <3>1, <3>2, <3>3 DEF Draws
  <2>2. \A i \in DOMAIN s : \A j \in DOMAIN <<d>> : s[i].widget <= <<d>>[j].widget
    BY <1>1
  <2>3. Draws(s \o <<d>>, a \o <<q>>)
    BY <1>1, <2>1, <2>2, DrawsBoth
  <2> QED
    BY <1>1, <1>2, <2>3
<1>3. CASE ~q.returned
  <2>1. << >> \in Seq(Drawings) /\ DOMAIN << >> = {} /\ s \o << >> = s
    OBVIOUS
  <2>2. Draws(<< >>, <<q>>)
    <3>1. {<<q>>[k].id : k \in {j \in DOMAIN <<q>> : <<q>>[j].returned}} = {}
      BY <1>1, <1>3
    <3> QED
      BY <2>1, <3>1 DEF Draws
  <2>3. Draws(s \o << >>, a \o <<q>>)
    BY <1>1, <2>1, <2>2, DrawsBoth
  <2> QED
    BY <1>1, <1>3, <2>1, <2>3
<1> QED
  BY <1>2, <1>3

LEMMA PlanRowInv ==
  ASSUME PlanIInv, PlanRow
  PROVE  PlanIInv'
<1> DEFINE n == UnderWay
           w == dashboard[n]
           line == w[nextRow]
           q == Query(n, w, line)
           d == [widget |-> n, id |-> q.id]
<1>1. /\ nextRow # 0 /\ nextRow \in DOMAIN w /\ nextRow' = nextRow + 1
      /\ widgetQueries' = Append(widgetQueries, q)
      /\ series' = IF q.returned THEN Append(series, d) ELSE series
      /\ autoCounter' = IF line.id = NoId THEN autoCounter + 1 ELSE autoCounter
      /\ UNCHANGED <<dashboard, queries, plan>>
  BY DEF PlanRow, RowIsNext
<1>2. /\ n \in DOMAIN dashboard /\ n \in Nat /\ w \in Seq(Rows) /\ nextRow \in Nat /\ autoCounter \in Nat
      /\ DOMAIN w = 1..Len(w) /\ Len(w) \in Nat /\ UnderWay' = n /\ PlanTypes
  BY <1>1 DEF PlanIInv, PlanTypes, UnderWay
<1>3. /\ q \in Queries /\ q.id.widget \in {0, n} /\ q.uses \subseteq {DeclaredId(n, t) : t \in Declared(w)}
      /\ IF line.id = NoId THEN q.id.local = autoCounter ELSE q.id = DeclaredId(n, line.id)
  BY <1>1, <1>2, QueryParts
<1> HIDE DEF q
<1>4. d \in Drawings /\ d.id = q.id /\ d.widget = n
  BY <1>2, <1>3 DEF Drawings, Queries
<1> HIDE DEF d
<1>5. widgetQueries \in Seq(Queries) /\ series \in Seq(Drawings)
  BY DEF PlanIInv, PlanTypes
<1>6. /\ widgetQueries' \in Seq(Queries) /\ Len(widgetQueries) \in Nat
      /\ DOMAIN widgetQueries = 1..Len(widgetQueries) /\ DOMAIN widgetQueries' = 1..Len(widgetQueries) + 1
      /\ \A i \in DOMAIN widgetQueries : i \in DOMAIN widgetQueries' /\ widgetQueries'[i] = widgetQueries[i]
      /\ widgetQueries'[Len(widgetQueries) + 1] = q
      /\ \A i \in DOMAIN widgetQueries' : i \in DOMAIN widgetQueries \/ i = Len(widgetQueries) + 1
  BY <1>1, <1>3, <1>5, AppendParts, SeqParts
<1>7. series' \in Seq(Drawings) /\ \A i \in DOMAIN series' : (i \in DOMAIN series /\ series'[i] = series[i]) \/ series'[i] = d
  <2>1. CASE q.returned
    BY <1>1, <1>4, <1>5, <2>1, AppendParts
  <2>2. CASE ~q.returned
    BY <1>1, <1>5, <2>2
  <2> QED
    BY <2>1, <2>2
<1>8. PlanTypes'
  <2>1. nextRow' <= Len(w) + 1 /\ nextRow' # 0 /\ nextRow' \in Nat /\ autoCounter' \in Nat /\ n # 0
    BY <1>1, <1>2 DEF PlanTypes
  <2> QED
    BY <1>1, <1>2, <1>6, <1>7, <2>1 DEF PlanTypes
<1>9. ASSUME NEW e, NEW m, NEW k, MadeOf(e, m, k)
      PROVE  /\ m \in DOMAIN dashboard' /\ k \in DOMAIN dashboard'[m] /\ e.id.widget \in {0, m}
             /\ IF dashboard'[m][k].id = NoId THEN e.id.local \in Nat /\ e.id.local < autoCounter'
                ELSE e.id = DeclaredId(m, dashboard'[m][k].id)
  BY <1>1, <1>2, <1>9 DEF MadeOf
<1>10. IdsSound'
  <2>1. \A k \in DOMAIN w : k < nextRow => k < nextRow + 1
    BY <1>2
  <2>2. ASSUME NEW i \in DOMAIN queries
        PROVE  \E m \in DOMAIN dashboard : m < n /\ \E k \in DOMAIN dashboard[m] : MadeOf(queries[i], m, k)'
    <3>1. PICK m \in DOMAIN dashboard : m < n /\ \E k \in DOMAIN dashboard[m] : MadeOf(queries[i], m, k)
      BY <1>1 DEF PlanIInv, IdsSound
    <3>2. PICK k \in DOMAIN dashboard[m] : MadeOf(queries[i], m, k)
      BY <3>1
    <3>3. queries' = queries /\ dashboard' = dashboard
      BY <1>1
    <3>4. MadeOf(queries[i], m, k)'
      BY <1>9, <3>2, <3>3 DEF MadeOf
    <3> QED
      BY <3>1, <3>4
  <2>3. ASSUME NEW i \in DOMAIN widgetQueries'
        PROVE  \E k \in DOMAIN w : k < nextRow + 1 /\ MadeOf(widgetQueries[i], UnderWay, k)'
    <3>1. CASE i \in DOMAIN widgetQueries
      <4>1. PICK k \in DOMAIN w : k < nextRow /\ MadeOf(widgetQueries[i], n, k)
        BY <3>1 DEF PlanIInv, IdsSound
      <4>2. MadeOf(widgetQueries[i], UnderWay, k)'
        <5>1. widgetQueries'[i] = widgetQueries[i] /\ UnderWay' = n
          BY <1>2, <1>6, <3>1
        <5>2. /\ n \in DOMAIN dashboard' /\ k \in DOMAIN dashboard'[n] /\ widgetQueries[i].id.widget \in {0, n}
              /\ IF dashboard'[n][k].id = NoId
                 THEN widgetQueries[i].id.local \in Nat /\ widgetQueries[i].id.local < autoCounter'
                 ELSE widgetQueries[i].id = DeclaredId(n, dashboard'[n][k].id)
          BY <1>9, <4>1
        <5> QED
          BY <5>1, <5>2 DEF MadeOf
      <4> QED
        BY <2>1, <4>1, <4>2
    <3>2. CASE i = Len(widgetQueries) + 1
      <4>1. widgetQueries'[i] = q
        BY <1>6, <3>2
      <4>2. IF line.id = NoId THEN q.id.local \in Nat /\ q.id.local < autoCounter'
            ELSE q.id = DeclaredId(n, line.id)
        BY <1>1, <1>2, <1>3
      <4>3. PICK k \in DOMAIN w : k = nextRow
        BY <1>1
      <4>4. MadeOf(widgetQueries[i], UnderWay, k)'
        BY <1>1, <1>2, <1>3, <4>1, <4>2, <4>3 DEF MadeOf
      <4> QED
        BY <1>2, <4>3, <4>4
    <3> QED
      BY <1>6, <3>1, <3>2
  <2>4. ASSUME NoneLooksGiven'
        PROVE  /\ IdsAreDistinct'
               /\ \A j, k \in DOMAIN widgetQueries' : widgetQueries'[j].id = widgetQueries'[k].id => j = k
               /\ \A j \in DOMAIN queries' : \A k \in DOMAIN widgetQueries' :
                    queries'[j].id # widgetQueries'[k].id
    <3>1. NoneLooksGiven
      BY <1>1, <2>4 DEF NoneLooksGiven
    <3>2. \A i \in DOMAIN queries : queries[i].id # q.id
      <4>1. TAKE i \in DOMAIN queries
      <4>2. PICK m \in DOMAIN dashboard : m < n /\ \E k \in DOMAIN dashboard[m] : MadeOf(queries[i], m, k)
        BY <1>1 DEF PlanIInv, IdsSound
      <4>3. PICK k \in DOMAIN dashboard[m] : MadeOf(queries[i], m, k)
        BY <4>2
      <4> QED
        BY <1>1, <1>2, <3>1, <4>2, <4>3, FreshId DEF q
    <3>3. \A i \in DOMAIN widgetQueries : widgetQueries[i].id # q.id
      <4>1. TAKE i \in DOMAIN widgetQueries
      <4>2. PICK k \in DOMAIN w : k < nextRow /\ MadeOf(widgetQueries[i], n, k)
        BY DEF PlanIInv, IdsSound
      <4> QED
        BY <1>1, <1>2, <3>1, <4>2, FreshId DEF q
    <3>4. IdsAreDistinct'
      BY <1>1, <3>1 DEF PlanIInv, IdsSound, IdsAreDistinct
    <3>5. \A j, k \in DOMAIN widgetQueries' : widgetQueries'[j].id = widgetQueries'[k].id => j = k
      BY <1>6, <3>1, <3>3 DEF PlanIInv, IdsSound
    <3>6. \A j \in DOMAIN queries' : \A k \in DOMAIN widgetQueries' :
            queries'[j].id # widgetQueries'[k].id
      BY <1>1, <1>6, <3>1, <3>2 DEF PlanIInv, IdsSound
    <3> QED
      BY <3>4, <3>5, <3>6
  <2> QED
    BY <1>1, <1>2, <2>2, <2>3, <2>4 DEF IdsSound
<1>11. UsesSound'
  <2>1. DroppedIds' = DroppedIds /\ QueryIds' = QueryIds
    BY <1>1 DEF DroppedIds, QueryIds
  <2>2. WidgetIds \subseteq WidgetIds' /\ q.id \in WidgetIds'
    <3>1. q.id \in WidgetIds'
      <4>1. Len(widgetQueries) + 1 \in DOMAIN widgetQueries'
        BY <1>6
      <4> QED
        BY <1>6, <4>1 DEF WidgetIds
    <3>2. WidgetIds \subseteq WidgetIds'
      BY <1>6 DEF WidgetIds
    <3> QED
      BY <3>1, <3>2
  <2>3. \A j \in DOMAIN w : j < nextRow + 1 => j < nextRow \/ j = nextRow
    BY <1>2
  <2>4. \A j \in DOMAIN w : j < nextRow + 1 /\ w[j].id # NoId =>
          DeclaredId(n, w[j].id) \in WidgetIds' \cup DroppedIds
    BY <1>1, <1>3, <2>2, <2>3 DEF PlanIInv, UsesSound
  <2>5. \A k \in DOMAIN widgetQueries' :
          widgetQueries'[k].uses \subseteq {DeclaredId(n, t) : t \in Declared(w)}
    BY <1>3, <1>6 DEF PlanIInv, UsesSound
  <2>6. \A k \in DOMAIN queries' : queries'[k].uses \subseteq QueryIds' \cup DroppedIds'
    BY <1>1, <2>1 DEF PlanIInv, UsesSound
  <2> QED
    BY <1>1, <1>2, <2>1, <2>4, <2>5, <2>6 DEF UsesSound
<1>12. DrawnSound'
  <2>1. \A i \in DOMAIN series : series[i].widget <= d.widget
    BY <1>2, <1>4 DEF PlanIInv, DrawnSound
  <2>2. Draws(series, widgetQueries) /\ Draws(plan, queries)
    BY DEF PlanIInv, DrawnSound
  <2>3. IF q.returned THEN Draws(Append(series, d), Append(widgetQueries, q))
        ELSE Draws(series, Append(widgetQueries, q))
    BY <1>3, <1>4, <1>5, <2>1, <2>2, DrawsOne
  <2>4. Draws(series', widgetQueries')
    BY <1>1, <2>3
  <2>5. \A i \in DOMAIN series' : series'[i].widget = n
    BY <1>4, <1>7 DEF PlanIInv, DrawnSound
  <2>6. \A i \in DOMAIN plan : plan[i].widget <= n /\ plan[i].widget < n
    BY <1>1 DEF PlanIInv, DrawnSound
  <2> QED
    BY <1>1, <1>2, <2>2, <2>4, <2>5, <2>6 DEF DrawnSound
<1> QED
  BY <1>8, <1>10, <1>11, <1>12 DEF PlanIInv

LEMMA EndWidgetInv ==
  ASSUME PlanIInv, EndWidget
  PROVE  PlanIInv'
<1> DEFINE n == UnderWay
           w == dashboard[n]
<1>1. /\ nextRow # 0 /\ nextRow \notin DOMAIN w /\ nextRow' = 0 /\ widgetQueries' = << >> /\ series' = << >>
      /\ UNCHANGED <<dashboard, autoCounter>>
      /\ \/ UNCHANGED <<queries, plan>>
         \/ queries' = queries \o widgetQueries /\ plan' = plan \o series
  BY DEF EndWidget, RowIsNext
<1>2. /\ n \in DOMAIN dashboard /\ n \in Nat /\ DOMAIN w = 1..Len(w) /\ Len(w) \in Nat
      /\ UnderWay' = n /\ PlanTypes
  BY <1>1 DEF PlanIInv, PlanTypes, UnderWay
<1>3. \A k \in DOMAIN w : k < nextRow
  BY <1>1, <1>2 DEF PlanTypes
<1>4. DOMAIN widgetQueries' = {} /\ DOMAIN series' = {}
  BY <1>1
<1>5. /\ queries \in Seq(Queries) /\ widgetQueries \in Seq(Queries)
      /\ plan \in Seq(Drawings) /\ series \in Seq(Drawings)
  BY <1>2 DEF PlanTypes
<1>6. /\ queries' \in Seq(Queries)
      /\ \A i \in DOMAIN queries' :
           \/ i \in DOMAIN queries /\ queries'[i] = queries[i]
           \/ \E j \in DOMAIN widgetQueries : i = Len(queries) + j /\ queries'[i] = widgetQueries[j]
      /\ \A i \in DOMAIN queries : i \in DOMAIN queries' /\ queries'[i] = queries[i]
      /\ UNCHANGED queries \/ \A j \in DOMAIN widgetQueries :
           Len(queries) + j \in DOMAIN queries' /\ queries'[Len(queries) + j] = widgetQueries[j]
      /\ Len(queries) \in Nat /\ DOMAIN widgetQueries \subseteq Nat
  <2>1. CASE UNCHANGED <<queries, plan>>
    BY <1>5, <2>1, SeqParts
  <2>2. CASE queries' = queries \o widgetQueries
    BY <1>5, <2>2, SeqParts, ConcatParts
  <2> QED
    BY <1>1, <2>1, <2>2
<1>7. plan' \in Seq(Drawings) /\ \A i \in DOMAIN plan' : plan'[i].widget <= n
  <2>1. \A i \in DOMAIN plan : plan[i].widget <= n
    BY DEF PlanIInv, DrawnSound
  <2>2. \A i \in DOMAIN series : series[i].widget <= n
    BY <1>2 DEF PlanIInv, DrawnSound
  <2>3. CASE UNCHANGED <<queries, plan>>
    BY <1>5, <2>1, <2>3
  <2>4. CASE plan' = plan \o series
    BY <1>5, <2>1, <2>2, <2>4, ConcatParts
  <2> QED
    BY <1>1, <2>3, <2>4
<1>8. PlanTypes'
  BY <1>1, <1>2, <1>6, <1>7 DEF PlanTypes
<1>9. IdsSound'
  <2>1. ASSUME NEW i \in DOMAIN queries'
        PROVE  \E m \in DOMAIN dashboard : \E k \in DOMAIN dashboard[m] : MadeOf(queries'[i], m, k)
    <3>1. CASE i \in DOMAIN queries /\ queries'[i] = queries[i]
      BY <3>1 DEF PlanIInv, IdsSound
    <3>2. ASSUME NEW j \in DOMAIN widgetQueries, queries'[i] = widgetQueries[j]
          PROVE  \E m \in DOMAIN dashboard : \E k \in DOMAIN dashboard[m] : MadeOf(queries'[i], m, k)
      <4>1. PICK k \in DOMAIN w : MadeOf(widgetQueries[j], n, k)
        BY DEF PlanIInv, IdsSound
      <4> QED
        BY <1>2, <3>2, <4>1
    <3> QED
      BY <1>6, <3>1, <3>2
  <2>2. ASSUME NEW i \in DOMAIN queries'
        PROVE  \E m \in DOMAIN dashboard : \E k \in DOMAIN dashboard[m] : MadeOf(queries[i], m, k)'
    <3>1. PICK m \in DOMAIN dashboard : \E k \in DOMAIN dashboard[m] : MadeOf(queries'[i], m, k)
      BY <2>1
    <3>2. PICK k \in DOMAIN dashboard[m] : MadeOf(queries'[i], m, k)
      BY <3>1
    <3>3. MadeOf(queries[i], m, k)'
      BY <1>1, <3>2 DEF MadeOf
    <3> QED
      BY <3>3
  <2>3. ASSUME NoneLooksGiven' PROVE IdsAreDistinct'
    <3>1. NoneLooksGiven
      BY <1>1, <2>3 DEF NoneLooksGiven
    <3>2. /\ \A j, k \in DOMAIN queries : queries[j].id = queries[k].id => j = k
          /\ \A j, k \in DOMAIN widgetQueries : widgetQueries[j].id = widgetQueries[k].id => j = k
          /\ \A j \in DOMAIN queries : \A k \in DOMAIN widgetQueries : queries[j].id # widgetQueries[k].id
      BY <3>1 DEF PlanIInv, IdsSound, IdsAreDistinct
    <3>3. SUFFICES ASSUME NEW j \in DOMAIN queries', NEW k \in DOMAIN queries', queries'[j].id = queries'[k].id
                   PROVE  j = k
      BY DEF IdsAreDistinct
    <3> QED
      BY <1>6, <3>2, <3>3
  <2> QED
    BY <1>1, <1>4, <2>2, <2>3 DEF IdsSound
<1>10. UsesSound'
  <2>1. DroppedIds' = DroppedIds
    BY <1>1 DEF DroppedIds
  <2>2. CASE UNCHANGED <<queries, plan>>
    <3>1. QueryIds' = QueryIds
      BY <2>2 DEF QueryIds
    <3> QED
      BY <1>1, <1>4, <2>1, <2>2, <3>1 DEF PlanIInv, UsesSound
  <2>3. CASE queries' = queries \o widgetQueries
    <3>1. QueryIds \subseteq QueryIds' /\ WidgetIds \subseteq QueryIds'
      <4>1. \A j \in DOMAIN widgetQueries :
              Len(queries) + j \in DOMAIN queries' /\ queries'[Len(queries) + j] = widgetQueries[j]
        BY <1>5, <2>3, ConcatParts
      <4> QED
        BY <1>6, <4>1 DEF QueryIds, WidgetIds
    <3>2. ASSUME NEW j \in DOMAIN widgetQueries
          PROVE  widgetQueries[j].uses \subseteq WidgetIds \cup DroppedIds
      <4>1. widgetQueries[j].uses \subseteq {DeclaredId(n, t) : t \in Declared(w)}
        BY DEF PlanIInv, UsesSound
      <4>2. ASSUME NEW t \in Declared(w) PROVE DeclaredId(n, t) \in WidgetIds \cup DroppedIds
        <5>1. PICK k \in DOMAIN w : t = w[k].id /\ t # NoId
          BY DEF Declared
        <5> QED
          BY <1>1, <1>3, <5>1 DEF PlanIInv, UsesSound
      <4> QED
        BY <4>1, <4>2
    <3>3. \A k \in DOMAIN queries' : queries'[k].uses \subseteq QueryIds' \cup DroppedIds
      <4>1. \A k \in DOMAIN queries : queries[k].uses \subseteq QueryIds \cup DroppedIds
        BY DEF PlanIInv, UsesSound
      <4> QED
        BY <1>6, <3>1, <3>2, <4>1
    <3> QED
      BY <1>1, <1>4, <2>1, <3>3 DEF UsesSound
  <2> QED
    BY <1>1, <2>2, <2>3
<1>11. DrawnSound'
  <2>1. Draws(plan', queries')
    <3>1. Draws(plan, queries) /\ Draws(series, widgetQueries)
      BY DEF PlanIInv, DrawnSound
    <3>2. \A i \in DOMAIN plan : \A j \in DOMAIN series : plan[i].widget <= series[j].widget
      BY <1>1 DEF PlanIInv, DrawnSound
    <3>3. CASE UNCHANGED <<queries, plan>>
      BY <3>1, <3>3
    <3>4. CASE queries' = queries \o widgetQueries /\ plan' = plan \o series
      BY <1>5, <3>1, <3>2, <3>4, DrawsBoth
    <3> QED
      BY <1>1, <3>3, <3>4
  <2>2. Draws(series', widgetQueries')
    BY <1>1, <1>4 DEF Draws
  <2> QED
    BY <1>1, <1>2, <1>4, <1>7, <2>1, <2>2 DEF DrawnSound
<1> QED
  BY <1>8, <1>9, <1>10, <1>11 DEF PlanIInv

LEMMA PlanInitInv ==
  ASSUME PlanInit PROVE PlanIInv
<1>1. /\ dashboard = << >> /\ nextRow = 0 /\ autoCounter = 0
      /\ widgetQueries = << >> /\ series = << >> /\ queries = << >> /\ plan = << >>
  BY DEF PlanInit
<1>2. /\ DOMAIN dashboard = {} /\ DOMAIN widgetQueries = {} /\ DOMAIN series = {}
      /\ DOMAIN queries = {} /\ DOMAIN plan = {}
  BY <1>1
<1>3. PlanTypes
  BY <1>1, <1>2 DEF PlanTypes
<1>4. IdsSound /\ UsesSound
  BY <1>1, <1>2 DEF IdsSound, IdsAreDistinct, UsesSound
<1>5. DrawnSound
  BY <1>1, <1>2 DEF DrawnSound, Draws
<1> QED
  BY <1>3, <1>4, <1>5 DEF PlanIInv

\* For any dashboard, however many widgets and rows it has: every query of the
\* call buildPlan() makes up has an id of its own, provided that no declared id
\* looks like a given one, and what is drawn is what is asked for and returned.
THEOREM PlansAreDrawable == PlanSpec => []PlanIsDrawable
<1>1. PlanInit => PlanIInv
  BY PlanInitInv
<1>2. PlanIInv /\ [PlanNext]_planVars => PlanIInv'
  <2>1. PlanIInv /\ PlanNext => PlanIInv'
    BY ReadWidgetInv, DropRowInv, PlanRowInv, EndWidgetInv DEF PlanNext
  <2>2. PlanIInv /\ UNCHANGED planVars => PlanIInv'
    <3> SUFFICES ASSUME PlanIInv, UNCHANGED planVars PROVE PlanIInv'
      OBVIOUS
    <3>1. UnderWay' = UnderWay /\ QueryIds' = QueryIds /\ WidgetIds' = WidgetIds /\ DroppedIds' = DroppedIds
      BY DEF planVars, UnderWay, QueryIds, WidgetIds, DroppedIds
    <3>2. PlanTypes'
      BY <3>1 DEF planVars, PlanIInv, PlanTypes
    <3>4. UsesSound'
      BY <3>1 DEF planVars, PlanIInv, UsesSound
    <3>5. DrawnSound'
      <4>1. Draws(plan, queries)' = Draws(plan, queries) /\ Draws(series, widgetQueries)' = Draws(series, widgetQueries)
        BY DEF planVars, Draws
      <4> QED
        BY <3>1, <4>1 DEF planVars, PlanIInv, DrawnSound
    <3>3. IdsSound'
      BY <3>1 DEF planVars, PlanIInv, IdsSound, MadeOf, NoneLooksGiven, IdsAreDistinct
    <3> QED
      BY <3>2, <3>3, <3>4, <3>5 DEF PlanIInv
  <2> QED
    BY <2>1, <2>2
<1>3. PlanIInv => PlanIsDrawable
  BY DEF PlanIInv, PlanIsDrawable, IdsSound, UsesSound, DrawnSound
<1> QED
  BY <1>1, <1>2, <1>3, PTL DEF PlanSpec

=============================================================================
