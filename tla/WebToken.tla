------------------------------- MODULE WebToken -------------------------------
(***************************************************************************)
(* services/listener/webTokenMinter.ts in one process: the web-player      *)
(* access token minted from the stored sp_dc cookie, cached until a minute *)
(* before it dies, with one slot for the attempt that others may join.     *)
(*                                                                         *)
(* The caller is the listener supervisor.  A cookie stands for its         *)
(* fingerprint, a token for the cookie it was minted from; the one-time    *)
(* code, the two HTTP calls and the shapes of their answers come down to   *)
(* "the call failed" and of which kind.  Several attempts may be alive: a  *)
(* caller with another cookie takes the slot over and leaves the attempt   *)
(* in it to its own callers.                                               *)
(***************************************************************************)
EXTENDS Integers, FiniteSets

CONSTANTS
  Callers,        \* bound: calls of mintWebToken() under way at the same time
  Cookies,        \* the sp_dc cookies the callers come with
  NoCookie,       \* what a caller without a stored cookie passes
  NoMint,         \* empty cache, empty slot, a call not waiting
  Margin,         \* WEB_TOKEN_EXPIRY_SAFETY_MS, in steps of the clock
  Lifetimes,      \* how long a minted token is good, as Spotify says
  LastMintSecond, \* bound: the last value of the clock
  MaxMints        \* bound: attempts ever started

\* WebTokenErrorKind: a mint that fails has no token for an answer.
Errors == {"invalid_cookie", "transient"}

ASSUME TokenAssumption ==
  /\ NoCookie \notin Cookies /\ NoMint \notin Cookies /\ Errors \cap Cookies = {}
  /\ Margin \in Nat /\ Lifetimes \subseteq Nat /\ LastMintSecond \in Nat /\ MaxMints \in Nat
  /\ NoMint \notin Nat

VARIABLES
  second,         \* Date.now()
  cached,         \* cache: the token, filed under the cookie's fingerprint
  inFlight,       \* inFlight and its fingerprint: the attempt others may join
  mint,           \* mint[n]: the n-th attempt, where it is and for which cookie
  wait            \* wait[c]: the cookie c came with, the attempt it awaits, its answer

mintVars == <<second, cached, inFlight, mint, wait>>

Mints == 1..MaxMints
Unused == [at |-> "unused", of |-> NoMint]

MintTypeOK ==
  /\ second \in 0..LastMintSecond
  /\ cached \in [key : Cookies, of : Cookies, until : Int] \cup {NoMint}
  /\ inFlight \in Mints \cup {NoMint}
  /\ mint \in [Mints -> [at : {"unused", "server-time", "exchange", "ended"}, of : Cookies \cup {NoMint}]]
  /\ wait \in [Callers -> [cookie : Cookies \cup {NoCookie}, on : Mints \cup {NoMint},
                           got : Cookies \cup Errors \cup {NoMint}]]

MintInit ==
  /\ second = 0 /\ cached = NoMint /\ inFlight = NoMint
  /\ mint = [n \in Mints |-> Unused]
  /\ wait = [c \in Callers |-> [cookie |-> NoCookie, on |-> NoMint, got |-> NoMint]]

Running(n) == mint[n].at \in {"server-time", "exchange"}
Started == {n \in Mints : mint[n].at # "unused"}
Free == Mints \ Started
Next1(S) == CHOOSE n \in S : \A m \in S : n <= m

-----------------------------------------------------------------------------
(* mintWebToken(spDc)                                                      *)

\* A cached token is used when it is the cookie's and has a minute left.
UsesCache(k) == cached # NoMint /\ cached.key = k /\ cached.until > second

\* The attempt in the slot is joined by callers with the same cookie only.
JoinsAny(k) == inFlight # NoMint                           \* (mutant)
Joins(k) == inFlight # NoMint /\ mint[inFlight].of = k

Calls(c, k, n, answer) == wait' = [wait EXCEPT ![c] = [cookie |-> k, on |-> n, got |-> answer]]

MintRefused(c) ==
  /\ wait[c].on = NoMint
  /\ Calls(c, NoCookie, NoMint, "invalid_cookie")
  /\ UNCHANGED <<second, cached, inFlight, mint>>

MintFromCache(c, k) ==
  /\ wait[c].on = NoMint /\ UsesCache(k)
  /\ Calls(c, k, NoMint, cached.of)
  /\ UNCHANGED <<second, cached, inFlight, mint>>

MintJoined(c, k) ==
  /\ wait[c].on = NoMint /\ ~UsesCache(k) /\ Joins(k)
  /\ Calls(c, k, inFlight, NoMint)
  /\ UNCHANGED <<second, cached, inFlight, mint>>

\* A new attempt takes the slot, whatever is in it.
MintStarted(c, k) ==
  /\ wait[c].on = NoMint /\ ~UsesCache(k) /\ ~Joins(k) /\ Free # {}
  /\ LET n == Next1(Free) IN
       /\ mint' = [mint EXCEPT ![n] = [at |-> "server-time", of |-> k]]
       /\ inFlight' = n
       /\ Calls(c, k, n, NoMint)
  /\ UNCHANGED <<second, cached>>

\* The attempt ends: those who wait for it get its answer, and it leaves the
\* slot unless another attempt has taken it.
ClearsAlways(n) == NoMint                                  \* (mutant)
SlotAfter(n) == IF inFlight = n THEN NoMint ELSE inFlight

Ends(n, answer) ==
  /\ mint' = [mint EXCEPT ![n] = [@ EXCEPT !.at = "ended"]]
  /\ inFlight' = SlotAfter(n)
  /\ wait' = [c \in Callers |->
       IF wait[c].on = n THEN [wait[c] EXCEPT !.on = NoMint, !.got = answer] ELSE wait[c]]

\* fetchServerTimeSeconds(): every failure is transient.
ServerTime(n) ==
  /\ mint[n].at = "server-time"
  /\ \/ mint' = [mint EXCEPT ![n] = [@ EXCEPT !.at = "exchange"]] /\ UNCHANGED <<inFlight, wait>>
     \/ Ends(n, "transient")
  /\ UNCHANGED <<second, cached>>

\* exchangeSpDcForAccessToken(): the cookie is refused, the call fails, or the
\* token is cached with its expiry brought forward.
Exchange(n) ==
  /\ mint[n].at = "exchange"
  /\ \/ \E e \in Errors : Ends(n, e) /\ UNCHANGED cached
     \/ \E l \in Lifetimes :
          /\ cached' = [key |-> mint[n].of, of |-> mint[n].of, until |-> second + l - Margin]
          /\ Ends(n, mint[n].of)
  /\ UNCHANGED second

ClockTicks ==
  /\ second < LastMintSecond /\ second' = second + 1
  /\ UNCHANGED <<cached, inFlight, mint, wait>>

MintNext ==
  \/ ClockTicks
  \/ \E c \in Callers :
       \/ MintRefused(c)
       \/ \E k \in Cookies : MintFromCache(c, k) \/ MintJoined(c, k) \/ MintStarted(c, k)
  \/ \E n \in Mints : ServerTime(n) \/ Exchange(n)

MintSpec == MintInit /\ [][MintNext]_mintVars

-----------------------------------------------------------------------------
(* Properties.                                                             *)

\* However attempts for old and new cookies overtake each other, nobody is handed
\* a token of another account's cookie, from the cache or from a joined attempt.
TokenOfOwnCookie ==
  \A c \in Callers : wait[c].got \in Cookies => wait[c].got = wait[c].cookie

\* "single-flighted": while the attempt started last is running, nobody starts a
\* second one for its cookie; an older attempt that ends late does not open the
\* slot to one.
NoSecondAttempt ==
  [][\A n, m \in Mints :
       (Running(n) /\ Running(n)' /\ mint[m].at = "unused" /\ mint'[m].at # "unused"
          /\ \A o \in Started : o <= n)
       => mint'[m].of # mint[n].of]_mintVars
=============================================================================
