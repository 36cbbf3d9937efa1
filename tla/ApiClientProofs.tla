-------------------------- MODULE ApiClientProofs --------------------------
(***************************************************************************)
(* Safety of the API client for any number of calls, every lifetime of     *)
(* tokens and every limit on outputs; and of the search for a key, for     *)
(* every agent and all preferences.                                        *)
(***************************************************************************)
EXTENDS ApiClient, FiniteSetTheorems, TLAPS

----------------------------------------------------------------------------
(***************************************************************************)
(* The buffer.                                                             *)
(***************************************************************************)

\* The bytes a + 1 to a + n of an output.
Run(a, n) == [i \in 1..n |-> a + i]

LEMMA RunLength ==
    ASSUME NEW a \in Nat, NEW n \in Nat
    PROVE  Len(Run(a, n)) = n
  BY DEF Run

\* What the buffer holds of the first n bytes: how much in its head, and how
\* much in its tail.
HeadOf(half, n) == IF n <= half THEN n ELSE half
TailOf(half, n) == IF n <= half THEN 0 ELSE IF n - half <= half THEN n - half ELSE half

\* The buffer was given the bytes 1 to n of an output, in any blocks.
Holds(h, n) ==
    /\ h.half \in Nat \ {0}
    /\ h = [head |-> Run(0, HeadOf(h.half, n)),
            tail |-> Run(n - TailOf(h.half, n), TailOf(h.half, n)),
            half |-> h.half, total |-> n]

LEMMA NewHolds == Holds(NewBuffer, 0) /\ (MaxOutput > 1 => 2 * NewBuffer.half <= MaxOutput)
<1> DEFINE half == IF MaxOutput > 1 THEN MaxOutput \div 2 ELSE 1
<1>1. NewBuffer = [head |-> <<>>, tail |-> <<>>, half |-> half, total |-> 0]
  BY DEF NewBuffer, Buffer!NewHeadTail
<1>2. half \in Nat \ {0} /\ (MaxOutput > 1 => 2 * half <= MaxOutput)
  BY OutputAssumption
<1> HIDE DEF half
<1>3. HeadOf(half, 0) = 0 /\ TailOf(half, 0) = 0
  BY <1>2 DEF HeadOf, TailOf
<1>4. Run(0, 0) = <<>>
  BY DEF Run
<1> QED  BY <1>1, <1>2, <1>3, <1>4 DEF Holds

\* What compacting leaves of a tail that ends at s.
LEMMA TailSlides ==
    ASSUME NEW s \in Nat, NEW l \in Nat, l <= s, NEW half \in Nat
    PROVE  Buffer!LastOf(Run(s - l, l), half) = IF l <= half THEN Run(s - l, l) ELSE Run(s - half, half)
<1>1. Len(Run(s - l, l)) = l
  BY DEF Run
<1>2. CASE l <= half
  BY <1>1, <1>2 DEF Buffer!LastOf
<1>3. CASE half < l
  <2>1. Buffer!LastOf(Run(s - l, l), half) = SubSeq(Run(s - l, l), l - half + 1, l)
    BY <1>1, <1>3 DEF Buffer!LastOf
  <2>2. SubSeq(Run(s - l, l), l - half + 1, l) = Run(s - half, half)
    BY <1>3 DEF Run
  <2>3. ~ (l <= half)
    BY <1>3
  <2> QED  BY <2>1, <2>2, <2>3
<1> QED  BY <1>2, <1>3

\* Write adds the next block to what the buffer holds.
LEMMA WriteHolds ==
    ASSUME NEW h, NEW n \in Nat, Holds(h, n), NEW m \in Nat
    PROVE  Holds(Buffer!Written(h, Run(n, m)), n + m) /\ Buffer!Written(h, Run(n, m)).half = h.half
<1> DEFINE p == Run(n, m)
<1>1. PICK half \in Nat \ {0} : half = h.half
  BY DEF Holds
<1>2. PICK a \in Nat, b \in Nat : a = HeadOf(half, n) /\ b = TailOf(half, n)
  BY <1>1 DEF HeadOf, TailOf
<1>3. h = [head |-> Run(0, a), tail |-> Run(n - b, b), half |-> half, total |-> n]
  BY <1>1, <1>2 DEF Holds
<1>4. PICK room \in Nat : room = IF m < half - a THEN m ELSE half - a
  <2>1. half - a \in Nat
    BY <1>2 DEF HeadOf
  <2>2. (IF m < half - a THEN m ELSE half - a) \in Nat
    BY <2>1
  <2> QED  BY <2>2
<1>5. room <= m /\ (room = 0 \/ a = n) /\ (room = 0 \/ b = 0) /\ b <= n /\ a <= half
  BY <1>2, <1>4 DEF HeadOf, TailOf
<1>6. Len(p) = m /\ Len(h.head) = a
  BY <1>3, RunLength
<1>7. Buffer!Room(h, p) = room
  BY <1>3, <1>4, <1>6 DEF Buffer!Room
<1>8. Run(0, a) \o SubSeq(Run(n, m), 1, room) = Run(0, a + room)
  BY <1>5 DEF Run
<1>9. PICK s \in Nat, l \in Nat : s = n + m /\ l = b + (m - room) /\ l <= s
  <2>1. n + m \in Nat /\ b + (m - room) \in Nat /\ b + (m - room) <= n + m
    BY <1>5
  <2> QED  BY <2>1
<1>10. Run(n - b, b) \o SubSeq(Run(n, m), room + 1, m) = Run(s - l, l)
  BY <1>5, <1>9 DEF Run
<1>11. PICK c \in Nat, d \in Nat : c = HeadOf(half, s) /\ d = TailOf(half, s)
  BY DEF HeadOf, TailOf
<1>12. a + room = c /\ d = (IF l <= half THEN l ELSE half)
  BY <1>2, <1>4, <1>9, <1>11 DEF HeadOf, TailOf
<1>13. Buffer!LastOf(Run(s - l, l), half) = Run(s - d, d)
  <2>1. Buffer!LastOf(Run(s - l, l), half) = IF l <= half THEN Run(s - l, l) ELSE Run(s - half, half)
    BY <1>9, TailSlides
  <2> QED  BY <2>1, <1>12
<1>14. Buffer!Written(h, p) = [head |-> Run(0, c), tail |-> Run(s - d, d), half |-> half, total |-> s]
  <2> DEFINE start == h.head \o SubSeq(p, 1, room)
             end == Buffer!LastOf(h.tail \o SubSeq(p, room + 1, m), half)
  <2>1. Buffer!Written(h, p) = [h EXCEPT !.total = h.total + m, !.head = start, !.tail = end]
    <3> HIDE DEF p
    <3> QED  BY <1>1, <1>6, <1>7 DEF Buffer!Written
  <2>2. start = Run(0, c) /\ end = Run(s - d, d)
    BY <1>3, <1>8, <1>10, <1>12, <1>13
  <2> HIDE DEF start, end, p
  <2> QED  BY <2>1, <2>2, <1>3, <1>9
<1> QED  BY <1>1, <1>9, <1>11, <1>14 DEF Holds

\* What is held are the ends of the output, within the limit.
LEMMA HoldsEnds ==
    ASSUME NEW h, NEW n \in Nat, Holds(h, n)
    PROVE  /\ Buffer!KeepsEnds(h, Run(0, n))
           /\ Len(h.head) + Len(h.tail) <= 2 * h.half
<1>1. PICK half \in Nat \ {0} : half = h.half
  BY DEF Holds
<1>2. PICK a \in Nat, b \in Nat : a = HeadOf(half, n) /\ b = TailOf(half, n)
  BY <1>1 DEF HeadOf, TailOf
<1>3. h = [head |-> Run(0, a), tail |-> Run(n - b, b), half |-> half, total |-> n]
  BY <1>1, <1>2 DEF Holds
<1>4. a <= half /\ b <= half /\ b <= n
  BY <1>2 DEF HeadOf, TailOf
<1>5. Len(h.head) = a /\ Len(Run(0, n)) = n
  BY <1>3, RunLength
<1>6. Len(h.tail) = b
  <2>1. n - b \in Nat
    BY <1>4
  <2> QED  BY <2>1, <1>3, RunLength
<1>7. CASE n <= 2 * half
  <2>1. a + b = n
    BY <1>2, <1>7 DEF HeadOf, TailOf
  <2>2. Run(0, a) \o Run(a, b) = Run(0, n)
    BY <2>1 DEF Run
  <2>3. n - b = a
    BY <2>1
  <2>4. Buffer!Kept(h) = Run(0, n)
    BY <2>2, <2>3, <1>3 DEF Buffer!Kept
  <2>5. Buffer!Omitted(h) = 0
    BY <2>1, <1>3, <1>5, <1>6 DEF Buffer!Omitted
  <2> QED  BY <1>1, <1>4, <1>5, <1>6, <1>7, <2>4, <2>5 DEF Buffer!KeepsEnds
<1>8. CASE n > 2 * half
  <2>1. a = half /\ b = half
    BY <1>2, <1>8 DEF HeadOf, TailOf
  <2>2. SubSeq(Run(0, n), 1, half) = Run(0, half)
    BY <1>8 DEF Run
  <2>3. SubSeq(Run(0, n), n - half + 1, n) = Run(n - half, half)
    BY <1>8 DEF Run
  <2>4. Buffer!Omitted(h) = n - 2 * half
    BY <2>1, <1>3, <1>5, <1>6 DEF Buffer!Omitted
  <2>5. h.head = SubSeq(Run(0, n), 1, half) /\ h.tail = SubSeq(Run(0, n), n - half + 1, n)
    BY <2>1, <2>2, <2>3, <1>3
  <2>6. ~ (n <= 2 * half)
    BY <1>8
  <2>7. Buffer!KeepsEnds(h, Run(0, n))
    BY <1>1, <1>5, <2>4, <2>5, <2>6 DEF Buffer!KeepsEnds
  <2> QED  BY <2>1, <2>7, <1>1, <1>5, <1>6
<1>9. n <= 2 * half \/ n > 2 * half
  OBVIOUS
<1> QED  BY <1>7, <1>8, <1>9, Zenon

LEMMA HoldsLengths ==
    ASSUME NEW h, NEW n \in Nat, Holds(h, n)
    PROVE  Len(h.head) \in Nat /\ Len(h.tail) \in Nat /\ h.half \in Nat
<1>1. PICK half \in Nat \ {0} : half = h.half
  BY DEF Holds
<1>2. PICK a \in Nat, b \in Nat : a = HeadOf(half, n) /\ b = TailOf(half, n)
  BY <1>1 DEF HeadOf, TailOf
<1>3. h = [head |-> Run(0, a), tail |-> Run(n - b, b), half |-> half, total |-> n]
  BY <1>1, <1>2 DEF Holds
<1>4. n - b \in Nat
  BY <1>2 DEF TailOf
<1> QED  BY <1>1, <1>3, <1>4, RunLength

----------------------------------------------------------------------------
(***************************************************************************)
(* The calls and the minter.                                               *)
(***************************************************************************)
Places == {"idle", "locking", "dialing", "signing", "sending", "reading", "done", "failed"}

\* The types of the calls' variables.
CallTypes ==
    /\ locked \in BOOLEAN
    /\ cached \in Nat /\ exp \in Nat
    /\ at \in [Calls -> Places]
    /\ late \subseteq Calls
    /\ left \in [Calls -> Nat]
    /\ due \in [Calls -> Nat]
    /\ held \in [Calls -> Nat]
    /\ printed \in [Calls -> Nat]
    /\ DOMAIN out = Calls

\* The expiry in a token and the one that Token keeps of it: the first is the
\* second without its fraction of a second.
Cut(whole, exact) == whole <= exact /\ exact < whole + Second

\* The mutex is held for the one call that mints, which found the cached token
\* due; and the recorded expiry is that of the cached token, but for the fraction.
MinterInv ==
    /\ \A c, d \in Minting : c = d
    /\ Minting # {} => locked /\ cached <= Margin
    /\ Cut(cached, exp)
    /\ \A c \in Minting : Cut(left[c], due[c])

\* A token that a call holds or is having made loses its life no faster than
\* time passes.
TokenInv ==
    \A c \in Calls : at[c] \in {"dialing", "signing", "sending"} /\ held[c] <= Margin =>
        left[c] + held[c] + Second > Margin + 1

\* The buffer of call c holds the n bytes that have arrived of the output.
Arrived(c, n) ==
    /\ n <= printed[c]
    /\ Holds(out[c], n)
    /\ MaxOutput > 1 => 2 * out[c].half <= MaxOutput
    /\ c \in Execs /\ at[c] = "done" => n = printed[c]
    /\ at[c] \notin {"reading", "done", "failed"} => n = 0

OutputInv == \A c \in Calls : \E n \in Nat : Arrived(c, n)

LEMMA MarginType == Margin \in Nat /\ Margin < Ttl /\ Long \in Nat /\ Long > Margin
  BY TtlAssumption DEF Margin, Long

\* The expiry that is signed is a whole second of the lifetime that Token reckons
\* with, or what is left of it.
LEMMA StartMintCuts ==
    ASSUME NEW c \in Calls, StartMint(c), CallTypes
    PROVE  /\ left' \in [Calls -> Nat] /\ due' \in [Calls -> Nat]
           /\ left'[c] \in 0..Ttl /\ due'[c] = Ttl /\ Cut(left'[c], due'[c])
           /\ \A d \in Calls \ {c} : left'[d] = left[d] /\ due'[d] = due[d]
<1>1. PICK fraction \in 0..Second - 1 : left' = [left EXCEPT ![c] = Ttl - fraction]
  BY DEF StartMint
<1>2. Ttl \in Nat /\ Second \in Nat /\ Ttl - fraction \in 0..Ttl /\ Ttl < Ttl - fraction + Second
  BY <1>1, TtlAssumption, SecondAssumption
<1>3. left' \in [Calls -> Nat] /\ left'[c] = Ttl - fraction /\ \A d \in Calls \ {c} : left'[d] = left[d]
  BY <1>1, <1>2 DEF CallTypes
<1>4. due' \in [Calls -> Nat] /\ due'[c] = Ttl /\ \A d \in Calls \ {c} : due'[d] = due[d]
  BY <1>2 DEF StartMint, CallTypes
<1> QED  BY <1>2, <1>3, <1>4 DEF Cut

\* The types of the calls are kept.
LEMMA TypesInit == Init => CallTypes
<1> SUFFICES ASSUME Init
             PROVE  CallTypes
  OBVIOUS
<1>1. locked \in BOOLEAN /\ cached \in Nat /\ exp \in Nat /\ late \subseteq Calls
  BY DEF Init
<1>2. at \in [Calls -> Places]
  BY DEF Init, Places
<1>3. left \in [Calls -> Nat] /\ due \in [Calls -> Nat] /\ printed \in [Calls -> Nat]
  BY DEF Init
<1>4. held \in [Calls -> Nat]
  BY MarginType DEF Init
<1>5. DOMAIN out = Calls
  BY DEF Init
<1> QED  BY <1>1, <1>2, <1>3, <1>4, <1>5 DEF CallTypes

LEMMA TypesNext == CallTypes /\ [Next]_vars => CallTypes'
<1> SUFFICES ASSUME CallTypes, [Next]_vars
             PROVE  CallTypes'
  OBVIOUS
<1> USE DEF CallTypes, Places
<1>1. ASSUME Starting \/ Serve \/ UNCHANGED vars
      PROVE  CallTypes'
  BY <1>1 DEF Starting, Serve, vars, callVars, minter, tokens, answers
<1>2. ASSUME NEW c \in Calls, Begin(c)
      PROVE  CallTypes'
  BY <1>2 DEF Begin, Goto, minter, tokens, answers
<1>3. ASSUME NEW c \in Calls, ReuseToken(c)
      PROVE  CallTypes'
  BY <1>3 DEF ReuseToken, Goto, minter, answers
<1>4. ASSUME NEW c \in Calls, StartMint(c)
      PROVE  CallTypes'
  BY <1>4, StartMintCuts DEF StartMint, Hold, Goto, answers
<1>5. ASSUME NEW c \in Calls, Dial(c)
      PROVE  CallTypes'
  BY <1>5 DEF Dial, Goto, minter, tokens, answers
<1>6. ASSUME NEW c \in Calls, MintFails(c)
      PROVE  CallTypes'
  BY <1>6, MarginType DEF MintFails, Forget, Release, Goto, answers
<1>7. ASSUME NEW c \in Calls, Mint(c)
      PROVE  CallTypes'
  BY <1>7 DEF Mint, Expiry, Goto, answers
<1>8. ASSUME NEW c \in Calls, Send(c)
      PROVE  CallTypes'
  <2>1. PICK n \in (IF c \in Execs THEN 0..MaxPrint ELSE {0}) : printed' = [printed EXCEPT ![c] = n]
    BY <1>8 DEF Send
  <2>2. n \in Nat
    BY OutputAssumption
  <2> QED  BY <1>8, <2>1, <2>2, MarginType DEF Send, Forget, Goto, minter
<1>9. ASSUME NEW c \in Calls, SendFails(c) \/ Finish(c) \/ ReadFails(c)
      PROVE  CallTypes'
  BY <1>9, MarginType DEF SendFails, Forget, Finish, ReadFails, Goto, minter, tokens, answers
<1>10. ASSUME NEW c \in Calls, Receive(c)
       PROVE  CallTypes'
  <2>1. DOMAIN out' = DOMAIN out
    BY <1>10 DEF Receive
  <2> QED  BY <1>10, <2>1 DEF Receive, minter, tokens
<1>11. ASSUME NEW c \in Calls, Return(c)
       PROVE  CallTypes'
  BY <1>11 DEF Return, Goto, minter, tokens
<1>12. ASSUME NEW c \in Calls, Expire(c)
       PROVE  CallTypes'
  BY <1>12 DEF Expire, minter, tokens, answers
<1>13. ASSUME Tick
       PROVE  CallTypes'
  BY <1>13, MarginType DEF Tick, Less, answers
<1> QED  BY <1>1, <1>2, <1>3, <1>4, <1>5, <1>6, <1>7, <1>8, <1>9, <1>10, <1>11, <1>12, <1>13
         DEF Next, CallStep, Token, Request

\* One mint at a time, and only when it is due.
LEMMA MinterInit == Init => MinterInv
<1> SUFFICES ASSUME Init
             PROVE  MinterInv
  OBVIOUS
<1>1. Minting = {}
  BY DEF Init, Minting
<1>2. Cut(cached, exp)
  BY SecondAssumption, TtlAssumption DEF Init, Cut
<1> QED  BY <1>1, <1>2 DEF MinterInv

LEMMA MinterNext == CallTypes /\ MinterInv /\ [Next]_vars => MinterInv'
<1> SUFFICES ASSUME CallTypes, MinterInv, [Next]_vars
             PROVE  MinterInv'
  OBVIOUS
<1>1. ASSUME Starting \/ Serve \/ UNCHANGED vars
      PROVE  MinterInv'
  <2>1. UNCHANGED callVars
    BY <1>1 DEF Starting, Serve, vars
  <2>2. UNCHANGED <<minter, left, due>> /\ Minting' = Minting
    BY <2>1 DEF callVars, tokens, Minting
  <2> QED  BY <2>2 DEF MinterInv, minter
<1>2. ASSUME NEW c \in Calls, NEW where \in Places \ {"dialing", "signing"}, Goto(c, where), UNCHANGED <<minter, due>>,
             at[c] \notin {"dialing", "signing"}, \A d \in Calls \ {c} : left'[d] = left[d]
      PROVE  MinterInv'
  <2>1. Minting' = Minting /\ c \notin Minting
    BY <1>2 DEF CallTypes, Goto, Minting
  <2>2. \A d \in Minting : left'[d] = left[d]
    BY <1>2, <2>1 DEF Minting
  <2> QED  BY <1>2, <2>1, <2>2 DEF MinterInv, minter
<1>3. ASSUME NEW c \in Calls, StartMint(c)
      PROVE  MinterInv'
  <2>1. Minting = {} /\ Minting' = {c}
    BY <1>3 DEF StartMint, Goto, CallTypes, MinterInv, Minting
  <2>2. locked' /\ cached' = cached /\ exp' = exp
    BY <1>3 DEF StartMint, Hold
  <2>3. cached <= Margin
    BY <1>3, MarginType, SecondAssumption DEF StartMint, Fresh, CallTypes, MinterInv, Cut
  <2>4. Cut(left'[c], due'[c])
    BY <1>3, StartMintCuts
  <2> QED  BY <2>1, <2>2, <2>3, <2>4 DEF MinterInv, Minting
<1>4. ASSUME NEW c \in Calls, Dial(c)
      PROVE  MinterInv'
  <2>1. Minting' = Minting
    BY <1>4 DEF Dial, Goto, CallTypes, Minting
  <2> QED  BY <1>4, <2>1 DEF Dial, minter, tokens, MinterInv
<1>5. ASSUME NEW c \in Calls, MintFails(c) \/ Mint(c)
      PROVE  MinterInv'
  <2>1. Minting' = {} /\ c \in Minting
    BY <1>5 DEF MintFails, Mint, Goto, CallTypes, MinterInv, Minting
  <2>2. Cut(cached', exp')
    BY <1>5, <2>1 DEF MintFails, Mint, Expiry, MinterInv
  <2> QED  BY <2>1, <2>2 DEF MinterInv
<1>6. ASSUME NEW c \in Calls, Receive(c) \/ Expire(c)
      PROVE  MinterInv'
  <2>1. UNCHANGED <<minter, left, due>> /\ Minting' = Minting
    BY <1>6 DEF Receive, Expire, tokens, Minting
  <2> QED  BY <2>1 DEF MinterInv, minter
<1>7. ASSUME Tick
      PROVE  MinterInv'
  <2>1. ASSUME NEW m \in Nat, NEW n \in Nat, Cut(m, n)
        PROVE  Cut(Less(m), Less(n))
    BY <2>1, SecondAssumption, TtlAssumption DEF Cut, Less
  <2>2. Cut(cached', exp')
    BY <1>7, <2>1 DEF Tick, CallTypes, MinterInv
  <2>3. Minting' = Minting /\ locked' = locked
    BY <1>7 DEF Tick, Minting
  <2>4. ASSUME NEW c \in Minting'
        PROVE  Cut(left'[c], due'[c])
    <3>1. c \in Calls /\ c \in Minting
      BY <2>3 DEF Minting
    <3>2. Cut(Less(left[c]), Less(due[c]))
      BY <2>1, <3>1 DEF CallTypes, MinterInv
    <3> QED  BY <1>7, <3>1, <3>2 DEF Tick
  <2>5. cached <= Margin => cached' <= Margin
    BY <1>7, MarginType DEF Tick, Less, CallTypes
  <2> QED  BY <2>2, <2>3, <2>4, <2>5 DEF MinterInv
<1>8. ASSUME NEW c \in Calls, Begin(c)
      PROVE  MinterInv'
  <2>1. PICK where \in {"locking", "failed"} : Goto(c, where)
    BY <1>8 DEF Begin
  <2>2. /\ where \in Places \ {"dialing", "signing"} /\ UNCHANGED <<minter, left, due>>
        /\ at[c] \notin {"dialing", "signing"}
    BY <1>8 DEF Begin, Places, tokens
  <2> QED  BY <2>1, <2>2, <1>2
<1>9. ASSUME NEW c \in Calls, ReuseToken(c) \/ Send(c) \/ SendFails(c)
      PROVE  MinterInv'
  <2>1. (Goto(c, "sending") \/ Goto(c, "reading") \/ Goto(c, "failed")) /\ UNCHANGED <<minter, due>>
        /\ at[c] \notin {"dialing", "signing"}
    BY <1>9 DEF ReuseToken, Send, SendFails
  <2>2. \A d \in Calls \ {c} : left'[d] = left[d]
    BY <1>9 DEF ReuseToken, Send, SendFails, Forget, CallTypes
  <2> QED  BY <2>1, <2>2, <1>2 DEF Places
<1>10. ASSUME NEW c \in Calls, Finish(c) \/ ReadFails(c) \/ Return(c)
      PROVE  MinterInv'
  <2>1. (Goto(c, "failed") \/ Goto(c, "done") \/ Goto(c, "idle")) /\ UNCHANGED <<minter, left, due>>
        /\ at[c] \notin {"dialing", "signing"}
    BY <1>10 DEF Finish, ReadFails, Return, tokens
  <2> QED  BY <2>1, <1>2 DEF Places
<1> QED  BY <1>1, <1>3, <1>4, <1>5, <1>6, <1>7, <1>8, <1>9, <1>10 DEF Next, CallStep, Token, Request

\* What the variables are within, and that a held mutex has a holder.
Bounds ==
    /\ locked => Minting # {}
    /\ cached <= Ttl /\ exp <= Ttl
    /\ left \in [Calls -> 0..Ttl] /\ due \in [Calls -> 0..Ttl]
    /\ held \in [Calls -> 0..Long]
    /\ \A c \in Calls : printed[c] <= MaxPrint

LEMMA BoundsInit == Init => Bounds
<1> SUFFICES ASSUME Init
             PROVE  Bounds
  OBVIOUS
<1>1. 0 \in 0..Ttl /\ Long \in 0..Long
  BY MarginType, TtlAssumption
<1>2. left \in [Calls -> 0..Ttl] /\ due \in [Calls -> 0..Ttl] /\ held \in [Calls -> 0..Long]
  BY <1>1 DEF Init
<1>3. \A c \in Calls : printed[c] <= MaxPrint
  BY OutputAssumption DEF Init
<1> QED  BY <1>2, <1>3, TtlAssumption DEF Init, Bounds

LEMMA ForgetBounds ==
    ASSUME NEW c \in Calls, Bounds, Forget(c)
    PROVE  left' \in [Calls -> 0..Ttl] /\ held' \in [Calls -> 0..Long]
<1>1. 0 \in 0..Ttl /\ Long \in 0..Long
  BY MarginType, TtlAssumption
<1> QED  BY <1>1 DEF Forget, Bounds

LEMMA BoundsNext == CallTypes /\ MinterInv /\ Bounds /\ [Next]_vars => Bounds'
<1> SUFFICES ASSUME CallTypes, MinterInv, Bounds, [Next]_vars
             PROVE  Bounds'
  OBVIOUS
<1>0. 0 \in 0..Ttl
  BY TtlAssumption
<1>1. ASSUME Starting \/ Serve \/ UNCHANGED vars
      PROVE  Bounds'
  <2>1. UNCHANGED callVars
    BY <1>1 DEF Starting, Serve, vars
  <2>2. Minting' = Minting
    BY <2>1 DEF callVars, Minting
  <2> QED  BY <2>1, <2>2 DEF callVars, minter, tokens, answers, Bounds
<1>2. ASSUME NEW c \in Calls, NEW where \in Places, Goto(c, where), UNCHANGED <<minter, tokens, held>>,
             at[c] \notin {"dialing", "signing"}, \A d \in Calls : printed'[d] <= MaxPrint
      PROVE  Bounds'
  <2>1. Minting \subseteq Minting'
    BY <1>2 DEF Minting, Goto, CallTypes
  <2> QED  BY <1>2, <2>1 DEF Bounds, minter, tokens
<1>3. ASSUME NEW c \in Calls, Begin(c)
      PROVE  Bounds'
  <2>1. PICK where \in Places : Goto(c, where)
    BY <1>3 DEF Begin, Places
  <2>2. \A d \in Calls : printed'[d] <= MaxPrint
    BY <1>3 DEF Begin, answers, Bounds
  <2> QED  BY <1>2, <1>3, <2>1, <2>2 DEF Begin
<1>4. ASSUME NEW c \in Calls, ReuseToken(c)
      PROVE  Bounds'
  <2>1. ~ locked /\ UNCHANGED <<minter, due, printed>>
    BY <1>4 DEF ReuseToken, answers
  <2>2. left' \in [Calls -> 0..Ttl]
    <3>1. cached \in 0..Ttl
      BY TtlAssumption DEF CallTypes, Bounds
    <3> QED  BY <1>4, <3>1 DEF ReuseToken, Bounds
  <2>3. held' \in [Calls -> 0..Long]
    <3>1. 0 \in 0..Long
      BY MarginType
    <3> QED  BY <1>4, <3>1 DEF ReuseToken, Bounds
  <2> QED  BY <2>1, <2>2, <2>3 DEF Bounds, minter
<1>5. ASSUME NEW c \in Calls, StartMint(c)
      PROVE  Bounds'
  <2>1. Minting' # {}
    BY <1>5 DEF StartMint, Goto, Minting, CallTypes
  <2>2. left' \in [Calls -> 0..Ttl] /\ due' \in [Calls -> 0..Ttl]
    <3>1. PICK fraction \in 0..Second - 1 : left' = [left EXCEPT ![c] = Ttl - fraction]
      BY <1>5 DEF StartMint
    <3>2. Ttl \in 0..Ttl /\ Ttl - fraction \in 0..Ttl
      BY TtlAssumption, SecondAssumption
    <3> QED  BY <1>5, <3>1, <3>2 DEF StartMint, Bounds
  <2>3. held' \in [Calls -> 0..Long]
    <3>1. 0 \in 0..Long
      BY MarginType
    <3> QED  BY <1>5, <3>1 DEF StartMint, Bounds
  <2> QED  BY <1>5, <2>1, <2>2, <2>3 DEF StartMint, answers, Bounds
<1>6. ASSUME NEW c \in Calls, Dial(c)
      PROVE  Bounds'
  <2>1. Minting' # {}
    BY <1>6 DEF Dial, Goto, Minting, CallTypes
  <2> QED  BY <1>6, <2>1 DEF Dial, minter, tokens, answers, Bounds
<1>7. ASSUME NEW c \in Calls, MintFails(c)
      PROVE  Bounds'
  <2>1. left' \in [Calls -> 0..Ttl] /\ due' \in [Calls -> 0..Ttl] /\ held' \in [Calls -> 0..Long]
    BY <1>7, <1>0, ForgetBounds DEF MintFails, Bounds
  <2> QED  BY <1>7, <2>1 DEF MintFails, Release, answers, Bounds
<1>8. ASSUME NEW c \in Calls, Mint(c)
      PROVE  Bounds'
  <2>1. left' \in [Calls -> 0..Ttl] /\ due' \in [Calls -> 0..Ttl] /\ held' \in [Calls -> 0..Long]
    BY <1>8, <1>0 DEF Mint, Bounds
  <2>2. cached' <= Ttl /\ exp' <= Ttl
    BY <1>8, TtlAssumption DEF Mint, Expiry, Bounds
  <2> QED  BY <1>8, <2>1, <2>2 DEF Mint, answers, Bounds
<1>9. ASSUME NEW c \in Calls, Send(c)
      PROVE  Bounds'
  <2>1. PICK n \in (IF c \in Execs THEN 0..MaxPrint ELSE {0}) : printed' = [printed EXCEPT ![c] = n]
    BY <1>9 DEF Send
  <2>2. n <= MaxPrint
    BY OutputAssumption
  <2>3. \A d \in Calls : printed'[d] <= MaxPrint
    BY <2>1, <2>2 DEF Bounds, CallTypes
  <2>4. left' \in [Calls -> 0..Ttl] /\ held' \in [Calls -> 0..Long] /\ UNCHANGED <<minter, due>>
    BY <1>9, ForgetBounds DEF Send
  <2>5. Minting' = Minting
    BY <1>9 DEF Send, Goto, Minting, CallTypes
  <2> QED  BY <2>3, <2>4, <2>5 DEF Bounds, minter
<1>10. ASSUME NEW c \in Calls, SendFails(c)
       PROVE  Bounds'
  <2>1. left' \in [Calls -> 0..Ttl] /\ held' \in [Calls -> 0..Long] /\ UNCHANGED <<minter, due, printed>>
    BY <1>10, ForgetBounds DEF SendFails, answers
  <2>2. Minting' = Minting
    BY <1>10 DEF SendFails, Goto, Minting, CallTypes
  <2> QED  BY <2>1, <2>2 DEF Bounds, minter
<1>14. ASSUME NEW c \in Calls, Finish(c) \/ ReadFails(c)
       PROVE  Bounds'
  <2>1. PICK where \in Places : Goto(c, where)
    BY <1>14 DEF Finish, ReadFails, Places
  <2>2. \A d \in Calls : printed'[d] <= MaxPrint
    BY <1>14 DEF Finish, ReadFails, answers, Bounds
  <2> QED  BY <1>2, <1>14, <2>1, <2>2 DEF Finish, ReadFails
<1>11. ASSUME NEW c \in Calls, Receive(c) \/ Expire(c)
       PROVE  Bounds'
  BY <1>11 DEF Receive, Expire, minter, tokens, answers, Bounds, Minting
<1>12. ASSUME NEW c \in Calls, Return(c)
       PROVE  Bounds'
  <2>1. Minting' = Minting
    BY <1>12 DEF Return, Goto, Minting, CallTypes
  <2>2. \A d \in Calls : printed'[d] <= MaxPrint
    BY <1>12, OutputAssumption DEF Return, Bounds, CallTypes
  <2> QED  BY <1>12, <2>1, <2>2 DEF Return, minter, tokens, Bounds
<1>13. ASSUME Tick
       PROVE  Bounds'
  <2>1. \A n \in 0..Ttl : Less(n) \in 0..Ttl
    BY TtlAssumption DEF Less
  <2>2. cached' <= Ttl /\ exp' <= Ttl
    <3>1. cached \in 0..Ttl /\ exp \in 0..Ttl
      BY TtlAssumption DEF CallTypes, Bounds
    <3>2. Less(cached) \in 0..Ttl /\ Less(exp) \in 0..Ttl
      BY <2>1, <3>1
    <3> QED  BY <1>13, <3>2 DEF Tick
  <2>3. left' \in [Calls -> 0..Ttl] /\ due' \in [Calls -> 0..Ttl]
    <3>1. \A c \in Calls : left[c] \in 0..Ttl /\ due[c] \in 0..Ttl
      BY DEF Bounds
    <3> QED  BY <1>13, <2>1, <3>1 DEF Tick
  <2>4. held' \in [Calls -> 0..Long]
    <3>1. \A c \in Calls : (IF held[c] < Long THEN held[c] + 1 ELSE Long) \in 0..Long
      BY MarginType DEF Bounds
    <3> QED  BY <1>13, <3>1 DEF Tick
  <2> QED  BY <1>13, <2>2, <2>3, <2>4 DEF Tick, answers, Bounds, Minting
<1> QED  BY <1>1, <1>3, <1>4, <1>5, <1>6, <1>7, <1>8, <1>9, <1>10, <1>11, <1>12, <1>13, <1>14
         DEF Next, CallStep, Token, Request

\* Tokens last.
LEMMA TokenInit == Init => TokenInv
  BY DEF Init, TokenInv

LEMMA TokenNext == CallTypes /\ MinterInv /\ TokenInv /\ [Next]_vars => TokenInv'
<1> SUFFICES ASSUME CallTypes, MinterInv, TokenInv, [Next]_vars
             PROVE  TokenInv'
  OBVIOUS
<1>1. ASSUME Starting \/ Serve \/ UNCHANGED vars
      PROVE  TokenInv'
  BY <1>1 DEF TokenInv, Starting, Serve, vars, callVars, tokens
<1>2. ASSUME NEW c \in Calls, NEW where \in Places \ {"dialing", "signing", "sending"},
             Goto(c, where), \A d \in Calls \ {c} : left'[d] = left[d] /\ held'[d] = held[d]
      PROVE  TokenInv'
  BY <1>2 DEF TokenInv, CallTypes, Goto, Places
<1>3. ASSUME NEW c \in Calls, ReuseToken(c) \/ StartMint(c)
      PROVE  TokenInv'
  <2>1. \E exact \in Nat : exact > Margin /\ Cut(left'[c], exact) /\ left'[c] \in Nat
    <3>1. CASE ReuseToken(c)
      <4>1. left'[c] = cached
        BY <3>1 DEF ReuseToken, CallTypes
      <4> QED  BY <3>1, <4>1 DEF ReuseToken, Fresh, MinterInv, CallTypes
    <3>2. CASE StartMint(c)
      BY <3>2, StartMintCuts, MarginType, TtlAssumption
    <3> QED  BY <1>3, <3>1, <3>2
  <2>2. held'[c] = 0
    BY <1>3 DEF ReuseToken, StartMint, CallTypes
  <2>3. \A d \in Calls \ {c} : at'[d] = at[d] /\ left'[d] = left[d] /\ held'[d] = held[d]
    BY <1>3, StartMintCuts DEF ReuseToken, StartMint, Goto, CallTypes
  <2>4. left'[c] + held'[c] + Second > Margin + 1
    BY <2>1, <2>2, MarginType, SecondAssumption, TtlAssumption DEF Cut
  <2> QED  BY <2>3, <2>4 DEF TokenInv
<1>4. ASSUME NEW c \in Calls, Dial(c) \/ Mint(c)
      PROVE  TokenInv'
  <2>1. at[c] \in {"dialing", "signing"} /\ UNCHANGED <<left, held>>
    BY <1>4 DEF Dial, Mint, tokens
  <2>2. \A d \in Calls \ {c} : at'[d] = at[d]
    BY <1>4 DEF Dial, Mint, Goto, CallTypes
  <2> QED  BY <2>1, <2>2 DEF TokenInv
<1>5. ASSUME NEW c \in Calls, Receive(c) \/ Expire(c)
      PROVE  TokenInv'
  BY <1>5 DEF TokenInv, Receive, Expire, tokens
<1>6. ASSUME NEW c \in Calls, Return(c)
      PROVE  TokenInv'
  <2>1. at'[c] = "idle"
    BY <1>6 DEF Return, Goto, CallTypes
  <2>2. \A d \in Calls \ {c} : at'[d] = at[d] /\ left'[d] = left[d] /\ held'[d] = held[d]
    BY <1>6 DEF Return, Goto, CallTypes, tokens
  <2> QED  BY <2>1, <2>2 DEF TokenInv
<1>7. ASSUME Tick
      PROVE  TokenInv'
  <2> SUFFICES ASSUME NEW c \in Calls, at[c] \in {"dialing", "signing", "sending"}, held'[c] <= Margin
               PROVE  left'[c] + held'[c] + Second > Margin + 1
    BY <1>7 DEF Tick, TokenInv
  <2>1. left[c] \in Nat /\ held[c] \in Nat
    BY DEF CallTypes
  <2>2. held'[c] = held[c] + 1
    BY <1>7, <2>1, MarginType DEF Tick
  <2>3. left[c] + held[c] + Second > Margin + 1
    BY <2>1, <2>2, MarginType DEF TokenInv
  <2>4. left'[c] >= left[c] - 1 /\ left'[c] \in Nat
    BY <1>7, <2>1 DEF Tick, Less
  <2>5. Second \in Nat
    BY SecondAssumption, TtlAssumption
  <2> QED  BY <2>1, <2>2, <2>3, <2>4, <2>5, MarginType
<1>8. ASSUME NEW c \in Calls, Begin(c)
      PROVE  TokenInv'
  <2>1. PICK where \in {"locking", "failed"} : Goto(c, where)
    BY <1>8 DEF Begin
  <2>2. where \in Places \ {"dialing", "signing", "sending"} /\ UNCHANGED <<left, held>>
    BY <1>8 DEF Begin, Places, tokens
  <2> QED  BY <2>1, <2>2, <1>2
<1>9. ASSUME NEW c \in Calls, MintFails(c) \/ Send(c) \/ SendFails(c) \/ Finish(c) \/ ReadFails(c)
      PROVE  TokenInv'
  <2>1. Goto(c, "failed") \/ Goto(c, "done") \/ Goto(c, "reading")
    BY <1>9 DEF MintFails, Send, SendFails, Finish, ReadFails
  <2>2. \A d \in Calls \ {c} : left'[d] = left[d] /\ held'[d] = held[d]
    BY <1>9 DEF MintFails, Send, SendFails, Finish, ReadFails, Forget, tokens, CallTypes
  <2> QED  BY <2>1, <2>2, <1>2 DEF Places
<1> QED  BY <1>1, <1>3, <1>4, <1>5, <1>6, <1>7, <1>8, <1>9 DEF Next, CallStep, Token, Request

\* The buffers hold what has arrived.
LEMMA OutputInit == Init => OutputInv
<1> SUFFICES ASSUME Init, NEW c \in Calls
             PROVE  Arrived(c, 0)
  BY DEF OutputInv
<1>1. out[c] = NewBuffer /\ printed[c] = 0 /\ at[c] = "idle"
  BY DEF Init
<1>2. Holds(out[c], 0) /\ (MaxOutput > 1 => 2 * out[c].half <= MaxOutput)
  BY <1>1, NewHolds
<1> QED  BY <1>1, <1>2 DEF Arrived

\* A call to which nothing happens that matters to its buffer.
LEMMA ArrivedStays ==
    ASSUME NEW c \in Calls, NEW n \in Nat, Arrived(c, n),
           out'[c] = out[c], printed'[c] = printed[c],
           at'[c] \in {"done"} => at[c] = "done" \/ c \notin Execs,
           at[c] \in {"reading", "done", "failed"} => at'[c] \in {"reading", "done", "failed"}
    PROVE  Arrived(c, n)'
<1>1. Holds(out'[c], n)
  BY DEF Arrived
<1> QED  BY <1>1, Zenon DEF Arrived

LEMMA OutputNext == CallTypes /\ OutputInv /\ [Next]_vars => OutputInv'
<1> SUFFICES ASSUME CallTypes, OutputInv, [Next]_vars, NEW c \in Calls
             PROVE  \E n \in Nat : Arrived(c, n)'
  BY DEF OutputInv
<1>0. PICK n \in Nat : Arrived(c, n)
  BY DEF OutputInv
<1>1. ASSUME Starting \/ Serve \/ Tick \/ UNCHANGED vars
      PROVE  Arrived(c, n)'
  <2>1. UNCHANGED <<out, printed, at>>
    BY <1>1 DEF Starting, Serve, Tick, vars, callVars, answers
  <2> QED  BY <2>1, <1>0, ArrivedStays
<1>2. ASSUME NEW d \in Calls \ {c}, CallStep(d)
      PROVE  Arrived(c, n)'
  <2>1. at'[c] = at[c] /\ out'[c] = out[c] /\ printed'[c] = printed[c]
    BY <1>2 DEF CallStep, Token, Request, Begin, ReuseToken, StartMint, Dial, Mint, MintFails, Send,
                SendFails, Receive, Finish, ReadFails, Return, Expire, Goto, answers, CallTypes
  <2> QED  BY <2>1, <1>0, ArrivedStays
<1>3. ASSUME Begin(c) \/ Token(c) \/ SendFails(c) \/ Expire(c) \/ ReadFails(c)
      PROVE  Arrived(c, n)'
  <2>1. UNCHANGED <<out, printed>>
    BY <1>3 DEF Begin, Token, ReuseToken, StartMint, Dial, Mint, MintFails, SendFails, ReadFails, Expire,
                answers
  <2>2. at'[c] # "done" \/ at'[c] = at[c]
    BY <1>3 DEF Begin, Token, ReuseToken, StartMint, Dial, Mint, MintFails, SendFails, ReadFails, Expire,
                Goto, CallTypes
  <2>3. at[c] \in {"reading", "done", "failed"} => at'[c] \in {"reading", "done", "failed"}
    BY <1>3 DEF Begin, Token, ReuseToken, StartMint, Dial, Mint, MintFails, SendFails, ReadFails, Expire,
                Goto, CallTypes
  <2> QED  BY <2>1, <2>2, <2>3, <1>0, ArrivedStays
<1>4. ASSUME Send(c)
      PROVE  Arrived(c, n)'
  <2>1. n = 0 /\ Holds(out[c], n) /\ (MaxOutput > 1 => 2 * out[c].half <= MaxOutput)
    BY <1>0, <1>4 DEF Arrived, Send
  <2>2. out' = out /\ at'[c] = "reading"
    BY <1>4 DEF Send, Goto, CallTypes
  <2>3. PICK m \in (IF c \in Execs THEN 0..MaxPrint ELSE {0}) : printed' = [printed EXCEPT ![c] = m]
    BY <1>4 DEF Send
  <2>4. printed'[c] = m /\ 0 <= m
    BY <2>3, OutputAssumption DEF CallTypes
  <2> QED  BY <2>1, <2>2, <2>4 DEF Arrived
<1>5. ASSUME Finish(c)
      PROVE  Arrived(c, n)'
  <2>1. out' = out /\ printed' = printed /\ at'[c] = "done"
    BY <1>5 DEF Finish, Goto, CallTypes, answers
  <2>2. out[c].total = n
    BY <1>0 DEF Arrived, Holds
  <2>3. c \in Execs => n = printed[c]
    BY <1>5, <2>2 DEF Finish, Complete
  <2> QED  BY <1>0, <2>1, <2>3 DEF Arrived
<1>6. ASSUME Receive(c)
      PROVE  \E m \in Nat : Arrived(c, m)'
  <2>1. out[c].total = n /\ Holds(out[c], n) /\ n <= printed[c]
        /\ (MaxOutput > 1 => 2 * out[c].half <= MaxOutput)
    BY <1>0 DEF Arrived, Holds
  <2>2. PICK m \in 1..(printed[c] - n) :
            out' = [out EXCEPT ![c] = Buffer!Written(out[c], [i \in 1..m |-> n + i])]
    BY <1>6, <2>1 DEF Receive
  <2>3. PICK s \in Nat : s = n + m /\ s <= printed[c] /\ m \in Nat
    BY <2>2 DEF CallTypes
  <2>4. out'[c] = Buffer!Written(out[c], Run(n, m))
    BY <2>2 DEF CallTypes, Run
  <2>5. Holds(out'[c], n + m) /\ out'[c].half = out[c].half
    <3>1. Holds(Buffer!Written(out[c], Run(n, m)), n + m)
          /\ Buffer!Written(out[c], Run(n, m)).half = out[c].half
      BY <2>1, <2>3, WriteHolds, Zenon
    <3> QED  BY <3>1, <2>4, Zenon
  <2>6. at' = at /\ printed' = printed /\ at[c] = "reading"
    BY <1>6 DEF Receive
  <2>7. Holds(out'[c], s) /\ (MaxOutput > 1 => 2 * out'[c].half <= MaxOutput)
    BY <2>1, <2>3, <2>5
  <2> QED  BY <2>3, <2>6, <2>7 DEF Arrived
<1>7. ASSUME Return(c)
      PROVE  Arrived(c, 0)'
  <2>1. out'[c] = NewBuffer /\ printed'[c] = 0 /\ at'[c] = "idle"
    BY <1>7 DEF Return, Goto, CallTypes
  <2>2. Holds(out'[c], 0) /\ (MaxOutput > 1 => 2 * out'[c].half <= MaxOutput)
    BY <2>1, NewHolds
  <2> QED  BY <2>1, <2>2 DEF Arrived
<1>8. (\E d \in Calls : CallStep(d)) => (\E d \in Calls \ {c} : CallStep(d)) \/ CallStep(c)
  OBVIOUS
<1> QED  BY <1>1, <1>2, <1>3, <1>4, <1>5, <1>6, <1>7, <1>8 DEF Next, CallStep, Request

----------------------------------------------------------------------------
(***************************************************************************)
(* The search for a key.                                                   *)
(***************************************************************************)

\* The search is a record of the fields it starts with.
IsSearch(s) ==
    /\ s = [at |-> s.at, agent |-> s.agent, pin |-> s.pin, prefer |-> s.prefer, only |-> s.only,
            gone |-> s.gone, order |-> s.order, next |-> s.next, answer |-> s.answer]
    /\ ToSet(s.agent) \subseteq Keys
    /\ s.answer \in [Keys -> {"untried", "unsigned", "refused", "unreached", "accepted"}]

\* As long as it goes on, no key was accepted, and none could not be reached.
SearchInv ==
    /\ IsSearch(search)
    /\ search.at \in {"listing", "probing"} =>
          \A k \in Keys : search.answer[k] \in {"untried", "unsigned", "refused"}
    /\ search.at = "probing" => search.pin = NoKey
    /\ FirstAccepted

LEMMA SearchStart ==
    ASSUME NEW agent, ToSet(agent) \subseteq Keys, NEW pin, NEW prefer, NEW only
    PROVE  IsSearch(Search(agent, pin, prefer, only))
  BY DEF IsSearch, Search

LEMMA SearchInitInv == Init => SearchInv
<1> SUFFICES ASSUME SearchInit
             PROVE  SearchInv
  BY DEF Init
<1>1. PICK agent, pin, prefer, only : agent \in Orders /\ search = Search(agent, pin, prefer, only)
  BY DEF SearchInit
<1>2. ToSet(agent) \subseteq Keys
  BY <1>1 DEF Orders, Lists, ToSet
<1>3. IsSearch(search)
  BY <1>1, <1>2, SearchStart
<1>4. search.at = "listing" /\ \A k \in Keys : search.answer[k] = "untried"
  BY <1>1 DEF Search
<1> QED  BY <1>3, <1>4 DEF SearchInv, FirstAccepted

LEMMA SearchNextInv == SearchInv /\ [Next]_vars => SearchInv'
<1> SUFFICES ASSUME SearchInv, [Next]_vars
             PROVE  SearchInv'
  OBVIOUS
<1>1. ASSUME UNCHANGED searchVars
      PROVE  SearchInv'
  BY <1>1 DEF SearchInv, FirstAccepted, Probed, IsSearch, searchVars
<1>2. ASSUME Serve
      PROVE  SearchInv'
  <2>1. search' = [Search(<<>>, NoKey, <<>>, FALSE) EXCEPT !.at = "over"]
    BY <1>2 DEF Serve
  <2>2. IsSearch(Search(<<>>, NoKey, <<>>, FALSE))
    <3>1. ToSet(<<>>) \subseteq Keys
      BY DEF ToSet
    <3> QED  BY <3>1, SearchStart, Zenon
  <2>3. IsSearch(search') /\ search'.at = "over"
    BY <2>1, <2>2 DEF IsSearch, Search
  <2> QED  BY <2>3 DEF SearchInv, FirstAccepted, IsSearch
<1>3. ASSUME ListFails \/ SignerGone
      PROVE  SearchInv'
  BY <1>3 DEF ListFails, SignerGone, Stop, SearchInv, IsSearch, FirstAccepted
<1>4. ASSUME TakePinned
      PROVE  SearchInv'
  BY <1>4 DEF TakePinned, Found, Stop, SearchInv, IsSearch, FirstAccepted
<1>5. ASSUME ListCandidates
      PROVE  SearchInv'
  <2> DEFINE order == OrderKeys(search.agent, search.prefer, search.only)
  <2>1. \/ search' = [search EXCEPT !.at = "failed"]
        \/ search' = [search EXCEPT !.at = "probing", !.order = order]
    BY <1>5 DEF ListCandidates, Stop
  <2> HIDE DEF order
  <2> QED  BY <1>5, <2>1 DEF ListCandidates, SearchInv, IsSearch, FirstAccepted
<1>6. ASSUME CandidateInAgent, Probing, NEW a \in {"unsigned", "refused"}, Skip(a)
      PROVE  SearchInv'
  <2>1. Candidate \in Keys
    BY <1>6 DEF CandidateInAgent, SearchInv, IsSearch
  <2> DEFINE s == [search EXCEPT !.answer[Candidate] = a]
  <2>2. search' = [s EXCEPT !.at = "failed"] \/ search' = [s EXCEPT !.next = @ + 1]
    BY <1>6 DEF Skip, Stop
  <2>3. search'.at # "found" /\ search'.answer = [search.answer EXCEPT ![Candidate] = a]
        /\ search'.pin = search.pin /\ IsSearch(search')
    <3>1. s.answer = [search.answer EXCEPT ![Candidate] = a]
      BY DEF SearchInv, IsSearch
    <3>2. IsSearch(s) /\ s.at = "probing" /\ s.pin = search.pin
      BY <1>6, <2>1 DEF SearchInv, IsSearch, Probing
    <3> HIDE DEF s
    <3> QED  BY <2>2, <3>1, <3>2 DEF IsSearch
  <2>4. \A k \in Keys : search'.answer[k] \in {"untried", "unsigned", "refused"}
    BY <1>6, <2>1, <2>3 DEF SearchInv, IsSearch, Probing
  <2> QED  BY <1>6, <2>3, <2>4 DEF SearchInv, FirstAccepted, IsSearch, Probing
<1>7. ASSUME Accepted
      PROVE  SearchInv'
  <2>1. Candidate \in Keys
    BY <1>7 DEF Accepted, CandidateInAgent, SearchInv, IsSearch
  <2>2. /\ search'.answer = [search.answer EXCEPT ![Candidate] = "accepted"]
        /\ search'.at = "found" /\ IsSearch(search')
    BY <1>7, <2>1 DEF Accepted, SearchInv, IsSearch
  <2>3. \A k \in Keys \ {Candidate} : search'.answer[k] \in {"untried", "unsigned", "refused"}
    BY <1>7, <2>1, <2>2 DEF Accepted, Probing, SearchInv, IsSearch
  <2>4. search'.answer[Candidate] = "accepted" /\ key' = Candidate
    BY <1>7, <2>1, <2>2 DEF Accepted, SearchInv, IsSearch
  <2> QED  BY <2>1, <2>2, <2>3, <2>4 DEF SearchInv, FirstAccepted, Probed
<1>8. ASSUME ProbeFails
      PROVE  SearchInv'
  <2>1. Candidate \in Keys
    BY <1>8 DEF ProbeFails, CandidateInAgent, SearchInv, IsSearch
  <2>2. search'.at = "failed" /\ IsSearch(search')
    BY <1>8, <2>1 DEF ProbeFails, Unreached, Stop, SearchInv, IsSearch
  <2> QED  BY <2>2 DEF SearchInv, FirstAccepted, IsSearch
<1>9. ASSUME NEW k \in Keys, DropKey(k)
      PROVE  SearchInv'
  BY <1>9 DEF DropKey, Probing, SearchInv, IsSearch, FirstAccepted
<1>10. ASSUME Tick \/ (\E c \in Calls : CallStep(c)) \/ UNCHANGED vars
       PROVE  UNCHANGED searchVars
  BY <1>10 DEF Tick, CallStep, Token, Request, Begin, ReuseToken, StartMint, Dial, Mint, MintFails, Send,
               SendFails, Receive, Finish, ReadFails, Return, Expire, vars
<1>11. ASSUME SearchNext
       PROVE  SearchInv'
  BY <1>11, <1>3, <1>4, <1>5, <1>6, <1>7, <1>8, <1>9 DEF SearchNext, SignRefused, Refused
<1> QED  BY <1>1, <1>2, <1>10, <1>11 DEF Next, Starting

----------------------------------------------------------------------------
(***************************************************************************)
(* The order in which keys are tried.                                      *)
(***************************************************************************)

\* Induction on the natural numbers, for a set of them.
LEMMA SetInduction ==
    ASSUME NEW T \in SUBSET Nat, 0 \in T, \A n \in T : n + 1 \in T
    PROVE  \A n \in Nat : n \in T
<1> SUFFICES ASSUME Nat \ T # {}
             PROVE  FALSE
  OBVIOUS
<1> DEFINE R == OpToRel(<, Nat)
<1>1. \E x \in Nat \ T : \A y \in Nat \ T : ~ (<<y, x>> \in R)
  <2>1. IsWellFoundedOn(R, Nat)
    BY NatLessThanWellFounded
  <2> HIDE DEF R
  <2> QED  BY <2>1, WFMin
<1>2. PICK x \in Nat \ T : \A y \in Nat \ T : ~ (<<y, x>> \in R)
  BY <1>1
<1>3. x # 0 /\ x - 1 \in Nat
  OBVIOUS
<1>4. x - 1 \in T
  <2>1. <<x - 1, x>> \in R
    BY <1>3 DEF OpToRel
  <2> QED  BY <1>2, <1>3, <2>1
<1>5. (x - 1) + 1 = x
  BY <1>3
<1> QED  BY <1>4, <1>5

\* One more key that is wanted.
With(before, k, agent) == IF k \in ToSet(agent) \ ToSet(before) THEN Append(before, k) ELSE before

\* The n-th of the wanted keys has its turn.
Then(before, n, prefer, wanted, agent) ==
    LET used == ToSet(IF n <= Len(prefer) THEN before ELSE prefer)
    IN  IF wanted[n] \in ToSet(agent) \ used THEN Append(before, wanted[n]) ELSE before

\* A search goes through what is wanted key by key.
LEMMA AvailableStep ==
    ASSUME NEW prefer, NEW wanted \in Seq(Keys), NEW agent
    PROVE  /\ Available(prefer, wanted, agent)[0] = <<>>
           /\ \A n \in 1..Len(wanted) :
                 Available(prefer, wanted, agent)[n] = Then(Available(prefer, wanted, agent)[n - 1], n, prefer, wanted, agent)
<1> DEFINE IsUpTo(f, m) == f = [n \in 0..m |->
               IF n = 0 THEN <<>> ELSE Then(f[n - 1], n, prefer, wanted, agent)]
           T == {m \in Nat : \E f : IsUpTo(f, m)}
<1>1. 0 \in T
  <2>1. IsUpTo([n \in 0..0 |-> <<>>], 0)
    OBVIOUS
  <2> QED  BY <2>1
<1>2. ASSUME NEW m \in T
      PROVE  m + 1 \in T
  <2>1. PICK f : IsUpTo(f, m)
    OBVIOUS
  <2>0. m \in Nat
    OBVIOUS
  <2> DEFINE g == [n \in 0..(m + 1) |-> IF n <= m THEN f[n] ELSE Then(f[m], m + 1, prefer, wanted, agent)]
  <2>2. ASSUME NEW n \in 0..(m + 1)
        PROVE  g[n] = IF n = 0 THEN <<>> ELSE Then(g[n - 1], n, prefer, wanted, agent)
    <3>1. CASE n <= m
      <4>1. g[n] = f[n] /\ (n # 0 => g[n - 1] = f[n - 1])
        BY <3>1
      <4>2. f[n] = IF n = 0 THEN <<>> ELSE Then(f[n - 1], n, prefer, wanted, agent)
        BY <2>1, <3>1
      <4> QED  BY <4>1, <4>2
    <3>2. CASE ~ (n <= m)
      <4>1. n = m + 1 /\ n # 0 /\ n - 1 = m
        BY <2>0, <3>2
      <4>2. g[m] = f[m] /\ g[m + 1] = Then(f[m], m + 1, prefer, wanted, agent)
        BY <2>0
      <4> QED  BY <4>1, <4>2
    <3> QED  BY <3>1, <3>2
  <2>3. IsUpTo(g, m + 1)
    BY <2>2
  <2>4. m + 1 \in Nat
    BY <2>0
  <2> QED  BY <2>3, <2>4, Zenon
<1>3. Len(wanted) \in T
  <2>1. \A n \in Nat : n \in T
    <3> HIDE DEF T
    <3>1. T \in SUBSET Nat
      BY DEF T
    <3> QED  BY <1>1, <1>2, <3>1, SetInduction
  <2> QED  BY <2>1
<1>4. IsUpTo(Available(prefer, wanted, agent), Len(wanted))
  <2>1. Available(prefer, wanted, agent) = CHOOSE f : IsUpTo(f, Len(wanted))
    BY DEF Available, Then
  <2>2. \E f : IsUpTo(f, Len(wanted))
    BY <1>3
  <2> QED  BY <2>1, <2>2
<1> HIDE DEF IsUpTo
<1>5. \A n \in 0..Len(wanted) : Available(prefer, wanted, agent)[n] =
         IF n = 0 THEN <<>> ELSE Then(Available(prefer, wanted, agent)[n - 1], n, prefer, wanted, agent)
  BY <1>4 DEF IsUpTo
<1> QED  BY <1>5
----------------------------------------------------------------------------

\* ks are the keys of the agent among the first n wanted, each once; and where
\* one stands, all that come before it were wanted no later.
Ordered(ks, wanted, agent, n) ==
    /\ ks \in Seq(Keys)
    /\ IsInjective(ks)
    /\ \A a \in DOMAIN ks : ks[a] \in ToSet(agent) /\ \E i \in 1..n : ks[a] = wanted[i]
    /\ \A i \in 1..n : wanted[i] \in ToSet(agent) =>
          \E a \in DOMAIN ks :
              ks[a] = wanted[i] /\ \A b \in 1..a : \E j \in 1..i : ks[b] = wanted[j]

LEMMA OrderedStep ==
    ASSUME NEW wanted \in Seq(Keys), NEW agent, NEW n \in Nat, n + 1 \in 1..Len(wanted),
           NEW ks, Ordered(ks, wanted, agent, n)
    PROVE  Ordered(With(ks, wanted[n + 1], agent), wanted, agent, n + 1)
<1> DEFINE k == wanted[n + 1]
<1>1. ks \in Seq(Keys) /\ k \in Keys /\ 1..n \subseteq 1..(n + 1) /\ n + 1 \in 1..(n + 1)
  BY DEF Ordered
<1>2. CASE k \in ToSet(agent) \ ToSet(ks)
  <2> DEFINE new == Append(ks, k)
  <2>1. new \in Seq(Keys) /\ With(ks, k, agent) = new
    BY <1>1, <1>2 DEF With
  <2>2. /\ DOMAIN ks = 1..Len(ks) /\ DOMAIN new = 1..(Len(ks) + 1) /\ Len(ks) \in Nat
        /\ new[Len(ks) + 1] = k
        /\ \A a \in DOMAIN ks : new[a] = ks[a] /\ ks[a] # k
    BY <1>1, <1>2 DEF ToSet
  <2> HIDE DEF new, k
  <2>3. \A a \in DOMAIN new : a \in DOMAIN ks \/ a = Len(ks) + 1
    BY <2>2
  <2>4. IsInjective(new)
    BY <2>2, <2>3 DEF IsInjective, Ordered
  <2>5. ASSUME NEW a \in DOMAIN new
        PROVE  new[a] \in ToSet(agent) /\ \E i \in 1..(n + 1) : new[a] = wanted[i]
    <3>1. CASE a \in DOMAIN ks
      <4>1. ks[a] \in ToSet(agent) /\ \E i \in 1..n : ks[a] = wanted[i]
        BY <3>1 DEF Ordered
      <4> QED  BY <4>1, <3>1, <2>2, <1>1
    <3>2. CASE a = Len(ks) + 1
      <4>1. new[a] = wanted[n + 1]
        BY <3>2, <2>2 DEF k
      <4> QED  BY <4>1, <3>2, <2>2, <1>1, <1>2
    <3> QED  BY <3>1, <3>2, <2>3
  <2>6. ASSUME NEW i \in 1..(n + 1), wanted[i] \in ToSet(agent)
        PROVE  \E a \in DOMAIN new :
                  new[a] = wanted[i] /\ \A b \in 1..a : \E j \in 1..i : new[b] = wanted[j]
    <3>1. CASE i \in 1..n
      <4>1. PICK a \in DOMAIN ks :
                ks[a] = wanted[i] /\ \A b \in 1..a : \E j \in 1..i : ks[b] = wanted[j]
        BY <2>6, <3>1 DEF Ordered
      <4>2. a \in DOMAIN new /\ \A b \in 1..a : b \in DOMAIN ks
        BY <2>2
      <4> QED  BY <4>1, <4>2, <2>2
    <3>2. CASE i = n + 1
      <4>1. Len(ks) + 1 \in DOMAIN new /\ new[Len(ks) + 1] = wanted[i]
        BY <3>2, <2>2 DEF k
      <4>2. \A b \in 1..(Len(ks) + 1) : \E j \in 1..i : new[b] = wanted[j]
        BY <2>2, <2>5, <3>2
      <4> QED  BY <4>1, <4>2
    <3> QED  BY <3>1, <3>2
  <2> QED  BY <2>1, <2>4, <2>5, <2>6 DEF Ordered, k
<1>3. CASE k \in ToSet(ks)
  <2>1. With(ks, k, agent) = ks
    BY <1>3 DEF With
  <2>2. PICK c \in DOMAIN ks : ks[c] = k
    BY <1>3 DEF ToSet
  <2>3. \A b \in 1..c : b \in DOMAIN ks
    <3>1. DOMAIN ks = 1..Len(ks) /\ Len(ks) \in Nat
      BY <1>1
    <3> QED  BY <3>1
  <2>4. \A a \in DOMAIN ks : ks[a] \in ToSet(agent) /\ \E i \in 1..n : ks[a] = wanted[i]
    BY DEF Ordered
  <2>5. \A b \in 1..c : \E j \in 1..(n + 1) : ks[b] = wanted[j]
    <3> SUFFICES ASSUME NEW b \in 1..c
                 PROVE  \E j \in 1..(n + 1) : ks[b] = wanted[j]
      OBVIOUS
    <3>1. PICK j \in 1..n : ks[b] = wanted[j]
      BY <2>3, <2>4
    <3>2. j \in 1..(n + 1)
      BY <1>1
    <3> QED  BY <3>1, <3>2
  <2>6. \A i \in 1..(n + 1) : wanted[i] \in ToSet(agent) =>
           \E a \in DOMAIN ks :
               ks[a] = wanted[i] /\ \A b \in 1..a : \E j \in 1..i : ks[b] = wanted[j]
    <3> SUFFICES ASSUME NEW i \in 1..(n + 1), wanted[i] \in ToSet(agent)
                 PROVE  \E a \in DOMAIN ks :
                           ks[a] = wanted[i] /\ \A b \in 1..a : \E j \in 1..i : ks[b] = wanted[j]
      OBVIOUS
    <3>1. CASE i \in 1..n
      BY <3>1 DEF Ordered
    <3>2. CASE i = n + 1
      BY <3>2, <2>2, <2>5
    <3> QED  BY <3>1, <3>2
  <2> QED  BY <2>1, <2>4, <2>6, <1>1 DEF Ordered
<1>4. CASE k \notin ToSet(agent)
  <2>1. With(ks, k, agent) = ks
    BY <1>4 DEF With
  <2>2. \A i \in 1..(n + 1) : wanted[i] \in ToSet(agent) => i \in 1..n
    BY <1>4
  <2> QED  BY <2>1, <2>2, <1>1 DEF Ordered
<1> QED  BY <1>2, <1>3, <1>4

\* The wanted keys are the preferred ones and then others, each of those once.
Wanted(prefer, wanted) ==
    /\ Len(prefer) <= Len(wanted)
    /\ \A i \in DOMAIN prefer : wanted[i] = prefer[i]
    /\ \A i, j \in (Len(prefer) + 1)..Len(wanted) : wanted[i] = wanted[j] => i = j

\* A key that follows the preferred ones has been taken exactly when it is one
\* of them.
LEMMA ThenIsWith ==
    ASSUME NEW prefer \in Seq(Keys), NEW wanted \in Seq(Keys), NEW agent, Wanted(prefer, wanted),
           NEW n \in Nat, n + 1 \in 1..Len(wanted), NEW ks, Ordered(ks, wanted, agent, n)
    PROVE  Then(ks, n + 1, prefer, wanted, agent) = With(ks, wanted[n + 1], agent)
<1> DEFINE k == wanted[n + 1]
<1>0. DOMAIN prefer = 1..Len(prefer) /\ Len(prefer) \in Nat /\ Len(wanted) \in Nat
  OBVIOUS
<1>1. CASE n + 1 <= Len(prefer)
  BY <1>1 DEF Then, With
<1>2. CASE ~ (n + 1 <= Len(prefer)) /\ k \in ToSet(agent)
  <2>1. ASSUME k \in ToSet(ks)
        PROVE  k \in ToSet(prefer)
    <3>1. PICK a \in DOMAIN ks : ks[a] = k
      BY <2>1 DEF ToSet
    <3>2. PICK i \in 1..n : k = wanted[i]
      BY <3>1 DEF Ordered
    <3>3. i \in DOMAIN prefer
      <4>1. i # n + 1 /\ n + 1 \in (Len(prefer) + 1)..Len(wanted)
        BY <1>0, <1>2
      <4>2. i \notin (Len(prefer) + 1)..Len(wanted)
        BY <3>2, <4>1 DEF Wanted
      <4> QED  BY <1>0, <4>2
    <3>4. prefer[i] = k
      BY <3>2, <3>3 DEF Wanted
    <3> QED  BY <3>3, <3>4 DEF ToSet
  <2>2. ASSUME k \in ToSet(prefer)
        PROVE  k \in ToSet(ks)
    <3>1. PICK i \in DOMAIN prefer : prefer[i] = k
      BY <2>2 DEF ToSet
    <3>2. i \in 1..n /\ wanted[i] = k
      BY <1>0, <1>2, <3>1 DEF Wanted
    <3>3. PICK a \in DOMAIN ks : ks[a] = wanted[i]
      BY <1>2, <3>2 DEF Ordered
    <3> QED  BY <3>2, <3>3 DEF ToSet
  <2> QED  BY <1>2, <2>1, <2>2 DEF Then, With
<1>3. CASE k \notin ToSet(agent)
  BY <1>3 DEF Then, With
<1> QED  BY <1>1, <1>2, <1>3

LEMMA AvailableOrdered ==
    ASSUME NEW prefer \in Seq(Keys), NEW wanted \in Seq(Keys), NEW agent, Wanted(prefer, wanted)
    PROVE  Ordered(Available(prefer, wanted, agent)[Len(wanted)], wanted, agent, Len(wanted))
<1> DEFINE T == {n \in Nat : n <= Len(wanted) => Ordered(Available(prefer, wanted, agent)[n], wanted, agent, n)}
<1>1. 0 \in T
  <2>1. Available(prefer, wanted, agent)[0] = <<>>
    BY AvailableStep
  <2>2. Ordered(<<>>, wanted, agent, 0)
    BY DEF Ordered, IsInjective
  <2> QED  BY <2>1, <2>2
<1>2. ASSUME NEW n \in T
      PROVE  n + 1 \in T
  <2>1. n \in Nat
    OBVIOUS
  <2>2. ASSUME n + 1 <= Len(wanted)
        PROVE  Ordered(Available(prefer, wanted, agent)[n + 1], wanted, agent, n + 1)
    <3>1. n + 1 \in 1..Len(wanted) /\ n <= Len(wanted) /\ (n + 1) - 1 = n
      BY <2>1, <2>2
    <3>2. Ordered(Available(prefer, wanted, agent)[n], wanted, agent, n)
      BY <3>1
    <3>3. Available(prefer, wanted, agent)[n + 1] =
             Then(Available(prefer, wanted, agent)[n], n + 1, prefer, wanted, agent)
      BY <3>1, AvailableStep
    <3>4. Available(prefer, wanted, agent)[n + 1] = With(Available(prefer, wanted, agent)[n], wanted[n + 1], agent)
      BY <2>1, <3>1, <3>2, <3>3, ThenIsWith
    <3> QED  BY <2>1, <3>1, <3>2, <3>4, OrderedStep
  <2> QED  BY <2>1, <2>2
<1>3. \A n \in Nat : n \in T
  <2>1. T \in SUBSET Nat
    OBVIOUS
  <2> HIDE DEF T
  <2> QED  BY <1>1, <1>2, <2>1, SetInduction
<1>4. Len(wanted) \in Nat
  OBVIOUS
<1> QED  BY <1>3, <1>4

\* The order in which keys are tried, for every agent that lists each of its keys
\* once and for all preferences (orderKeys): the keys that the agent has, or only
\* the preferred of them, each once; of two keys the one preferred first comes first, and a preferred one
\* before one that is not; the rest are in the order of the agent.
THEOREM OrderKeysCorrect ==
    ASSUME NEW agent \in Seq(Keys), IsInjective(agent), NEW prefer \in Seq(Keys), NEW only
    PROVE  LET order == OrderKeys(agent, prefer, only)
               sooner(a, b, ks) == \E i \in DOMAIN ks : ks[i] = a /\ \A j \in 1..i : ks[j] # b
           IN  /\ order \in Seq(Keys) /\ IsInjective(order)
               /\ ToSet(order) = {k \in ToSet(agent) : only => k \in ToSet(prefer)}
               /\ \A a, b \in DOMAIN order :
                     /\ sooner(order[a], order[b], prefer) => a < b
                     /\ {order[a], order[b]} \cap ToSet(prefer) = {} /\ sooner(order[a], order[b], agent) => a < b
<1> DEFINE wanted == prefer \o (IF only THEN <<>> ELSE agent)
           order == OrderKeys(agent, prefer, only)
           Sooner(a, b, ks) == \E i \in DOMAIN ks : ks[i] = a /\ \A j \in 1..i : ks[j] # b
<1>1. wanted \in Seq(Keys) /\ Len(prefer) \in Nat /\ DOMAIN prefer = 1..Len(prefer) /\ DOMAIN wanted = 1..Len(wanted)
  OBVIOUS
<1>2. \A i \in DOMAIN prefer : i \in DOMAIN wanted /\ wanted[i] = prefer[i]
  OBVIOUS
<1>3. only => wanted = prefer
  OBVIOUS
<1>4. ASSUME ~ only, NEW i \in DOMAIN agent
      PROVE  i \in Nat /\ Len(prefer) + i \in DOMAIN wanted /\ wanted[Len(prefer) + i] = agent[i]
  BY <1>4
<1>5. ASSUME ~ only, NEW j \in DOMAIN wanted, j \notin DOMAIN prefer
      PROVE  j - Len(prefer) \in DOMAIN agent /\ wanted[j] = agent[j - Len(prefer)]
  BY <1>5
<1>6. Ordered(order, wanted, agent, Len(wanted))
  <2>1. Len(prefer) <= Len(wanted)
    OBVIOUS
  <2>2. ASSUME NEW i \in (Len(prefer) + 1)..Len(wanted), NEW j \in (Len(prefer) + 1)..Len(wanted),
               wanted[i] = wanted[j]
        PROVE  i = j
    <3>1. ~ only
      <4>1. only => (Len(prefer) + 1)..Len(wanted) = {}
        <5> HIDE DEF wanted
        <5> QED  BY <1>1, <1>3
      <4> QED  BY <2>2, <4>1
    <3>2. i \in DOMAIN wanted \ DOMAIN prefer /\ j \in DOMAIN wanted \ DOMAIN prefer
      BY <1>1
    <3>3. /\ i - Len(prefer) \in DOMAIN agent /\ wanted[i] = agent[i - Len(prefer)]
          /\ j - Len(prefer) \in DOMAIN agent /\ wanted[j] = agent[j - Len(prefer)]
      BY <1>5, <3>1, <3>2
    <3>4. i - Len(prefer) = j - Len(prefer)
      BY <2>2, <3>3 DEF IsInjective
    <3> QED  BY <1>1, <3>4
  <2>3. Wanted(prefer, wanted)
    BY <1>2, <2>1, <2>2 DEF Wanted
  <2> QED  BY <1>1, <2>3, AvailableOrdered DEF OrderKeys
<1> HIDE DEF wanted, order
<1>7. order \in Seq(Keys) /\ IsInjective(order)
  BY <1>6, Zenon DEF Ordered
<1>8. \A a \in DOMAIN order : order[a] \in ToSet(agent) /\ \E i \in DOMAIN wanted : order[a] = wanted[i]
  BY <1>1, <1>6, Zenon DEF Ordered
<1>9. \A i \in DOMAIN wanted : wanted[i] \in ToSet(agent) =>
         \E a \in DOMAIN order :
             order[a] = wanted[i] /\ \A b \in 1..a : \E j \in 1..i : order[b] = wanted[j]
  BY <1>1, <1>6, Zenon DEF Ordered
<1>10. DOMAIN order = 1..Len(order) /\ Len(order) \in Nat
  BY <1>7
<1>11. ToSet(order) = {k \in ToSet(agent) : only => k \in ToSet(prefer)}
  <2>1. ASSUME NEW a \in DOMAIN order
        PROVE  order[a] \in ToSet(agent) /\ (only => order[a] \in ToSet(prefer))
    BY <1>3, <1>8, Zenon DEF ToSet
  <2>2. ASSUME NEW k \in ToSet(agent), only => k \in ToSet(prefer)
        PROVE  \E a \in DOMAIN order : order[a] = k
    <3>1. CASE only
      <4>1. PICK i \in DOMAIN prefer : prefer[i] = k
        BY <2>2, <3>1, Zenon DEF ToSet
      <4> QED  BY <1>2, <1>9, <2>2, <4>1, Zenon
    <3>2. CASE ~ only
      <4>1. PICK i \in DOMAIN agent : agent[i] = k
        BY <2>2, Zenon DEF ToSet
      <4> QED  BY <1>4, <1>9, <2>2, <3>2, <4>1, Zenon
    <3> QED  BY <3>1, <3>2
  <2>3. \A k : k \in ToSet(order) <=> \E a \in DOMAIN order : order[a] = k
    BY Zenon DEF ToSet
  <2> QED  BY <2>1, <2>2, <2>3, Zenon
<1>12. ASSUME NEW a \in DOMAIN order, NEW b \in DOMAIN order, Sooner(order[a], order[b], wanted)
       PROVE  a < b
  <2>1. PICK i \in DOMAIN wanted : wanted[i] = order[a] /\ \A j \in 1..i : wanted[j] # order[b]
    BY <1>12, Zenon
  <2>2. PICK c \in DOMAIN order :
            order[c] = wanted[i] /\ \A d \in 1..c : \E j \in 1..i : order[d] = wanted[j]
    BY <1>8, <1>9, <2>1, Zenon
  <2>3. c = a
    BY <1>7, <2>1, <2>2, Zenon DEF IsInjective
  <2>4. b \notin 1..a
    BY <2>1, <2>2, <2>3, Zenon
  <2> QED  BY <1>10, <2>4
<1>13. ASSUME NEW a \in DOMAIN order, NEW b \in DOMAIN order, Sooner(order[a], order[b], prefer)
       PROVE  a < b
  <2>1. PICK i \in DOMAIN prefer : prefer[i] = order[a] /\ \A j \in 1..i : prefer[j] # order[b]
    BY <1>13, Zenon
  <2>2. \A j \in 1..i : j \in DOMAIN prefer
    BY <1>1
  <2>3. i \in DOMAIN wanted /\ wanted[i] = order[a] /\ \A j \in 1..i : wanted[j] # order[b]
    BY <1>2, <2>1, <2>2, Zenon
  <2> QED  BY <1>12, <2>3, Zenon
<1>14. ASSUME NEW a \in DOMAIN order, NEW b \in DOMAIN order,
              {order[a], order[b]} \cap ToSet(prefer) = {}, Sooner(order[a], order[b], agent)
       PROVE  a < b
  <2>1. PICK i \in DOMAIN agent : agent[i] = order[a] /\ \A j \in 1..i : agent[j] # order[b]
    BY <1>14, Zenon
  <2>2. \A j \in DOMAIN prefer : prefer[j] # order[a] /\ prefer[j] # order[b]
    BY <1>14, Zenon DEF ToSet
  <2>3. ~ only
    BY <1>2, <1>3, <1>8, <2>2, Zenon
  <2>4. i \in Nat /\ Len(prefer) + i \in DOMAIN wanted /\ wanted[Len(prefer) + i] = order[a]
    BY <1>4, <2>1, <2>3, Zenon
  <2>5. ASSUME NEW j \in 1..(Len(prefer) + i)
        PROVE  wanted[j] # order[b]
    <3>1. CASE j \in DOMAIN prefer
      BY <1>2, <2>2, <3>1, Zenon
    <3>2. CASE j \notin DOMAIN prefer
      <4>1. j \in DOMAIN wanted
        BY <1>1, <2>4
      <4>2. wanted[j] = agent[j - Len(prefer)] /\ j - Len(prefer) \in DOMAIN agent
        BY <1>5, <2>3, <3>2, <4>1, Zenon
      <4>3. j - Len(prefer) \in 1..i
        BY <1>1, <2>4, <3>2
      <4> QED  BY <2>1, <4>2, <4>3, Zenon
    <3> QED  BY <3>1, <3>2
  <2> QED  BY <1>12, <2>4, <2>5, Zenon
<1> QED  BY <1>7, <1>11, <1>13, <1>14 DEF order

LEMMA UpToSize == ASSUME NEW m \in Nat PROVE Cardinality(1..m) = m
<1>1. 1 \in Int /\ m \in Int
  OBVIOUS
<1>2. Cardinality(1..m) = IF 1 > m THEN 0 ELSE m - 1 + 1
  BY <1>1, FS_Interval, Zenon
<1> QED  BY <1>2

\* What the invariant of the search needs of it.
LEMMA OrderFacts ==
    ASSUME NEW agent \in Seq(Keys), IsInjective(agent), NEW prefer \in Seq(Keys), NEW only
    PROVE  LET order == OrderKeys(agent, prefer, only)
           IN  /\ order \in Orders /\ order \in Seq(Keys)
               /\ only => ToSet(order) \subseteq ToSet(prefer)
<1> DEFINE order == OrderKeys(agent, prefer, only)
<1>1. order \in Seq(Keys) /\ IsInjective(order)
      /\ ToSet(order) = {k \in ToSet(agent) : only => k \in ToSet(prefer)}
  BY OrderKeysCorrect
<1> HIDE DEF order
<1>2. DOMAIN order = 1..Len(order) /\ Len(order) \in Nat
  BY <1>1
<1>3. order \in Orders
  <2>1. order \in [1..Len(order) -> Keys]
    BY <1>1, <1>2
  <2>2. order \in Injection(1..Len(order), Keys)
    BY <2>1, <1>1 DEF Injection
  <2>3. Cardinality(1..Len(order)) <= Cardinality(Keys)
    BY <2>2, FS_Injection, KeysAssumption
  <2>4. Cardinality(1..Len(order)) = Len(order)
    BY <1>2, UpToSize
  <2>5. Cardinality(Keys) \in Nat
    BY FS_CardinalityType, KeysAssumption
  <2>6. Len(order) \in 0..Cardinality(Keys)
    BY <2>3, <2>4, <2>5, <1>2
  <2> QED  BY <2>1, <2>6, <1>1 DEF Orders, Lists
<1> QED  BY <1>1, <1>3 DEF order

\* A key of the agent that is preferred to another comes before it.
LEMMA OrderSooner ==
    ASSUME NEW agent \in Seq(Keys), IsInjective(agent), NEW prefer \in Seq(Keys), NEW only,
           NEW i \in DOMAIN prefer, NEW b \in DOMAIN OrderKeys(agent, prefer, only),
           prefer[i] \in ToSet(agent), \A j \in 1..i : prefer[j] # OrderKeys(agent, prefer, only)[b]
    PROVE  \E a \in 1..(b - 1) : OrderKeys(agent, prefer, only)[a] = prefer[i]
<1> DEFINE order == OrderKeys(agent, prefer, only)
<1>1. order \in Seq(Keys) /\ ToSet(order) = {k \in ToSet(agent) : only => k \in ToSet(prefer)}
  BY OrderKeysCorrect
<1>2. \A x, y \in DOMAIN order :
         (\E n \in DOMAIN prefer : prefer[n] = order[x] /\ \A j \in 1..n : prefer[j] # order[y]) => x < y
  BY OrderKeysCorrect
<1> HIDE DEF order
<1>3. b \in DOMAIN order /\ \A j \in 1..i : prefer[j] # order[b]
  BY DEF order
<1>4. DOMAIN order = 1..Len(order) /\ Len(order) \in Nat
  BY <1>1
<1>5. prefer[i] \in ToSet(order)
  BY <1>1 DEF ToSet
<1>6. PICK a \in DOMAIN order : order[a] = prefer[i]
  BY <1>5 DEF ToSet
<1>7. a < b
  BY <1>2, <1>3, <1>6
<1>8. \E x \in 1..(b - 1) : order[x] = prefer[i]
  BY <1>3, <1>4, <1>6, <1>7
<1> QED  BY <1>8 DEF order

\* The keys that were tried are the first of the order, up to the candidate.
OrderInv ==
    /\ search.agent \in Seq(Keys) /\ IsInjective(search.agent) /\ search.prefer \in Seq(Keys)
    /\ search.order \in {<<>>, OrderKeys(search.agent, search.prefer, search.only)}
    /\ search.next \in DOMAIN search.order \cup {1}
    /\ search.at = "listing" \/ search.pin # NoKey => search.order = <<>>
    /\ search.at = "probing" => search.next <= Len(search.order)
    /\ \E n \in 0..Len(search.order) :
          /\ Probed = {search.order[i] : i \in 1..n}
          /\ search.at = "probing" => n = search.next - 1

LEMMA OrderStart ==
    ASSUME search.agent \in Seq(Keys), IsInjective(search.agent), search.prefer \in Seq(Keys), search.at \in {"listing", "over"},
           search.order = <<>>, search.next = 1, search.answer = [k \in Keys |-> "untried"]
    PROVE  OrderInv
<1>1. Probed = {}
  BY DEF Probed
<1>2. Probed = {search.order[i] : i \in 1..0} /\ 0 \in 0..Len(search.order)
  BY <1>1
<1> QED  BY <1>2 DEF OrderInv

LEMMA OrderInit == Init => OrderInv
<1> SUFFICES ASSUME SearchInit
             PROVE  OrderInv
  BY DEF Init
<1>1. PICK agent, pin, prefer, only :
          /\ agent \in Orders /\ (prefer \in Lists(MaxPrefer) \/ prefer = <<>>)
          /\ search = Search(agent, pin, prefer, only)
  BY DEF SearchInit
<1>2. agent \in Seq(Keys) /\ IsInjective(agent)
  BY <1>1, KeysAssumption, FS_CardinalityType DEF Orders, Lists
<1>3. prefer \in Seq(Keys)
  <2>1. CASE prefer = <<>>
    BY <2>1
  <2>2. CASE prefer \in Lists(MaxPrefer)
    <3>1. PICK n \in 0..MaxPrefer : prefer \in [1..n -> Keys]
      BY <2>2 DEF Lists
    <3>2. n \in Nat
      BY PreferAssumption
    <3> QED  BY <3>1, <3>2
  <2> QED  BY <1>1, <2>1, <2>2
<1>4. /\ search.agent = agent /\ search.prefer = prefer /\ search.at = "listing"
      /\ search.order = <<>> /\ search.next = 1 /\ search.answer = [k \in Keys |-> "untried"]
  BY <1>1 DEF Search
<1> QED  BY <1>2, <1>3, <1>4, OrderStart

\* The search goes on without trying a key.
LEMMA OrderUntried ==
    ASSUME OrderInv, UNCHANGED <<search.agent, search.prefer, search.only, search.pin, search.order,
                                 search.next, search.answer>>,
           search'.at = search.at \/ search'.at \in {"found", "failed"}
    PROVE  OrderInv'
<1>1. Probed' = Probed
  BY DEF Probed
<1>2. PICK n \in 0..Len(search.order) :
          Probed = {search.order[i] : i \in 1..n} /\ (search.at = "probing" => n = search.next - 1)
  BY DEF OrderInv
<1>3. Probed' = {search'.order[i] : i \in 1..n}
  BY <1>1, <1>2
<1>4. n \in 0..Len(search'.order) /\ (search'.at = "probing" => n = search'.next - 1)
  BY <1>2
<1>5. /\ search'.agent \in Seq(Keys) /\ IsInjective(search'.agent) /\ search'.prefer \in Seq(Keys)
      /\ search'.order \in {<<>>, OrderKeys(search'.agent, search'.prefer, search'.only)}
  BY DEF OrderInv
<1>6. search'.next \in DOMAIN search'.order \cup {1}
  BY DEF OrderInv
<1>7. /\ search'.at = "listing" \/ search'.pin # NoKey => search'.order = <<>>
      /\ search'.at = "probing" => search'.next <= Len(search'.order)
  BY DEF OrderInv
<1> QED  BY <1>3, <1>4, <1>5, <1>6, <1>7 DEF OrderInv

\* The candidate is tried.
LEMMA OrderTried ==
    ASSUME OrderInv, IsSearch(search), Probing, Candidate \in Keys,
           NEW a, a # "untried", search'.answer = [search.answer EXCEPT ![Candidate] = a],
           UNCHANGED <<search.agent, search.prefer, search.only, search.pin, search.order>>,
           \/ search'.at \in {"found", "failed"} /\ search'.next = search.next
           \/ search'.at = "probing" /\ search.next # Len(search.order) /\ search'.next = search.next + 1
    PROVE  OrderInv'
<1>1. PICK m \in Nat : m = Len(search.order) /\ DOMAIN search.order = 1..m
  <2>1. search.order \in Seq(Keys)
    <3>1. OrderKeys(search.agent, search.prefer, search.only) \in Seq(Keys)
      BY OrderFacts DEF OrderInv
    <3>2. <<>> \in Seq(Keys)
      OBVIOUS
    <3>3. search.order \in {<<>>, OrderKeys(search.agent, search.prefer, search.only)}
      BY DEF OrderInv
    <3> QED  BY <3>1, <3>2, <3>3
  <2> QED  BY <2>1
<1>2. PICK n \in Nat : n = search.next /\ 1 <= n /\ n <= m
  BY <1>1 DEF OrderInv, Probing
<1>3. Probed = {search.order[i] : i \in 1..(n - 1)}
  BY <1>1, <1>2 DEF OrderInv, Probing
<1>4. Probed' = Probed \cup {search.order[n]}
  BY <1>2 DEF Probed, Candidate, IsSearch
<1>5. Probed' = {search'.order[i] : i \in 1..n}
  <2>1. 1..n = 1..(n - 1) \cup {n}
    BY <1>2
  <2> QED  BY <1>3, <1>4, <2>1
<1>6. search.at = "probing" /\ search'.order = search.order
  BY DEF Probing
<1>7. /\ search'.agent \in Seq(Keys) /\ IsInjective(search'.agent) /\ search'.prefer \in Seq(Keys)
      /\ search'.order \in {<<>>, OrderKeys(search'.agent, search'.prefer, search'.only)}
  BY DEF OrderInv
<1>8. search'.at = "listing" \/ search'.pin # NoKey => search'.order = <<>>
  BY DEF OrderInv
<1>9. search'.at = "probing" => n + 1 <= m /\ search'.next = n + 1
  BY <1>1, <1>2
<1>10. search'.next \in DOMAIN search'.order \cup {1}
  BY <1>1, <1>2, <1>6
<1>11. search'.at = "probing" => search'.next <= Len(search'.order)
  BY <1>1, <1>6, <1>9
<1>12. n \in 0..Len(search'.order) /\ (search'.at = "probing" => n = search'.next - 1)
  BY <1>1, <1>2, <1>6, <1>9
<1> QED  BY <1>5, <1>7, <1>8, <1>10, <1>11, <1>12 DEF OrderInv

LEMMA OrderNext == SearchInv /\ OrderInv /\ [Next]_vars => OrderInv'
<1> SUFFICES ASSUME SearchInv, OrderInv, [Next]_vars
             PROVE  OrderInv'
  OBVIOUS
<1>1. ASSUME UNCHANGED searchVars
      PROVE  OrderInv'
  BY <1>1, OrderUntried DEF searchVars
<1>2. ASSUME Serve
      PROVE  OrderInv'
  <2>1. /\ search'.agent = <<>> /\ search'.prefer = <<>> /\ search'.at = "over"
        /\ search'.order = <<>> /\ search'.next = 1 /\ search'.answer = [k \in Keys |-> "untried"]
    BY <1>2 DEF Serve, Search
  <2>2. Probed' = {} /\ <<>> \in Seq(Keys) /\ IsInjective(<<>>)
    BY <2>1 DEF Probed, IsInjective
  <2>3. Probed' = {search'.order[i] : i \in 1..0} /\ 0 \in 0..Len(search'.order)
    BY <2>1, <2>2
  <2> QED  BY <2>1, <2>2, <2>3 DEF OrderInv
<1>3. ASSUME ListFails \/ SignerGone
      PROVE  OrderInv'
  BY <1>3, OrderUntried DEF ListFails, SignerGone, Stop, SearchInv, IsSearch
<1>4. ASSUME TakePinned
      PROVE  OrderInv'
  BY <1>4, OrderUntried DEF TakePinned, Found, Stop, SearchInv, IsSearch
<1>5. ASSUME ListCandidates
      PROVE  OrderInv'
  <2> DEFINE order == OrderKeys(search.agent, search.prefer, search.only)
  <2>1. \/ search' = [search EXCEPT !.at = "failed"]
        \/ order # <<>> /\ search' = [search EXCEPT !.at = "probing", !.order = order]
    BY <1>5 DEF ListCandidates, Stop
  <2>2. CASE search' = [search EXCEPT !.at = "failed"]
    BY <2>2, OrderUntried DEF SearchInv, IsSearch
  <2>3. CASE order # <<>> /\ search' = [search EXCEPT !.at = "probing", !.order = order]
    <3>1. order \in Seq(Keys)
      BY OrderFacts DEF OrderInv
    <3>2. 1 \in DOMAIN order /\ 1 <= Len(order) /\ Len(order) \in Nat
      <4> HIDE DEF order
      <4> QED  BY <3>1, <2>3
    <3>3. search.order = <<>> /\ search.pin = NoKey
      BY <1>5 DEF ListCandidates, OrderInv
    <3>4. search.next = 1 /\ Probed = {}
      BY <3>3 DEF OrderInv
    <3> HIDE DEF order
    <3>5. /\ search'.order = order /\ search'.next = 1 /\ search'.at = "probing" /\ search'.pin = NoKey
          /\ UNCHANGED <<search.agent, search.prefer, search.only, search.answer>>
      BY <2>3, <3>3, <3>4 DEF SearchInv, IsSearch
    <3>6. Probed' = {search'.order[i] : i \in 1..0} /\ 0 \in 0..Len(order)
      BY <3>2, <3>4, <3>5 DEF Probed
    <3>7. search'.order = OrderKeys(search'.agent, search'.prefer, search'.only)
      BY <3>5 DEF order
    <3> QED  BY <3>2, <3>5, <3>6, <3>7 DEF OrderInv
  <2> QED  BY <2>1, <2>2, <2>3
<1>6. ASSUME CandidateInAgent
      PROVE  Candidate \in Keys
  BY <1>6 DEF CandidateInAgent, SearchInv, IsSearch
<1>7. ASSUME Probing, CandidateInAgent, NEW a \in {"unsigned", "refused"}, Skip(a)
      PROVE  OrderInv'
  <2> DEFINE s == [search EXCEPT !.answer[Candidate] = a]
  <2>1. \/ search.next = Len(search.order) /\ search' = [s EXCEPT !.at = "failed"]
        \/ search.next # Len(search.order) /\ search' = [s EXCEPT !.next = @ + 1]
    BY <1>7 DEF Skip, Stop
  <2>2. search'.answer = [search.answer EXCEPT ![Candidate] = a]
    BY <2>1 DEF SearchInv, IsSearch
  <2>3. UNCHANGED <<search.agent, search.prefer, search.only, search.pin, search.order>>
    BY <2>1 DEF SearchInv, IsSearch
  <2>4. \/ search'.at \in {"found", "failed"} /\ search'.next = search.next
        \/ search'.at = "probing" /\ search.next # Len(search.order) /\ search'.next = search.next + 1
    BY <1>7, <2>1 DEF SearchInv, IsSearch, Probing
  <2> QED  BY <1>6, <1>7, <2>2, <2>3, <2>4, OrderTried DEF SearchInv
<1>8. ASSUME Probing, CandidateInAgent, NEW where \in {"found", "failed"}, NEW a \in {"accepted", "unreached"},
             search' = [search EXCEPT !.at = where, !.answer[Candidate] = a]
      PROVE  OrderInv'
  <2>1. search'.answer = [search.answer EXCEPT ![Candidate] = a] /\ search'.at = where
        /\ UNCHANGED <<search.agent, search.prefer, search.only, search.pin, search.order, search.next>>
    BY <1>8 DEF SearchInv, IsSearch
  <2> QED  BY <1>6, <1>8, <2>1, OrderTried DEF SearchInv
<1>9. ASSUME Accepted
      PROVE  OrderInv'
  BY <1>8, <1>9 DEF Accepted
<1>10. ASSUME ProbeFails
       PROVE  OrderInv'
  <2>1. search' = [search EXCEPT !.at = "failed", !.answer[Candidate] = "unreached"]
    BY <1>10 DEF ProbeFails, Unreached, Stop, SearchInv, IsSearch
  <2> QED  BY <1>8, <1>10, <2>1 DEF ProbeFails
<1>11. ASSUME NEW k \in Keys, DropKey(k)
       PROVE  OrderInv'
  BY <1>11, OrderUntried DEF DropKey, SearchInv, IsSearch
<1>12. ASSUME Tick \/ (\E c \in Calls : CallStep(c)) \/ UNCHANGED vars
       PROVE  UNCHANGED searchVars
  BY <1>12 DEF Tick, CallStep, Token, Request, Begin, ReuseToken, StartMint, Dial, Mint, MintFails, Send,
               SendFails, Receive, Finish, ReadFails, Return, Expire, vars
<1>13. ASSUME SearchNext
       PROVE  OrderInv'
  BY <1>13, <1>3, <1>4, <1>5, <1>7, <1>9, <1>10, <1>11 DEF SearchNext, SignRefused, Refused
<1> QED  BY <1>1, <1>2, <1>12, <1>13 DEF Next, Starting

\* From the order of the tries to the order of the preferences.
LEMMA OrderedIsPreferred == SearchInv /\ OrderInv => PreferredFirst
<1> SUFFICES ASSUME SearchInv, OrderInv
             PROVE  PreferredFirst
  OBVIOUS
<1> DEFINE order == OrderKeys(search.agent, search.prefer, search.only)
<1>1. PICK n \in 0..Len(search.order) : Probed = {search.order[i] : i \in 1..n}
  BY DEF OrderInv
<1>2. CASE search.order = <<>>
  BY <1>1, <1>2 DEF PreferredFirst
<1>3. CASE search.order = order
  <2>0. search.agent \in Seq(Keys) /\ IsInjective(search.agent) /\ search.prefer \in Seq(Keys)
    BY DEF OrderInv
  <2>1. order \in Seq(Keys)
    BY <2>0, OrderFacts
  <2>2. search.only => ToSet(order) \subseteq ToSet(search.prefer)
    BY <2>0, OrderFacts
  <2>3. \A i \in DOMAIN search.prefer, b \in DOMAIN order :
           search.prefer[i] \in ToSet(search.agent) /\ (\A j \in 1..i : search.prefer[j] # order[b]) =>
               \E a \in 1..(b - 1) : order[a] = search.prefer[i]
    BY <2>0, OrderSooner
  <2> HIDE DEF order
  <2>4. n \in Nat /\ 1..n \subseteq DOMAIN order /\ Probed = {order[i] : i \in 1..n}
    BY <1>1, <1>3, <2>1
  <2>5. search.pin # NoKey => Probed = {}
    BY <1>1 DEF OrderInv
  <2>6. search.only => Probed \subseteq ToSet(search.prefer)
    BY <2>2, <2>4 DEF ToSet
  <2>7. ASSUME NEW k \in Probed, NEW p \in ToSet(search.prefer) \cap ToSet(search.agent),
               NEW i \in DOMAIN search.prefer, search.prefer[i] = p,
               \A j \in DOMAIN search.prefer : search.prefer[j] = k => i < j
        PROVE  p \in Probed
    <3>1. PICK b \in 1..n : order[b] = k
      BY <2>4
    <3>2. DOMAIN search.prefer = 1..Len(search.prefer) /\ Len(search.prefer) \in Nat
      BY DEF OrderInv
    <3>3. \A j \in 1..i : search.prefer[j] # order[b]
      BY <2>7, <3>1, <3>2
    <3>4. PICK a \in 1..(b - 1) : order[a] = p
      BY <2>3, <2>4, <2>7, <3>1, <3>3
    <3>5. a \in 1..n
      BY <2>4, <3>1, <3>4
    <3> QED  BY <2>4, <3>4, <3>5
  <2> QED  BY <2>5, <2>6, <2>7 DEF PreferredFirst
<1> QED  BY <1>2, <1>3 DEF OrderInv

\* The variables of the search have their types.
KeyTypes ==
    /\ search.at \in {"listing", "probing", "found", "failed", "over"}
    /\ key \in Keys \cup {NoKey}

LEMMA KeyTypesInit == Init => KeyTypes
  BY DEF Init, SearchInit, Search, KeyTypes

LEMMA KeyTypesNext == SearchInv /\ KeyTypes /\ [Next]_vars => KeyTypes'
<1> SUFFICES ASSUME SearchInv, KeyTypes, [Next]_vars
             PROVE  KeyTypes'
  OBVIOUS
<1> USE DEF KeyTypes
<1>1. ASSUME UNCHANGED searchVars
      PROVE  KeyTypes'
  BY <1>1 DEF searchVars
<1>2. ASSUME Serve
      PROVE  KeyTypes'
  BY <1>2 DEF Serve, Search
<1>3. ASSUME ListFails \/ SignerGone \/ ListCandidates \/ ProbeFails
      PROVE  KeyTypes'
  <2>1. key' = key
    BY <1>3 DEF ListFails, SignerGone, ListCandidates, ProbeFails, Unreached, Stop
  <2>2. search'.at \in {"failed", "probing"}
    BY <1>3 DEF ListFails, SignerGone, ListCandidates, ProbeFails, Unreached, Stop, SearchInv, IsSearch
  <2> QED  BY <2>1, <2>2
<1>4. ASSUME TakePinned
      PROVE  KeyTypes'
  <2>1. ToSet(search.agent) \subseteq Keys
    BY DEF SearchInv, IsSearch
  <2> QED  BY <1>4, <2>1 DEF TakePinned, Found, Stop, SearchInv, IsSearch
<1>5. ASSUME NEW a \in {"unsigned", "refused"}, Probing, Skip(a)
      PROVE  KeyTypes'
  BY <1>5 DEF Skip, Stop, Probing, SearchInv, IsSearch
<1>6. ASSUME Accepted
      PROVE  KeyTypes'
  BY <1>6 DEF Accepted, CandidateInAgent, SearchInv, IsSearch
<1>7. ASSUME NEW k \in Keys, DropKey(k)
      PROVE  KeyTypes'
  BY <1>7 DEF DropKey, SearchInv, IsSearch
<1>8. ASSUME Tick \/ (\E c \in Calls : CallStep(c)) \/ UNCHANGED vars
      PROVE  UNCHANGED searchVars
  BY <1>8 DEF Tick, CallStep, Token, Request, Begin, ReuseToken, StartMint, Dial, Mint, MintFails, Send,
              SendFails, Receive, Finish, ReadFails, Return, Expire, vars
<1>9. ASSUME SearchNext
      PROVE  KeyTypes'
  BY <1>9, <1>3, <1>4, <1>5, <1>6, <1>7 DEF SearchNext, SignRefused, Refused
<1> QED  BY <1>1, <1>2, <1>8, <1>9 DEF Next, Starting

LEMMA SearchHasType == SearchInv /\ OrderInv /\ KeyTypes => SearchTypeOK
<1> SUFFICES ASSUME SearchInv, OrderInv, KeyTypes
             PROVE  SearchTypeOK
  OBVIOUS
<1>1. <<>> \in Orders
  <2>1. <<>> \in [1..0 -> Keys] /\ IsInjective(<<>>)
    BY DEF IsInjective
  <2>2. 0 \in 0..Cardinality(Keys)
    BY KeysAssumption, FS_CardinalityType
  <2> QED  BY <2>1, <2>2 DEF Orders, Lists
<1>2. search.order \in Orders
  <2>1. search.agent \in Seq(Keys) /\ IsInjective(search.agent) /\ search.prefer \in Seq(Keys)
        /\ search.order \in {<<>>, OrderKeys(search.agent, search.prefer, search.only)}
    BY DEF OrderInv
  <2>2. OrderKeys(search.agent, search.prefer, search.only) \in Orders
    BY <2>1, OrderFacts
  <2> QED  BY <1>1, <2>1, <2>2
<1> QED  BY <1>2 DEF SearchTypeOK, OrderInv, KeyTypes, SearchInv, IsSearch

----------------------------------------------------------------------------
(***************************************************************************)
(* The theorems.                                                           *)
(***************************************************************************)

\* The variables of the calls and the minter have their types, whatever calls
\* run at once (Client.Exec, Client.Lobby, AgentMinter.Token).
THEOREM MinterTypes == Spec => []CallTypes
<1> QED  BY TypesInit, TypesNext, PTL DEF Spec

\* However many calls wait, one at a time asks the agent, and only when the
\* cached token is due (AgentMinter.Token).
THEOREM MintSafety == Spec => []MintsWhenDue
<1>1. MinterInv => MintsWhenDue
  BY DEF MinterInv, MintsWhenDue
<1> QED  BY <1>1, TypesInit, TypesNext, MinterInit, MinterNext, PTL DEF Spec

\* A token a call got is good for a fifth of a lifetime, less the part of a second
\* that its expiry was cut by, whatever the lifetime and however slow its mint
\* (AgentMinter.Token, post).
THEOREM TokenSafety == Spec => []TokenLasts
<1>1. CallTypes /\ TokenInv => TokenLasts
  <2> SUFFICES ASSUME CallTypes, TokenInv, NEW c \in Calls, at[c] = "sending",
                      held[c] + (Second - 1) <= Margin
               PROVE  left[c] > 0
    BY DEF TokenLasts
  <2>1. left[c] \in Nat /\ held[c] \in Nat /\ Second \in Nat \ {0}
    BY SecondAssumption, TtlAssumption DEF CallTypes
  <2>2. held[c] <= Margin
    BY <2>1, MarginType
  <2>3. left[c] + held[c] + Second > Margin + 1
    BY <2>2 DEF TokenInv
  <2> QED  BY <2>1, <2>3, MarginType
<1> QED  BY <1>1, TypesInit, TypesNext, MinterInit, MinterNext, TokenInit, TokenNext, PTL DEF Spec

\* What Exec returns of an output of any length, in blocks of any size, under
\* any limit (Exec, headTail).
THEOREM OutputSafety == Spec => []OutputExact
<1>1. CallTypes /\ OutputInv => OutputExact
  <2> SUFFICES ASSUME CallTypes, OutputInv, NEW c \in Execs
               PROVE  /\ at[c] = "done" => Buffer!KeepsEnds(out[c], [i \in 1..printed[c] |-> i])
                      /\ MaxOutput > 1 => Len(out[c].head) + Len(out[c].tail) <= MaxOutput
    BY DEF OutputExact
  <2>1. PICK n \in Nat : Arrived(c, n)
    BY DEF OutputInv, Calls
  <2>2. Buffer!KeepsEnds(out[c], Run(0, n)) /\ Len(out[c].head) + Len(out[c].tail) <= 2 * out[c].half
    BY <2>1, HoldsEnds DEF Arrived
  <2>3. Run(0, n) = [i \in 1..n |-> i]
    BY DEF Run
  <2>4. Len(out[c].head) \in Nat /\ Len(out[c].tail) \in Nat /\ out[c].half \in Nat
    BY <2>1, HoldsLengths DEF Arrived
  <2>5. at[c] = "done" => n = printed[c]
    BY <2>1 DEF Arrived
  <2>6. MaxOutput > 1 => Len(out[c].head) + Len(out[c].tail) <= MaxOutput
    <3>1. MaxOutput > 1 => 2 * out[c].half <= MaxOutput
      BY <2>1 DEF Arrived
    <3>2. PICK x \in Nat, y \in Nat, half \in Nat :
              x = Len(out[c].head) /\ y = Len(out[c].tail) /\ half = out[c].half
      BY <2>4, Zenon
    <3>3. x + y <= 2 * half /\ (MaxOutput > 1 => 2 * half <= MaxOutput)
      BY <3>1, <3>2, <2>2, Zenon
    <3>4. MaxOutput > 1 => x + y <= MaxOutput
      BY <3>3, OutputAssumption
    <3> QED  BY <3>2, <3>4, Zenon
  <2>7. at[c] = "done" => Buffer!KeepsEnds(out[c], [i \in 1..printed[c] |-> i])
    BY <2>2, <2>3, <2>5, Zenon
  <2> QED  BY <2>6, <2>7, Zenon
<1> QED  BY <1>1, TypesInit, TypesNext, OutputInit, OutputNext, PTL DEF Spec

\* The key that was found is the first that exe.dev accepted, whatever an agent
\* holds and however it and the network fail (FindAgentKey).
THEOREM SearchSafety == Spec => []FirstAccepted
<1>1. SearchInv => FirstAccepted
  BY DEF SearchInv
<1> QED  BY <1>1, SearchInitInv, SearchNextInv, PTL DEF Spec

\* Keys are tried in the order of preference, whatever the agent holds and the
\* preferences are, and however the agent changes meanwhile (orderKeys,
\* FindAgentKey).
THEOREM SearchOrder == Spec => []PreferredFirst
<1> QED  BY OrderedIsPreferred, SearchInitInv, SearchNextInv, OrderInit, OrderNext, PTL DEF Spec

\* All variables have their types; above all the mutex is held exactly while
\* one call mints, so that no failure leaves it locked (AgentMinter.Token).
THEOREM TypeCorrect == Spec => []TypeOK
<1>1. CallTypes /\ MinterInv /\ Bounds /\ OutputInv /\ SearchTypeOK => TypeOK
  <2> SUFFICES ASSUME CallTypes, MinterInv, Bounds, OutputInv, SearchTypeOK
               PROVE  TypeOK
    OBVIOUS
  <2>1. locked = (Minting # {})
    BY DEF CallTypes, MinterInv, Bounds
  <2>2. cached \in 0..Ttl /\ exp \in 0..Ttl
    BY TtlAssumption DEF CallTypes, Bounds
  <2>3. ASSUME NEW c \in Calls
        PROVE  out[c].total <= printed[c] /\ printed[c] <= MaxPrint
    <3>1. PICK n \in Nat : Arrived(c, n)
      BY DEF OutputInv
    <3>2. out[c].total = n /\ n <= printed[c]
      BY <3>1 DEF Arrived, Holds
    <3> QED  BY <3>2 DEF Bounds
  <2> QED  BY <2>1, <2>2, <2>3 DEF TypeOK, CallTypes, Places, Bounds
<1> QED  BY <1>1, TypesInit, TypesNext, MinterInit, MinterNext, BoundsInit, BoundsNext, OutputInit, OutputNext,
            SearchInitInv, SearchNextInv, OrderInit, OrderNext, KeyTypesInit, KeyTypesNext, SearchHasType,
            PTL DEF Spec

============================================================================
