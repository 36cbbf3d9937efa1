----------------------------- MODULE ApiClient -----------------------------
(***************************************************************************)
(* The client of the exe.dev API under `exe-mcp stdio`: the start, which   *)
(* looks for a key (KeySearch), and then calls of Exec and Lobby that run  *)
(* at once and share one AgentMinter (internal/exe/client.go, token.go).   *)
(*                                                                         *)
(* A call gets a token from the minter, under its mutex; posts its         *)
(* command; and reads the answer.  The bytes of a command's output are     *)
(* known by their position in it.  Deadlines belong to the calls, and the  *)
(* mutex and the agent know nothing of them.                               *)
(***************************************************************************)
EXTENDS KeySearch, Integers

CONSTANTS
    Execs,       \* calls of Exec
    Lobbies,     \* calls of Lobby
    Ttl,         \* the lifetime that AgentMinter gives a token, in ticks
    Second,      \* a second, in ticks of the clock
    MaxOutput,   \* how much of an output Exec keeps
    MaxPrint     \* the longest output of a command

Calls == Execs \cup Lobbies

ASSUME CallsAssumption == Execs \cap Lobbies = {}
ASSUME TtlAssumption == Ttl \in Nat \ {0}
ASSUME SecondAssumption == Second \in 1..Ttl
ASSUME OutputAssumption == MaxOutput \in Nat /\ MaxPrint \in Nat

VARIABLES
    locked,      \* AgentMinter.mu
    cached,      \* AgentMinter.cached: how far off the expiry in the token is
    exp,         \* AgentMinter.exp: how far off it is
    at,          \* where each call is
    late,        \* the calls whose deadline has passed
    left,        \* how far off the expiry in each call's token is, until it is
                 \* sent
    due,         \* exp of Token, for a call that mints: how far off it is
    printed,     \* how much the command of an Exec prints
    out,         \* what Exec keeps of it
    held         \* history: for how long each call has had its token, from its
                 \* turn at the minter on

minter == <<locked, cached, exp>>
answers == <<printed, out>>
tokens == <<left, due>>
callVars == <<minter, at, late, tokens, answers, held>>
vars == <<searchVars, callVars>>

Buffer == INSTANCE HeadTail

----------------------------------------------------------------------------
(***************************************************************************)
(* The start of the process.                                               *)
(***************************************************************************)
Starting == UNCHANGED callVars /\ SearchNext

\* tokenSource returns, and with it everything but the key is gone.
Serve ==
    /\ search.at = "found"
    /\ search' = [Search(<<>>, NoKey, <<>>, FALSE) EXCEPT !.at = "over"]
    /\ UNCHANGED <<key, callVars>>

Serving == search.at = "over"

----------------------------------------------------------------------------
(***************************************************************************)
(* AgentMinter.Token.                                                      *)
(***************************************************************************)
Goto(c, where) == at' = [at EXCEPT ![c] = where]

\* A token is used until a fifth of its lifetime is left.
Margin == Ttl \div 5
Fresh == exp > Margin

\* How long history remembers that a token was held.
Long == Margin + 1

\* The call has no use for its token any more.
Forget(c) ==
    /\ left' = [left EXCEPT ![c] = 0]
    /\ held' = [held EXCEPT ![c] = Long]

\* A call posts its command; a quote in it, or its size, may forbid that.
Begin(c) ==
    /\ Serving
    /\ at[c] = "idle"
    /\ \E where \in {"locking", "failed"} : Goto(c, where)
    /\ UNCHANGED <<searchVars, minter, late, tokens, answers, held>>

\* The mutex is free: the clock is read, and the token is there or must be
\* minted.
ReuseToken(c) ==
    /\ at[c] = "locking"
    /\ ~ locked
    /\ Fresh
    /\ left' = [left EXCEPT ![c] = cached]
    /\ held' = [held EXCEPT ![c] = 0]
    /\ Goto(c, "sending")
    /\ UNCHANGED <<searchVars, minter, late, due, answers>>

\* (A faulty Hold: the mutex is released for the mint.)
HoldNot == FALSE

\* The mutex is held until the mint is over.
Hold == TRUE

\* exp.Unix(): the expiry in the token is a whole second, up to a second before
\* exp.
StartMint(c) ==
    /\ at[c] = "locking"
    /\ ~ locked
    /\ ~ Fresh
    /\ locked' = Hold
    /\ due' = [due EXCEPT ![c] = Ttl]
    /\ \E fraction \in 0..Second - 1 : left' = [left EXCEPT ![c] = Ttl - fraction]
    /\ held' = [held EXCEPT ![c] = 0]
    /\ Goto(c, "dialing")
    /\ UNCHANGED <<searchVars, cached, exp, late, answers>>

\* The connection to the agent; the only part of a mint that has a deadline.
Dial(c) ==
    /\ at[c] = "dialing"
    /\ c \notin late
    /\ Goto(c, "signing")
    /\ UNCHANGED <<searchVars, minter, late, tokens, answers, held>>

\* (A faulty Release: an error returns without unlocking.)
ReleaseNot == TRUE

\* An error leaves the cached token as it is.
Release == FALSE

MintFails(c) ==
    /\ at[c] \in {"dialing", "signing"}
    /\ locked' = Release
    /\ due' = [due EXCEPT ![c] = 0]
    /\ Forget(c)
    /\ Goto(c, "failed")
    /\ UNCHANGED <<searchVars, cached, exp, late, answers>>

\* (A faulty Expiry: it is counted from the end of the mint.)
ExpiryFromEnd(c) == Ttl

\* The expiry was fixed before the mint, and is kept with its fraction.
Expiry(c) == due[c]

\* The agent has signed, perhaps after a person confirmed it.
Mint(c) ==
    /\ at[c] = "signing"
    /\ locked' = FALSE
    /\ cached' = left[c]
    /\ exp' = Expiry(c)
    /\ due' = [due EXCEPT ![c] = 0]
    /\ Goto(c, "sending")
    /\ UNCHANGED <<searchVars, late, left, answers, held>>

----------------------------------------------------------------------------
(***************************************************************************)
(* The request and its answer.                                             *)
(***************************************************************************)
\* exe.dev takes the token if it has not expired, and begins to answer.
Send(c) ==
    /\ at[c] = "sending"
    /\ c \notin late
    /\ left[c] > 0
    /\ Goto(c, "reading")
    /\ \E n \in (IF c \in Execs THEN 0..MaxPrint ELSE {0}) : printed' = [printed EXCEPT ![c] = n]
    /\ Forget(c)
    /\ UNCHANGED <<searchVars, minter, late, due, out>>

\* The request fails, or gets another status than success; an expired token
\* always does.
SendFails(c) ==
    /\ at[c] = "sending"
    /\ Forget(c)
    /\ Goto(c, "failed")
    /\ UNCHANGED <<searchVars, minter, late, due, answers>>

\* A block of the output arrives.
Receive(c) ==
    /\ c \in Execs
    /\ at[c] = "reading"
    /\ \E n \in 1..(printed[c] - out[c].total) :
          out' = [out EXCEPT ![c] = Buffer!Written(@, [i \in 1..n |-> out[c].total + i])]
    /\ UNCHANGED <<searchVars, minter, at, late, tokens, printed, held>>

\* (A faulty Complete: the trailer is not looked at.)
CompleteAny(c) == TRUE

\* Only after all of its output does a command's answer have the trailer with
\* the exit status.
Complete(c) == c \in Execs => out[c].total = printed[c]

\* The answer ends, and for Lobby it is one JSON value of bounded size.
Finish(c) ==
    /\ at[c] = "reading"
    /\ c \notin late
    /\ Complete(c)
    /\ Goto(c, "done")
    /\ UNCHANGED <<searchVars, minter, late, tokens, answers, held>>

\* The answer breaks off, or is not what was expected.
ReadFails(c) ==
    /\ at[c] = "reading"
    /\ Goto(c, "failed")
    /\ UNCHANGED <<searchVars, minter, late, tokens, answers, held>>

----------------------------------------------------------------------------
\* The caller has its result, and makes another call some time.
NewBuffer == Buffer!NewHeadTail(MaxOutput)

Return(c) ==
    /\ at[c] \in {"done", "failed"}
    /\ Goto(c, "idle")
    /\ late' = late \ {c}
    /\ printed' = [printed EXCEPT ![c] = 0]
    /\ out' = [out EXCEPT ![c] = NewBuffer]
    /\ UNCHANGED <<searchVars, minter, tokens, held>>

\* The deadline of a call passes, or its caller cancels it.
Expire(c) ==
    /\ at[c] \notin {"idle", "done", "failed"}
    /\ late' = late \cup {c}
    /\ UNCHANGED <<searchVars, minter, at, tokens, answers, held>>

\* Time passes.  An expired token stays expired.
Less(n) == IF n > 0 THEN n - 1 ELSE 0

Tick ==
    /\ Serving
    /\ cached' = Less(cached)
    /\ exp' = Less(exp)
    /\ left' = [c \in Calls |-> Less(left[c])]
    /\ due' = [c \in Calls |-> Less(due[c])]
    /\ held' = [c \in Calls |-> IF held[c] < Long THEN held[c] + 1 ELSE Long]
    /\ UNCHANGED <<searchVars, locked, at, late, answers>>

----------------------------------------------------------------------------
Init ==
    /\ SearchInit
    /\ locked = FALSE
    /\ cached = 0
    /\ exp = 0
    /\ at = [c \in Calls |-> "idle"]
    /\ late = {}
    /\ left = [c \in Calls |-> 0]
    /\ due = [c \in Calls |-> 0]
    /\ printed = [c \in Calls |-> 0]
    /\ out = [c \in Calls |-> NewBuffer]
    /\ held = [c \in Calls |-> Long]

Token(c) ==
    \/ ReuseToken(c)
    \/ StartMint(c)
    \/ Dial(c)
    \/ Mint(c)
    \/ MintFails(c)

Request(c) ==
    \/ Send(c)
    \/ SendFails(c)
    \/ Receive(c)
    \/ Finish(c)
    \/ ReadFails(c)

CallStep(c) ==
    \/ Begin(c)
    \/ Token(c)
    \/ Request(c)
    \/ Return(c)
    \/ Expire(c)

Next ==
    \/ Starting
    \/ Serve
    \/ \E c \in Calls : CallStep(c)
    \/ Tick

Spec == Init /\ [][Next]_vars

\* The mutex lets no waiter starve (Go's sync.Mutex turns to first come, first
\* served after a millisecond); the agent answers a mint in the end, one way
\* or the other; and a caller's deadline passes in the end.  Nothing is assumed
\* of exe.dev and the network.
Fairness ==
    \A c \in Calls :
        /\ SF_vars(ReuseToken(c) \/ StartMint(c))
        /\ WF_vars(Dial(c) \/ Mint(c) \/ MintFails(c))
        /\ WF_vars(Expire(c))
        /\ WF_vars(c \in late /\ (SendFails(c) \/ ReadFails(c)))

FairSpec == Spec /\ Fairness

----------------------------------------------------------------------------
Minting == {c \in Calls : at[c] \in {"dialing", "signing"}}

\* Variables have their types; the mutex is held exactly while a call mints.
TypeOK ==
    /\ SearchTypeOK
    /\ locked = (Minting # {})
    /\ cached \in 0..Ttl /\ exp \in 0..Ttl
    /\ at \in [Calls -> {"idle", "locking", "dialing", "signing", "sending", "reading",
                         "done", "failed"}]
    /\ late \subseteq Calls
    /\ left \in [Calls -> 0..Ttl] /\ due \in [Calls -> 0..Ttl]
    /\ held \in [Calls -> 0..Long]
    /\ \A c \in Calls : out[c].total <= printed[c] /\ printed[c] <= MaxPrint

\* However many calls wait, the agent (and the person behind it) is asked by
\* one at a time, and only when the cached token has no more than a fifth of its
\* life left (AgentMinter.Token).
MintsWhenDue ==
    /\ \A c, d \in Minting : c = d
    /\ Minting # {} => cached <= Margin

\* A token that a call got is not refused as expired before a fifth of a
\* lifetime, less the part of a second that the token's expiry was cut by, has
\* passed since the call's turn at the minter, even when the mint of that token
\* was slow (AgentMinter.Token, post).
TokenLasts ==
    \A c \in Calls : at[c] = "sending" /\ held[c] + (Second - 1) <= Margin => left[c] > 0

\* The result of an Exec is the command's whole output or its two ends with
\* the exact count of what is left out, never the output of an answer that
\* broke off; the buffer stays within its limit meanwhile (Exec, headTail).
OutputExact ==
    \A c \in Execs :
        /\ at[c] = "done" => Buffer!KeepsEnds(out[c], [i \in 1..printed[c] |-> i])
        /\ MaxOutput > 1 => Len(out[c].head) + Len(out[c].tail) <= MaxOutput

\* Every call ends, whatever exe.dev does, if only the agent answers: waiting
\* for the mutex, which knows no deadline, ends because the holder's mint does
\* (AgentMinter.Token).
CallsReturn == \A c \in Calls : at[c] = "locking" ~> at[c] \in {"done", "failed"}

============================================================================
