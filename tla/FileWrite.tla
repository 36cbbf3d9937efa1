----------------------------- MODULE FileWrite -----------------------------
(***************************************************************************)
(* write_file and edit_file on one path of one VM: toolset.put, which      *)
(* sends the text in chunks that scripts on the VM append to a temporary   *)
(* file and the last of them renames into place, and toolset.cleanup.      *)
(*                                                                         *)
(* Calls run at once, each with a temporary file of its own.  A script can *)
(* fail at any point, and a hasty caller can give up on a script (its      *)
(* request is cancelled, its connection breaks) that goes on running on    *)
(* the VM: Client.Exec.                                                    *)
(***************************************************************************)
EXTENDS Integers, Sequences, Functions

CONSTANTS
    Writers,     \* write_file calls
    Editors,     \* edit_file calls
    Short,       \* the calls whose text fits one chunk
    Size,        \* the number of chunks of the other texts
    Hasty        \* the calls that may give up on a running script

Calls == Writers \cup Editors

ASSUME SizeAssumption == Size \in Nat \ {0}
ASSUME CallsAssumption == Writers \cap Editors = {} /\ Short \subseteq Calls /\ Hasty \subseteq Calls

\* The number of chunks of the text of call c.
Chunks(c) == IF c \in Short THEN 1 ELSE Size

VARIABLES
    file,        \* the pieces the file consists of
    tmp,         \* for each call, the pieces of its temporary file
    call,        \* what the call is doing in this process
    script,      \* how far the script of its latest chunk is on the VM
    rm,          \* how far the script of its cleanup is
    seen,        \* history: the text each edit read
    landed       \* history: the calls whose text was moved into place

vars == <<file, tmp, call, script, rm, seen, landed>>

(***************************************************************************)
(* A text is the set of the calls whose contribution it holds; a piece is  *)
(* one of the chunks it is cut into, cut short when its part is 0.         *)
(***************************************************************************)
Text == SUBSET Calls
Piece == [text : Text, part : 0..Size, of : 1..Size]
Whole(text, n) == [i \in 1..n |-> [text |-> text, part |-> i, of |-> n]]

\* The temporary file that does not exist.  An empty one is <<>>.
NoFile == <<[text |-> {}, part |-> -1]>>

TextOf(pieces) == UNION {p.text : p \in Range(pieces)}

Stage == {"none", "append", "rename", "ok", "bad"}

----------------------------------------------------------------------------
\* put, sending the first chunk of a text.
Put(text) == [at |-> "writing", text |-> text, chunk |-> 1]

At(c, where) == [call[c] EXCEPT !.at = where]

\* writeFile replaces the whole text.
Write(w) ==
    /\ call[w].at = "ready"
    /\ call' = [call EXCEPT ![w] = Put({w})]
    /\ script' = [script EXCEPT ![w] = "append"]
    /\ UNCHANGED <<file, tmp, rm, seen, landed>>

\* editFile reads the file, replaces a string and writes the result.
Edit(e) ==
    /\ call[e].at = "ready"
    /\ seen' = [seen EXCEPT ![e] = TextOf(file)]
    /\ call' = [call EXCEPT ![e] = Put(TextOf(file) \cup {e})]
    /\ script' = [script EXCEPT ![e] = "append"]
    /\ UNCHANGED <<file, tmp, rm, landed>>

\* The file cannot be read, or the string is missing or ambiguous.
EditRefused(e) ==
    /\ call[e].at = "ready"
    /\ call' = [call EXCEPT ![e] = At(e, "failed")]
    /\ UNCHANGED <<file, tmp, script, rm, seen, landed>>

----------------------------------------------------------------------------
(***************************************************************************)
(* The scripts, on the VM.                                                 *)
(***************************************************************************)

\* (A faulty Before: every chunk truncates the temporary file.)
BeforeTruncates(c) == <<>>

\* What the first chunk starts from is empty; the others append, to a file
\* that the redirection creates if it is not there.
Before(c) == IF call[c].chunk = 1 \/ tmp[c] = NoFile THEN <<>> ELSE tmp[c]

PieceOf(c) == [text |-> call[c].text, part |-> call[c].chunk, of |-> Chunks(c)]

AppendPiece(c) ==
    /\ script[c] = "append"
    /\ tmp' = [tmp EXCEPT ![c] = Append(Before(c), PieceOf(c))]
    /\ script' = [script EXCEPT ![c] = IF call[c].chunk = Chunks(c) THEN "rename" ELSE "ok"]
    /\ UNCHANGED <<file, call, rm, seen, landed>>

\* The script never starts, or fails or is killed while it appends.
AppendFails(c) ==
    /\ script[c] = "append"
    /\ \/ UNCHANGED tmp
       \/ tmp' = [tmp EXCEPT ![c] = Before(c)]
       \/ tmp' = [tmp EXCEPT ![c] = Append(Before(c), [PieceOf(c) EXCEPT !.part = 0])]
    /\ script' = [script EXCEPT ![c] = "bad"]
    /\ UNCHANGED <<file, call, rm, seen, landed>>

\* mv: there may be nothing left to move, and the script may be killed just
\* afterwards.
Rename(c) ==
    /\ script[c] = "rename"
    /\ IF tmp[c] = NoFile
       THEN script' = [script EXCEPT ![c] = "bad"] /\ UNCHANGED <<file, tmp, landed>>
       ELSE /\ file' = tmp[c]
            /\ tmp' = [tmp EXCEPT ![c] = NoFile]
            /\ landed' = IF tmp[c] = Whole(call[c].text, Chunks(c)) THEN landed \cup {c} ELSE landed
            /\ \E end \in {"ok", "bad"} : script' = [script EXCEPT ![c] = end]
    /\ UNCHANGED <<call, rm, seen>>

\* The script is killed before the mv.
RenameFails(c) ==
    /\ script[c] = "rename"
    /\ script' = [script EXCEPT ![c] = "bad"]
    /\ UNCHANGED <<file, tmp, call, rm, seen, landed>>

\* The script of cleanup.
Remove(c) ==
    /\ rm[c] = "sent"
    /\ tmp' = [tmp EXCEPT ![c] = NoFile]
    /\ rm' = [rm EXCEPT ![c] = "ok"]
    /\ UNCHANGED <<file, call, script, seen, landed>>

RemoveFails(c) ==
    /\ rm[c] = "sent"
    /\ rm' = [rm EXCEPT ![c] = "bad"]
    /\ UNCHANGED <<file, tmp, call, script, seen, landed>>

----------------------------------------------------------------------------
(***************************************************************************)
(* What put does with the answers.                                         *)
(***************************************************************************)

\* (A faulty Answered: an exit status is taken for a success.)
AnsweredAny(c) == script[c] \in {"ok", "bad"}

\* The script ended with status 0.
Answered(c) == script[c] = "ok"

\* (A faulty MoreToSend: off <= len(data).)
MoreToSendInclusive(c) == call[c].chunk <= Chunks(c)

MoreToSend(c) == call[c].chunk < Chunks(c)

NextChunk(c) ==
    /\ call[c].at = "writing"
    /\ MoreToSend(c)
    /\ Answered(c)
    /\ call' = [call EXCEPT ![c].chunk = @ + 1]
    /\ script' = [script EXCEPT ![c] = "append"]
    /\ UNCHANGED <<file, tmp, rm, seen, landed>>

Done(c) ==
    /\ call[c].at = "writing"
    /\ ~ MoreToSend(c)
    /\ Answered(c)
    /\ call' = [call EXCEPT ![c] = At(c, "done")]
    /\ UNCHANGED <<file, tmp, script, rm, seen, landed>>

\* (A faulty Cleanup: under the cancelled context it sends nothing.)
CleanupSkipped(c) == rm

\* cleanup has a context of its own.
Cleanup(c) == [rm EXCEPT ![c] = "sent"]

\* The script reports a failure, or put gives up on it wherever it is: the
\* temporary file is removed.
Failed(c) ==
    /\ call[c].at = "writing"
    /\ script[c] = "bad" \/ c \in Hasty
    /\ call' = [call EXCEPT ![c] = At(c, "cleaning")]
    /\ rm' = Cleanup(c)
    /\ UNCHANGED <<file, tmp, script, seen, landed>>

\* Whatever becomes of the cleanup, the call fails with the first error.
CleanedUp(c) ==
    /\ call[c].at = "cleaning"
    /\ rm[c] # "sent" \/ c \in Hasty
    /\ call' = [call EXCEPT ![c] = At(c, "failed")]
    /\ UNCHANGED <<file, tmp, script, rm, seen, landed>>

----------------------------------------------------------------------------
Init ==
    /\ file = Whole({}, 1)
    /\ tmp = [c \in Calls |-> NoFile]
    /\ call = [c \in Calls |-> [at |-> "ready", text |-> {}, chunk |-> 1]]
    /\ script = [c \in Calls |-> "none"]
    /\ rm = [c \in Calls |-> "none"]
    /\ seen = [c \in Calls |-> {}]
    /\ landed = {}

OnVM(c) ==
    \/ AppendPiece(c)
    \/ AppendFails(c)
    \/ Rename(c)
    \/ RenameFails(c)
    \/ Remove(c)
    \/ RemoveFails(c)

InServer(c) ==
    \/ NextChunk(c)
    \/ Done(c)
    \/ Failed(c)
    \/ CleanedUp(c)

Next ==
    \/ \E w \in Writers : Write(w)
    \/ \E e \in Editors : Edit(e) \/ EditRefused(e)
    \/ \E c \in Calls : OnVM(c) \/ InServer(c)

Spec == Init /\ [][Next]_vars

----------------------------------------------------------------------------
TypeOK ==
    /\ file \in Seq(Piece)
    /\ tmp \in [Calls -> Seq(Piece) \cup {NoFile}]
    /\ call \in [Calls -> [at : {"ready", "writing", "cleaning", "done", "failed"},
                           text : Text, chunk : 1..Size]]
    /\ script \in [Calls -> Stage]
    /\ rm \in [Calls -> {"none", "sent", "ok", "bad"}]
    /\ seen \in [Calls -> Text]
    /\ landed \subseteq Calls

\* "readers never see a partial file" (put): whatever scripts are running and
\* however they fail, the file is all of one call's text.
NoPartialFile == \E text \in Text, n \in 1..Size : file = Whole(text, n)

\* The temporary file of a call that waits for its scripts outlives it only
\* when cleanup could not remove it (put, cleanup).
NoLitter ==
    \A c \in Calls \ Hasty : call[c].at \in {"done", "failed"} /\ tmp[c] # NoFile => rm[c] = "bad"

\* The calls implement AtomicFile: a reader sees whole texts, each taking the
\* place of the one before it at one instant between the start of its call
\* and its answer, at most once (or, when its script outlives a hasty call,
\* after it was reported as failed).
Outcome(c) ==
    CASE call[c].at = "ready" -> "none"
      [] call[c].at \in {"writing", "cleaning"} -> "open"
      [] OTHER -> call[c].at

VisibleText == IF NoPartialFile THEN TextOf(file) ELSE {"partial"}

Atomic == INSTANCE AtomicFile WITH
    Late <- Hasty,
    text <- VisibleText,
    outcome <- [c \in Calls |-> Outcome(c)]

AtomicSpec == Atomic!Spec

============================================================================
