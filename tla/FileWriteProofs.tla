-------------------------- MODULE FileWriteProofs --------------------------
(***************************************************************************)
(* Safety of write_file and edit_file for any number of calls on one path  *)
(* and texts of any number of chunks.  That readers see whole texts only,  *)
(* and that the calls implement AtomicFile, holds if the calls that are    *)
(* given up on send one chunk: Hasty \subseteq Short.                      *)
(***************************************************************************)
EXTENDS FileWrite, TLAPS

----------------------------------------------------------------------------
(***************************************************************************)
(* Pieces of texts.                                                        *)
(***************************************************************************)

\* The first k of the n pieces of a text.
Prefix(text, n, k) == [i \in 1..k |-> [text |-> text, part |-> i, of |-> n]]

LEMMA ChunksType == \A c \in Calls : Chunks(c) \in 1..Size /\ Chunks(c) \in Nat
  BY SizeAssumption DEF Chunks

LEMMA PrefixGrows ==
    ASSUME NEW text, NEW n, NEW j \in Nat, NEW k \in Nat, k = j + 1
    PROVE  Append(Prefix(text, n, j), [text |-> text, part |-> k, of |-> n]) = Prefix(text, n, k)
  BY DEF Prefix

LEMMA PrefixEmpty == ASSUME NEW text, NEW n PROVE Prefix(text, n, 0) = <<>>
  BY DEF Prefix

LEMMA PrefixIsFile ==
    ASSUME NEW text, NEW n, NEW k \in Nat, k > 0
    PROVE  Prefix(text, n, k) # NoFile
<1>1. Prefix(text, n, k)[1].part = 1 /\ NoFile[1].part = -1
  BY DEF Prefix, NoFile
<1> QED  BY <1>1

LEMMA NoFileIsNone == NoFile \notin Seq(Piece)
<1>1. NoFile[1].part = -1 /\ Len(NoFile) = 1
  BY DEF NoFile
<1>2. ASSUME NoFile \in Seq(Piece)
      PROVE  NoFile[1] \in Piece
  BY <1>1, <1>2
<1> QED  BY <1>1, <1>2, SizeAssumption DEF Piece

LEMMA WholeText ==
    ASSUME NEW text, NEW n \in Nat, n > 0
    PROVE  TextOf(Whole(text, n)) = text
<1>1. \A p \in Range(Whole(text, n)) : p.text = text
  BY DEF Whole, Range
<1>2. Whole(text, n)[1] \in Range(Whole(text, n))
  BY DEF Whole, Range
<1> QED  BY <1>1, <1>2 DEF TextOf

LEMMA TextOfType == ASSUME NEW s \in Seq(Piece) PROVE TextOf(s) \in Text
<1>1. \A p \in Range(s) : p \in Piece
  BY DEF Range
<1>2. \A p \in Piece : p.text \in Text
  BY DEF Piece
<1> QED  BY <1>1, <1>2 DEF TextOf, Text

----------------------------------------------------------------------------
(***************************************************************************)
(* Types.                                                                  *)
(***************************************************************************)
LEMMA InitType == Init => TypeOK
<1> SUFFICES ASSUME Init
             PROVE  TypeOK
  OBVIOUS
<1>1. file \in Seq(Piece)
  <2>1. [text |-> {}, part |-> 1, of |-> 1] \in Piece
    BY SizeAssumption DEF Piece, Text
  <2>2. file = Prefix({}, 1, 1)
    BY DEF Init, Whole, Prefix
  <2>3. PICK p \in Piece : p = [text |-> {}, part |-> 1, of |-> 1]
    BY <2>1
  <2>4. file = <<p>>
    BY <2>2, <2>3 DEF Prefix
  <2> QED  BY <2>4
<1> QED  BY <1>1, SizeAssumption DEF Init, TypeOK, Text, Stage

LEMMA NextType == TypeOK /\ [Next]_vars => TypeOK'
<1> SUFFICES ASSUME TypeOK, [Next]_vars
             PROVE  TypeOK'
  OBVIOUS
<1>1. ASSUME NEW c \in Calls, NEW at \in {"ready", "writing", "cleaning", "done", "failed"}
      PROVE  At(c, at) \in [at : {"ready", "writing", "cleaning", "done", "failed"},
                            text : Text, chunk : 1..Size]
  BY DEF At, TypeOK
<1>2. ASSUME NEW w \in Writers, Write(w)
      PROVE  TypeOK'
  <2>1. w \in Calls /\ {w} \in Text /\ 1 \in 1..Size
    BY SizeAssumption DEF Calls, Text
  <2> QED  BY <1>2, <2>1 DEF Write, Put, TypeOK, Stage
<1>3. ASSUME NEW e \in Editors, Edit(e)
      PROVE  TypeOK'
  <2>1. e \in Calls /\ TextOf(file) \in Text /\ 1 \in 1..Size
    BY SizeAssumption, TextOfType DEF Calls, TypeOK
  <2>2. TextOf(file) \cup {e} \in Text
    BY <2>1 DEF Text
  <2> QED  BY <1>3, <2>1, <2>2 DEF Edit, Put, TypeOK, Stage
<1>4. ASSUME NEW e \in Editors, EditRefused(e)
      PROVE  TypeOK'
  BY <1>1, <1>4 DEF EditRefused, TypeOK, Calls
<1>5. ASSUME NEW c \in Calls, NEW s \in Seq(Piece) \cup {NoFile}, NEW how \in Stage,
             tmp' = [tmp EXCEPT ![c] = s], script' = [script EXCEPT ![c] = how],
             UNCHANGED <<call, rm, seen>>, file' \in Seq(Piece), landed' \subseteq Calls
      PROVE  TypeOK'
  BY <1>5 DEF TypeOK
<1>6. ASSUME NEW c \in Calls, AppendPiece(c) \/ AppendFails(c)
      PROVE  TypeOK'
  <2>1. Before(c) \in Seq(Piece)
    BY DEF Before, TypeOK
  <2>2. PieceOf(c) \in Piece /\ [PieceOf(c) EXCEPT !.part = 0] \in Piece
    <3>1. call[c].text \in Text /\ call[c].chunk \in 1..Size /\ Chunks(c) \in 1..Size
      BY ChunksType DEF TypeOK
    <3> QED  BY <3>1, SizeAssumption DEF PieceOf, Piece
  <2>3. /\ Append(Before(c), PieceOf(c)) \in Seq(Piece)
        /\ Append(Before(c), [PieceOf(c) EXCEPT !.part = 0]) \in Seq(Piece)
    BY <2>1, <2>2
  <2>4. tmp = [tmp EXCEPT ![c] = tmp[c]] /\ tmp[c] \in Seq(Piece) \cup {NoFile}
    BY DEF TypeOK
  <2>5. \E s \in Seq(Piece) \cup {NoFile} : tmp' = [tmp EXCEPT ![c] = s]
    BY <1>6, <2>1, <2>3, <2>4 DEF AppendPiece, AppendFails
  <2>6. \E how \in Stage : script' = [script EXCEPT ![c] = how]
    BY <1>6 DEF AppendPiece, AppendFails, Stage
  <2>7. UNCHANGED <<file, call, rm, seen, landed>>
    BY <1>6 DEF AppendPiece, AppendFails
  <2> QED  BY <1>5, <2>5, <2>6, <2>7 DEF TypeOK
<1>7. ASSUME NEW c \in Calls, Rename(c)
      PROVE  TypeOK'
  <2>1. CASE tmp[c] = NoFile
    BY <1>7, <2>1 DEF Rename, TypeOK, Stage
  <2>2. CASE tmp[c] # NoFile
    <3>1. tmp[c] \in Seq(Piece)
      BY <2>2 DEF TypeOK
    <3>2. file' \in Seq(Piece) /\ tmp' = [tmp EXCEPT ![c] = NoFile] /\ UNCHANGED <<call, rm, seen>>
      BY <1>7, <2>2, <3>1 DEF Rename
    <3>3. landed' \subseteq Calls
      BY <1>7, <2>2 DEF Rename, TypeOK
    <3>4. \E how \in Stage : script' = [script EXCEPT ![c] = how]
      BY <1>7, <2>2 DEF Rename, Stage
    <3> QED  BY <1>5, <3>2, <3>3, <3>4
  <2> QED  BY <2>1, <2>2
<1>8. ASSUME NEW c \in Calls, RenameFails(c) \/ Remove(c) \/ RemoveFails(c)
      PROVE  TypeOK'
  BY <1>8 DEF RenameFails, Remove, RemoveFails, TypeOK, Stage
<1>9. ASSUME NEW c \in Calls, NextChunk(c) \/ Done(c) \/ Failed(c) \/ CleanedUp(c)
      PROVE  TypeOK'
  <2> DEFINE Local == [at : {"ready", "writing", "cleaning", "done", "failed"},
                       text : Text, chunk : 1..Size]
  <2>1. NextChunk(c) => [call[c] EXCEPT !.chunk = @ + 1] \in Local
    <3>1. call[c] \in Local
      BY DEF TypeOK
    <3>2. call[c].chunk \in 1..Size /\ Chunks(c) \in 1..Size
      BY <3>1, ChunksType
    <3> HIDE DEF Local
    <3>3. NextChunk(c) => call[c].chunk + 1 \in 1..Size
      BY <3>2, SizeAssumption DEF NextChunk, MoreToSend
    <3> QED  BY <3>1, <3>3 DEF Local
  <2>2. \E l \in Local : call' = [call EXCEPT ![c] = l]
    BY <1>1, <1>9, <2>1 DEF NextChunk, Done, Failed, CleanedUp
  <2>3. call' \in [Calls -> Local]
    BY <2>2 DEF TypeOK
  <2>4. script' \in [Calls -> Stage] /\ rm' \in [Calls -> {"none", "sent", "ok", "bad"}]
    BY <1>9 DEF NextChunk, Done, Failed, Cleanup, CleanedUp, TypeOK, Stage
  <2>5. UNCHANGED <<file, tmp, seen, landed>>
    BY <1>9 DEF NextChunk, Done, Failed, CleanedUp
  <2> QED  BY <2>3, <2>4, <2>5 DEF TypeOK
<1>10. ASSUME UNCHANGED vars
       PROVE  TypeOK'
  BY <1>10 DEF vars, TypeOK
<1> QED  BY <1>2, <1>3, <1>4, <1>6, <1>7, <1>8, <1>9, <1>10 DEF Next, OnVM, InServer

----------------------------------------------------------------------------
(***************************************************************************)
(* Every step is a step of one call, and leaves the others alone.          *)
(***************************************************************************)
Called(c) ==
    \/ c \in Writers /\ Write(c)
    \/ c \in Editors /\ Edit(c)
    \/ c \in Editors /\ EditRefused(c)

StepOf(c) == Called(c) \/ OnVM(c) \/ InServer(c)

Same(c) ==
    /\ tmp'[c] = tmp[c] /\ call'[c] = call[c] /\ script'[c] = script[c]
    /\ rm'[c] = rm[c] /\ seen'[c] = seen[c]
    /\ c \in landed' <=> c \in landed

LEMMA OneStep == [Next]_vars => UNCHANGED vars \/ \E c \in Calls : StepOf(c)
  BY DEF Next, StepOf, Called, Calls

LEMMA OthersSame ==
    ASSUME TypeOK, NEW c \in Calls, StepOf(c), NEW d \in Calls, d # c
    PROVE  Same(d)
<1>1. CASE Called(c)
  BY <1>1 DEF Called, Write, Edit, EditRefused, Same, TypeOK
<1>2. CASE OnVM(c)
  BY <1>2 DEF OnVM, AppendPiece, AppendFails, Rename, RenameFails, Remove, RemoveFails, Same, TypeOK
<1>3. CASE InServer(c)
  BY <1>3 DEF InServer, NextChunk, Done, Failed, Cleanup, CleanedUp, Same, TypeOK
<1> QED  BY <1>1, <1>2, <1>3 DEF StepOf

----------------------------------------------------------------------------
(***************************************************************************)
(* How the parts of a call fit together.                                   *)
(***************************************************************************)
Stages(c) ==
    /\ call[c].chunk \in 1..Chunks(c)
    /\ call[c].at = "ready" =>
          call[c].chunk = 1 /\ script[c] = "none" /\ rm[c] = "none" /\ tmp[c] = NoFile
    /\ rm[c] # "none" => call[c].at \in {"cleaning", "failed"}
    /\ call[c].at = "cleaning" => rm[c] # "none"
    /\ script[c] = "rename" => call[c].chunk = Chunks(c)
    /\ call[c].at = "done" => script[c] = "ok" /\ call[c].chunk = Chunks(c)

\* A call that waits for its scripts has none running once it cleans up.
Patient(c) ==
    /\ script[c] \in {"append", "rename"} => call[c].at = "writing"
    /\ script[c] = "ok" => call[c].at \in {"writing", "done"}
    /\ script[c] = "ok" /\ call[c].chunk = Chunks(c) => tmp[c] = NoFile
    /\ call[c].at = "failed" /\ rm[c] = "none" => tmp[c] = NoFile
    /\ call[c].at = "failed" /\ c \notin Hasty => rm[c] # "sent"
    /\ rm[c] = "ok" => tmp[c] = NoFile

StageInv == \A c \in Calls : Stages(c) /\ (c \notin Hasty => Patient(c))

LEMMA StageInit == Init => StageInv
  BY ChunksType DEF Init, StageInv, Stages, Patient

LEMMA StagesSame ==
    ASSUME NEW c \in Calls, Same(c), Stages(c), c \notin Hasty => Patient(c)
    PROVE  Stages(c)' /\ (c \notin Hasty => Patient(c)')
  BY DEF Same, Stages, Patient

\* What a step does to its own call.
LEMMA CalledStages ==
    ASSUME TypeOK, NEW c \in Calls, Stages(c), c \notin Hasty => Patient(c), Called(c)
    PROVE  Stages(c)' /\ (c \notin Hasty => Patient(c)')
<1>1. CASE script' = [script EXCEPT ![c] = "append"] /\ UNCHANGED <<tmp, rm>> /\ call[c].at = "ready"
           /\ \E text : call' = [call EXCEPT ![c] = Put(text)]
  <2>1. call'[c].at = "writing" /\ call'[c].chunk = 1 /\ script'[c] = "append" /\ rm'[c] = "none"
    BY <1>1 DEF Put, TypeOK, Stages
  <2> QED  BY <2>1, ChunksType DEF Stages, Patient
<1>2. CASE EditRefused(c)
  <2>1. call'[c].at = "failed" /\ call'[c].chunk = 1 /\ script'[c] = "none" /\ rm'[c] = "none"
        /\ tmp'[c] = NoFile
    BY <1>2 DEF EditRefused, At, TypeOK, Stages
  <2> QED  BY <2>1, ChunksType DEF Stages, Patient
<1> QED  BY <1>1, <1>2 DEF Called, Write, Edit

LEMMA OnVMStages ==
    ASSUME TypeOK, NEW c \in Calls, Stages(c), c \notin Hasty => Patient(c), OnVM(c)
    PROVE  Stages(c)' /\ (c \notin Hasty => Patient(c)')
<1>1. CASE AppendPiece(c) \/ AppendFails(c)
  <2>1. script[c] = "append" /\ UNCHANGED <<call, rm>>
    BY <1>1 DEF AppendPiece, AppendFails
  <2>2. script'[c] = "bad" \/ script'[c] = IF call[c].chunk = Chunks(c) THEN "rename" ELSE "ok"
    BY <1>1 DEF AppendPiece, AppendFails, TypeOK
  <2> QED  BY <2>1, <2>2 DEF Stages, Patient
<1>2. CASE Rename(c) \/ RenameFails(c)
  <2>1. script[c] = "rename" /\ UNCHANGED <<call, rm>>
    BY <1>2 DEF Rename, RenameFails
  <2>2. script'[c] = "bad" \/ (script'[c] = "ok" /\ tmp'[c] = NoFile)
    BY <1>2 DEF Rename, RenameFails, TypeOK
  <2>3. tmp'[c] = tmp[c] \/ tmp'[c] = NoFile
    BY <1>2 DEF Rename, RenameFails, TypeOK
  <2> QED  BY <2>1, <2>2, <2>3 DEF Stages, Patient
<1>3. CASE Remove(c) \/ RemoveFails(c)
  <2>1. rm[c] = "sent" /\ UNCHANGED <<call, script>>
    BY <1>3 DEF Remove, RemoveFails
  <2>2. (rm'[c] = "ok" /\ tmp'[c] = NoFile) \/ (rm'[c] = "bad" /\ tmp'[c] = tmp[c])
    BY <1>3 DEF Remove, RemoveFails, TypeOK
  <2> QED  BY <2>1, <2>2 DEF Stages, Patient
<1> QED  BY <1>1, <1>2, <1>3 DEF OnVM

LEMMA InServerStages ==
    ASSUME TypeOK, NEW c \in Calls, Stages(c), c \notin Hasty => Patient(c), InServer(c)
    PROVE  Stages(c)' /\ (c \notin Hasty => Patient(c)')
<1>1. CASE NextChunk(c)
  <2>1. call[c].at = "writing" /\ call'[c].at = "writing" /\ call'[c].chunk = call[c].chunk + 1
        /\ script'[c] = "append" /\ UNCHANGED <<tmp, rm>> /\ call[c].chunk < Chunks(c)
    BY <1>1 DEF NextChunk, MoreToSend, TypeOK
  <2>2. call[c].chunk + 1 \in 1..Chunks(c)
    BY <2>1, ChunksType DEF Stages
  <2> QED  BY <2>1, <2>2 DEF Stages, Patient
<1>2. CASE Done(c)
  <2>1. call[c].at = "writing" /\ call'[c].at = "done" /\ call'[c].chunk = call[c].chunk
        /\ script[c] = "ok" /\ UNCHANGED <<tmp, rm, script>> /\ ~ (call[c].chunk < Chunks(c))
    BY <1>2 DEF Done, At, Answered, MoreToSend, TypeOK
  <2>2. call[c].chunk = Chunks(c)
    BY <2>1, ChunksType DEF Stages
  <2> QED  BY <2>1, <2>2 DEF Stages, Patient
<1>3. CASE Failed(c)
  <2>1. call[c].at = "writing" /\ call'[c].at = "cleaning" /\ call'[c].chunk = call[c].chunk
        /\ (script[c] = "bad" \/ c \in Hasty) /\ UNCHANGED <<tmp, script>> /\ rm'[c] = "sent"
    BY <1>3 DEF Failed, Cleanup, At, TypeOK
  <2> QED  BY <2>1 DEF Stages, Patient
<1>4. CASE CleanedUp(c)
  <2>1. call[c].at = "cleaning" /\ call'[c].at = "failed" /\ call'[c].chunk = call[c].chunk
        /\ (rm[c] # "sent" \/ c \in Hasty) /\ UNCHANGED <<tmp, script, rm>>
    BY <1>4 DEF CleanedUp, At, TypeOK
  <2> QED  BY <2>1 DEF Stages, Patient
<1> QED  BY <1>1, <1>2, <1>3, <1>4 DEF InServer

LEMMA StageNext == TypeOK /\ StageInv /\ [Next]_vars => StageInv'
<1> SUFFICES ASSUME TypeOK, StageInv, [Next]_vars, NEW d \in Calls
             PROVE  Stages(d)' /\ (d \notin Hasty => Patient(d)')
  BY DEF StageInv
<1>1. Stages(d) /\ (d \notin Hasty => Patient(d))
  BY DEF StageInv
<1>2. CASE UNCHANGED vars
  <2>1. Same(d)
    BY <1>2 DEF vars, Same
  <2> QED  BY <1>1, <2>1, StagesSame
<1>3. ASSUME NEW c \in Calls, StepOf(c), d # c
      PROVE  Stages(d)' /\ (d \notin Hasty => Patient(d)')
  <2>1. Same(d)
    BY <1>3, OthersSame
  <2> QED  BY <1>1, <2>1, StagesSame
<1>4. CASE StepOf(d)
  BY <1>1, <1>4, CalledStages, OnVMStages, InServerStages DEF StepOf
<1> QED  BY <1>2, <1>3, <1>4, OneStep

----------------------------------------------------------------------------
(***************************************************************************)
(* What the temporary files hold.                                          *)
(***************************************************************************)
Pieces(c) ==
    /\ \A j \in Nat : script[c] = "append" /\ call[c].chunk = j + 1 /\ j > 0 =>
          tmp[c] = Prefix(call[c].text, Chunks(c), j)
    /\ script[c] = "ok" /\ call[c].chunk < Chunks(c) =>
          tmp[c] = Prefix(call[c].text, Chunks(c), call[c].chunk)
    /\ script[c] = "rename" => tmp[c] \in {NoFile, Whole(call[c].text, Chunks(c))}
    /\ script[c] # "none" => call[c].text = seen[c] \cup {c}
    /\ script[c] \in {"none", "append", "rename"} => c \notin landed
    /\ script[c] = "ok" => (c \in landed <=> call[c].chunk = Chunks(c))
    /\ c \notin Editors => seen[c] = {}

PieceInv == NoPartialFile /\ \A c \in Calls : Pieces(c)

LEMMA PieceInit == Init => PieceInv
<1> SUFFICES ASSUME Init
             PROVE  PieceInv
  OBVIOUS
<1>1. NoPartialFile
  BY SizeAssumption DEF Init, NoPartialFile, Text
<1>2. \A c \in Calls : Pieces(c)
  BY DEF Init, Pieces
<1> QED  BY <1>1, <1>2 DEF PieceInv

LEMMA PiecesSame ==
    ASSUME NEW c \in Calls, Same(c), Pieces(c)
    PROVE  Pieces(c)'
  BY DEF Same, Pieces

LEMMA CalledPieces ==
    ASSUME TypeOK, NEW c \in Calls, Stages(c), Pieces(c), Called(c)
    PROVE  Pieces(c)' /\ file' = file
<1>1. script[c] = "none" /\ c \notin landed /\ landed' = landed /\ file' = file
  BY DEF Called, Write, Edit, EditRefused, Stages, Pieces
<1>2. CASE c \in Writers /\ Write(c)
  <2>1. /\ script'[c] = "append" /\ call'[c].chunk = 1 /\ call'[c].text = {c} /\ seen' = seen
        /\ c \notin Editors
    BY <1>2, CallsAssumption DEF Write, Put, TypeOK
  <2> QED  BY <1>1, <2>1 DEF Pieces
<1>3. CASE c \in Editors /\ Edit(c)
  <2>1. /\ script'[c] = "append" /\ call'[c].chunk = 1 /\ seen'[c] = TextOf(file)
        /\ call'[c].text = TextOf(file) \cup {c}
    BY <1>3 DEF Edit, Put, TypeOK
  <2> QED  BY <1>1, <1>3, <2>1 DEF Pieces
<1>4. CASE c \in Editors /\ EditRefused(c)
  <2>1. script' = script /\ seen' = seen
    BY <1>4 DEF EditRefused
  <2> QED  BY <1>1, <1>4, <2>1 DEF Pieces
<1> QED  BY <1>2, <1>3, <1>4 DEF Called

LEMMA AppendPieces ==
    ASSUME TypeOK, NEW c \in Calls, Stages(c), Pieces(c), AppendPiece(c)
    PROVE  Pieces(c)'
<1> DEFINE t == call[c].text
           n == Chunks(c)
           k == call[c].chunk
<1>1. /\ script[c] = "append" /\ UNCHANGED <<call, seen, landed>> /\ c \notin landed
      /\ script'[c] = (IF k = n THEN "rename" ELSE "ok")
      /\ tmp'[c] = Append(Before(c), PieceOf(c))
  BY DEF AppendPiece, TypeOK, Pieces
<1>2. PICK j \in Nat : k = j + 1 /\ k \in Nat /\ k <= n /\ n \in Nat
  <2>1. k \in 1..n /\ n \in Nat
    BY ChunksType DEF Stages
  <2> HIDE DEF k, n
  <2>2. k - 1 \in Nat /\ k = (k - 1) + 1
    BY <2>1
  <2> QED  BY <2>1, <2>2
<1>3. Before(c) = Prefix(t, n, j)
  <2>1. CASE j = 0
    BY <1>2, <2>1, PrefixEmpty DEF Before
  <2>2. CASE j > 0
    <3>1. tmp[c] = Prefix(t, n, j)
      BY <1>1, <1>2, <2>2 DEF Pieces
    <3>2. tmp[c] # NoFile /\ k # 1
      BY <1>2, <2>2, <3>1, PrefixIsFile
    <3> QED  BY <3>1, <3>2 DEF Before
  <2> QED  BY <2>1, <2>2
<1>4. PieceOf(c) = [text |-> t, part |-> k, of |-> n]
  BY DEF PieceOf
<1> HIDE DEF t, n, k
<1>5. tmp'[c] = Prefix(t, n, k)
  BY <1>1, <1>2, <1>3, <1>4, PrefixGrows
<1>6. call'[c].text = t /\ call'[c].chunk = k /\ seen'[c] = seen[c] /\ Chunks(c) = n
      /\ call[c].text = t /\ call[c].chunk = k
  BY <1>1 DEF t, k, n
<1>7. k = n => tmp'[c] = Whole(t, n)
  BY <1>5 DEF Prefix, Whole
<1> QED  BY <1>1, <1>2, <1>5, <1>6, <1>7 DEF Pieces

LEMMA OnVMPieces ==
    ASSUME TypeOK, Hasty \subseteq Short,
           NEW c \in Calls, Stages(c), c \notin Hasty => Patient(c), Pieces(c), NoPartialFile, OnVM(c)
    PROVE  Pieces(c)' /\ NoPartialFile'
<1>1. CASE AppendPiece(c)
  <2>1. file' = file
    BY <1>1 DEF AppendPiece
  <2> QED  BY <1>1, <2>1, AppendPieces DEF NoPartialFile
<1>2. CASE AppendFails(c) \/ RenameFails(c)
  <2>1. script'[c] = "bad" /\ UNCHANGED <<call, seen, file, landed>> /\ script[c] # "none"
    BY <1>2 DEF AppendFails, RenameFails, TypeOK
  <2> QED  BY <2>1 DEF Pieces, NoPartialFile
<1>3. CASE Rename(c) /\ tmp[c] = NoFile
  <2>1. script'[c] = "bad" /\ UNCHANGED <<call, seen, file, landed>> /\ script[c] # "none"
    BY <1>3 DEF Rename, TypeOK
  <2> QED  BY <2>1 DEF Pieces, NoPartialFile
<1>4. CASE Rename(c) /\ tmp[c] # NoFile
  <2>1. script[c] = "rename" /\ tmp[c] = Whole(call[c].text, Chunks(c)) /\ call[c].chunk = Chunks(c)
    BY <1>4 DEF Rename, Pieces, Stages
  <2>2. file' = Whole(call[c].text, Chunks(c)) /\ landed' = landed \cup {c} /\ UNCHANGED <<call, seen>>
        /\ script'[c] \in {"ok", "bad"}
    BY <1>4, <2>1 DEF Rename, TypeOK
  <2>3. NoPartialFile'
    BY <2>2, ChunksType DEF NoPartialFile, TypeOK
  <2>4. Chunks(c) \in Nat /\ ~ (Chunks(c) < Chunks(c))
    BY ChunksType
  <2>5. c \in landed' /\ call'[c] = call[c] /\ seen'[c] = seen[c]
    BY <2>2
  <2> QED  BY <2>1, <2>2, <2>3, <2>4, <2>5 DEF Pieces
<1>5. CASE RemoveFails(c)
  <2>1. UNCHANGED <<file, tmp, call, script, seen, landed>>
    BY <1>5 DEF RemoveFails
  <2> QED  BY <2>1 DEF Pieces, NoPartialFile
<1>6. CASE Remove(c)
  <2>1. UNCHANGED <<file, call, script, seen, landed>> /\ tmp'[c] = NoFile /\ rm[c] = "sent"
    BY <1>6 DEF Remove, TypeOK
  <2>2. CASE c \in Hasty
    <3>1. Chunks(c) = 1 /\ call[c].chunk = 1
      BY <2>2, ChunksType DEF Chunks, Stages
    <3> QED  BY <2>1, <3>1 DEF Pieces, NoPartialFile
  <2>3. CASE c \notin Hasty
    <3>1. script[c] \notin {"append", "rename", "ok"}
      BY <2>1, <2>3 DEF Stages, Patient
    <3> QED  BY <2>1, <3>1 DEF Pieces, NoPartialFile
  <2> QED  BY <2>2, <2>3
<1> QED  BY <1>1, <1>2, <1>3, <1>4, <1>5, <1>6 DEF OnVM

LEMMA InServerPieces ==
    ASSUME TypeOK, NEW c \in Calls, Stages(c), Pieces(c), InServer(c)
    PROVE  Pieces(c)' /\ file' = file
<1>1. file' = file /\ UNCHANGED <<tmp, seen, landed>>
  BY DEF InServer, NextChunk, Done, Failed, CleanedUp
<1>2. CASE NextChunk(c)
  <2>1. /\ call'[c].chunk = call[c].chunk + 1 /\ call'[c].text = call[c].text /\ script'[c] = "append"
        /\ script[c] = "ok" /\ call[c].chunk < Chunks(c)
    BY <1>2 DEF NextChunk, MoreToSend, Answered, TypeOK
  <2>2. PICK k \in Nat : k = call[c].chunk
    BY ChunksType DEF Stages
  <2>3. c \notin landed /\ tmp[c] = Prefix(call[c].text, Chunks(c), k)
    BY <2>1, <2>2, ChunksType DEF Pieces
  <2>4. \A j \in Nat : call'[c].chunk = j + 1 => j = k
    BY <2>1, <2>2
  <2> QED  BY <1>1, <2>1, <2>3, <2>4 DEF Pieces
<1>3. CASE Done(c) \/ Failed(c) \/ CleanedUp(c)
  <2>1. script' = script /\ call'[c].text = call[c].text /\ call'[c].chunk = call[c].chunk
    BY <1>3 DEF Done, Failed, CleanedUp, At, TypeOK
  <2> QED  BY <1>1, <2>1 DEF Pieces
<1> QED  BY <1>1, <1>2, <1>3 DEF InServer

LEMMA PieceNext ==
    ASSUME Hasty \subseteq Short
    PROVE  TypeOK /\ StageInv /\ PieceInv /\ [Next]_vars => PieceInv'
<1> SUFFICES ASSUME TypeOK, StageInv, PieceInv, [Next]_vars
             PROVE  PieceInv'
  OBVIOUS
<1>1. CASE UNCHANGED vars
  <2>1. \A c \in Calls : Pieces(c)'
    BY <1>1, PiecesSame DEF PieceInv, vars, Same
  <2> QED  BY <1>1, <2>1 DEF PieceInv, NoPartialFile, vars
<1>2. ASSUME NEW c \in Calls, StepOf(c)
      PROVE  PieceInv'
  <2>1. Pieces(c)' /\ NoPartialFile'
    <3>1. Stages(c) /\ (c \notin Hasty => Patient(c)) /\ Pieces(c) /\ NoPartialFile
      BY DEF StageInv, PieceInv
    <3>2. file' = file => NoPartialFile'
      BY <3>1 DEF NoPartialFile
    <3> QED  BY <1>2, <3>1, <3>2, CalledPieces, OnVMPieces, InServerPieces DEF StepOf
  <2>2. ASSUME NEW d \in Calls, d # c
        PROVE  Pieces(d)'
    <3>1. Same(d)
      BY <1>2, <2>2, OthersSame
    <3> QED  BY <3>1, PiecesSame DEF PieceInv
  <2> QED  BY <2>1, <2>2 DEF PieceInv
<1> QED  BY <1>1, <1>2, OneStep

----------------------------------------------------------------------------
(***************************************************************************)
(* The refinement: every step maps to a step of AtomicFile or to none.     *)
(***************************************************************************)
outcome == [c \in Calls |-> Outcome(c)]

LEMMA ReaderSees ==
    ASSUME TypeOK, NoPartialFile
    PROVE  VisibleText = TextOf(file)
  BY DEF VisibleText

\* The outcomes change only at the call that makes the step.
LEMMA OutcomeChanges ==
    ASSUME TypeOK, NEW c \in Calls, StepOf(c)
    PROVE  outcome' = [outcome EXCEPT ![c] = Outcome(c)']
<1>1. \A d \in Calls \ {c} : Outcome(d)' = Outcome(d)
  BY OthersSame DEF Same, Outcome
<1> QED  BY <1>1 DEF outcome

LEMMA InitAtomic == Init => Atomic!Init
<1> SUFFICES ASSUME Init
             PROVE  Atomic!Init
  OBVIOUS
<1>1. TypeOK /\ PieceInv
  BY InitType, PieceInit
<1>2. VisibleText = {}
  <2>1. file = Whole({}, 1)
    BY DEF Init
  <2> QED  BY <1>1, <2>1, ReaderSees, WholeText DEF PieceInv
<1>3. [c \in Calls |-> Outcome(c)] = [c \in Calls |-> "none"]
  BY DEF Init, Outcome
<1> QED  BY <1>2, <1>3 DEF Init, Atomic!Init, Atomic!Calls, Calls

LEMMA StepAtomic ==
    ASSUME TypeOK, StageInv, PieceInv, PieceInv', TypeOK', NEW c \in Calls, StepOf(c)
    PROVE  Atomic!Next \/ UNCHANGED Atomic!vars
<1>0. c \in Atomic!Calls
  BY DEF Atomic!Calls, Calls
<1>1. VisibleText = TextOf(file) /\ VisibleText' = TextOf(file')
  BY ReaderSees DEF PieceInv, VisibleText
<1>2. outcome' = [outcome EXCEPT ![c] = Outcome(c)'] /\ outcome[c] = Outcome(c)
  BY OutcomeChanges DEF outcome
<1>3. Stages(c) /\ (c \notin Hasty => Patient(c)) /\ Pieces(c)
  BY DEF StageInv, PieceInv
<1>4. ASSUME Outcome(c)' = Outcome(c)
      PROVE  outcome' = outcome
  BY <1>2, <1>4 DEF outcome
<1>5. CASE c \in Writers /\ Write(c)
  <2>1. file' = file /\ seen' = seen /\ landed' = landed
    BY <1>5 DEF Write
  <2>2. Outcome(c) = "none" /\ Outcome(c)' = "open"
    BY <1>5 DEF Write, Put, Outcome, TypeOK
  <2>3. c \notin Editors /\ seen[c] = {}
    BY <1>3, <1>5, CallsAssumption DEF Pieces
  <2>4. seen' = [seen EXCEPT ![c] = {}]
    BY <2>1, <2>3 DEF TypeOK
  <2>5. Atomic!Begin(c)
    BY <1>1, <1>2, <2>1, <2>2, <2>3, <2>4 DEF Atomic!Begin, outcome
  <2> QED  BY <1>0, <2>5 DEF Atomic!Next
<1>6. CASE c \in Editors /\ Edit(c)
  <2>1. file' = file /\ seen' = [seen EXCEPT ![c] = TextOf(file)] /\ landed' = landed
    BY <1>6 DEF Edit
  <2>2. Outcome(c) = "none" /\ Outcome(c)' = "open"
    BY <1>6 DEF Edit, Put, Outcome, TypeOK
  <2>3. Atomic!Begin(c)
    BY <1>1, <1>2, <1>6, <2>1, <2>2 DEF Atomic!Begin, outcome
  <2> QED  BY <1>0, <2>3 DEF Atomic!Next
<1>7. CASE c \in Editors /\ EditRefused(c)
  <2>1. file' = file /\ seen' = seen /\ landed' = landed
    BY <1>7 DEF EditRefused
  <2>2. Outcome(c) = "none" /\ Outcome(c)' = "failed"
    BY <1>7 DEF EditRefused, At, Outcome, TypeOK
  <2>3. Atomic!Refuse(c)
    BY <1>1, <1>2, <2>1, <2>2 DEF Atomic!Refuse, outcome
  <2> QED  BY <1>0, <2>3 DEF Atomic!Next
<1>8. CASE OnVM(c) /\ ~ (Rename(c) /\ tmp[c] # NoFile)
  <2>1. file' = file /\ seen' = seen /\ landed' = landed /\ call' = call
    BY <1>8 DEF OnVM, AppendPiece, AppendFails, Rename, RenameFails, Remove, RemoveFails
  <2>2. outcome' = outcome
    BY <2>1 DEF outcome, Outcome
  <2> QED  BY <1>1, <2>1, <2>2 DEF Atomic!vars, outcome
<1>9. CASE Rename(c) /\ tmp[c] # NoFile
  <2>1. script[c] = "rename" /\ tmp[c] = Whole(call[c].text, Chunks(c))
    BY <1>3, <1>9 DEF Rename, Pieces
  <2>2. file' = Whole(call[c].text, Chunks(c)) /\ landed' = landed \cup {c} /\ seen' = seen /\ call' = call
    BY <1>9, <2>1 DEF Rename
  <2>3. call[c].text = seen[c] \cup {c} /\ c \notin landed
    BY <1>3, <2>1 DEF Pieces
  <2>4. VisibleText' = seen[c] \cup {c}
    BY <1>1, <2>2, <2>3, WholeText, ChunksType
  <2>5. outcome' = outcome
    BY <2>2 DEF outcome, Outcome
  <2>6. Outcome(c) = "open" \/ (c \in Hasty /\ Outcome(c) = "failed")
    BY <1>3, <2>1 DEF Stages, Patient, Outcome, TypeOK
  <2>7. Atomic!Land(c)
    BY <1>2, <2>2, <2>3, <2>4, <2>5, <2>6 DEF Atomic!Land, outcome
  <2> QED  BY <1>0, <2>7 DEF Atomic!Next
<1>10. CASE NextChunk(c) \/ Failed(c)
  <2>1. file' = file /\ seen' = seen /\ landed' = landed
    BY <1>10 DEF NextChunk, Failed
  <2>2. Outcome(c)' = Outcome(c)
    BY <1>10 DEF NextChunk, Failed, At, Outcome, TypeOK
  <2> QED  BY <1>1, <1>4, <2>1, <2>2 DEF Atomic!vars, outcome
<1>11. CASE Done(c)
  <2>1. file' = file /\ seen' = seen /\ landed' = landed /\ script[c] = "ok" /\ ~ (call[c].chunk < Chunks(c))
    BY <1>11 DEF Done, Answered, MoreToSend
  <2>2. Outcome(c) = "open" /\ Outcome(c)' = "done"
    BY <1>11 DEF Done, At, Outcome, TypeOK
  <2>3. c \in landed
    BY <1>3, <2>1, ChunksType DEF Pieces, Stages
  <2>4. Atomic!Succeed(c)
    BY <1>1, <1>2, <2>1, <2>2, <2>3 DEF Atomic!Succeed, outcome
  <2> QED  BY <1>0, <2>4 DEF Atomic!Next
<1>12. CASE CleanedUp(c)
  <2>1. file' = file /\ seen' = seen /\ landed' = landed
    BY <1>12 DEF CleanedUp
  <2>2. Outcome(c) = "open" /\ Outcome(c)' = "failed"
    BY <1>12 DEF CleanedUp, At, Outcome, TypeOK
  <2>3. Atomic!Fail(c)
    BY <1>1, <1>2, <2>1, <2>2 DEF Atomic!Fail, outcome
  <2> QED  BY <1>0, <2>3 DEF Atomic!Next
<1> QED  BY <1>5, <1>6, <1>7, <1>8, <1>9, <1>10, <1>11, <1>12 DEF StepOf, Called, OnVM, InServer

LEMMA NextAtomic ==
    TypeOK /\ StageInv /\ PieceInv /\ (TypeOK /\ PieceInv)' /\ [Next]_vars => [Atomic!Next]_(Atomic!vars)
<1> SUFFICES ASSUME TypeOK, StageInv, PieceInv, TypeOK', PieceInv', [Next]_vars
             PROVE  Atomic!Next \/ UNCHANGED Atomic!vars
  OBVIOUS
<1>1. CASE UNCHANGED vars
  <2>1. VisibleText' = VisibleText
    BY <1>1 DEF vars, VisibleText, NoPartialFile
  <2>2. outcome' = outcome
    BY <1>1 DEF vars, outcome, Outcome
  <2> QED  BY <1>1, <2>1, <2>2 DEF vars, Atomic!vars, outcome
<1> QED  BY <1>1, OneStep, StepAtomic

----------------------------------------------------------------------------
(***************************************************************************)
(* The theorems.                                                           *)
(***************************************************************************)

\* Every variable has its type, whatever calls run at once and however their
\* scripts fail (writeFile, editFile, put, cleanup).
THEOREM TypeCorrect == Spec => []TypeOK
<1> QED  BY InitType, NextType, PTL DEF Spec

\* A call that waits for its scripts leaves a temporary file only when its
\* cleanup failed (put, cleanup).
THEOREM LitterSafety == Spec => []NoLitter
<1>1. TypeOK /\ StageInv => NoLitter
  <2> SUFFICES ASSUME StageInv, NEW c \in Calls \ Hasty, call[c].at \in {"done", "failed"}, tmp[c] # NoFile,
                      TypeOK
               PROVE  rm[c] = "bad"
    BY DEF NoLitter
  <2>1. Stages(c) /\ Patient(c)
    BY DEF StageInv
  <2> QED  BY <2>1 DEF Stages, Patient, TypeOK
<1> QED  BY <1>1, InitType, NextType, StageInit, StageNext, PTL DEF Spec

\* Readers never see a partial file, if the calls that are given up on send
\* one chunk (put).
THEOREM WholeFiles ==
    ASSUME Hasty \subseteq Short
    PROVE  Spec => []NoPartialFile
<1>1. PieceInv => NoPartialFile
  BY DEF PieceInv
<1>2. TypeOK /\ StageInv /\ PieceInv /\ [Next]_vars => PieceInv'
  BY PieceNext
<1> QED  BY <1>1, <1>2, InitType, NextType, StageInit, StageNext, PieceInit, PTL DEF Spec

\* Under the same assumption the calls take effect at one instant or not at
\* all (writeFile, editFile, put).
THEOREM AtomicCalls ==
    ASSUME Hasty \subseteq Short
    PROVE  Spec => AtomicSpec
<1>1. TypeOK /\ StageInv /\ PieceInv /\ [Next]_vars => PieceInv'
  BY PieceNext
<1> QED  BY <1>1, InitType, NextType, StageInit, StageNext, PieceInit, InitAtomic, NextAtomic, PTL
         DEF Spec, AtomicSpec, Atomic!Spec

============================================================================
