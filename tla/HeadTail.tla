----------------------------- MODULE HeadTail -----------------------------
(***************************************************************************)
(* headTail, the writer that keeps the two ends of a command's output in   *)
(* bounded memory (internal/exe/client.go).                                *)
(***************************************************************************)
EXTENDS Integers, Sequences

\* newHeadTail
NewHeadTail(limit) ==
    [head |-> <<>>, tail |-> <<>>, half |-> IF limit > 1 THEN limit \div 2 ELSE 1, total |-> 0]

\* The part of a block that still fits into the head.
Room(h, p) ==
    IF Len(p) < h.half - Len(h.head) THEN Len(p) ELSE h.half - Len(h.head)

\* (A faulty LastOf: the oldest bytes of the tail are kept.)
FirstOf(s, n) == IF Len(s) > n THEN SubSeq(s, 1, n) ELSE s

\* The last n bytes of s: the tail after it was compacted.
LastOf(s, n) == IF Len(s) > n THEN SubSeq(s, Len(s) - n + 1, Len(s)) ELSE s

\* Write: the head is filled first, and the tail slides.
Written(h, p) ==
    [h EXCEPT !.total = @ + Len(p),
              !.head = @ \o SubSeq(p, 1, Room(h, p)),
              !.tail = LastOf(@ \o SubSeq(p, Room(h, p) + 1, Len(p)), h.half)]

\* Bytes: what is kept, and how much was dropped between the two ends.
Kept(h) == h.head \o h.tail
Omitted(h) == h.total - (Len(h.head) + Len(h.tail))

----------------------------------------------------------------------------
(***************************************************************************)
(* The reference: the two ends of a whole output.                          *)
(***************************************************************************)

\* What a buffer of a given half promises of an output s: s itself if it fits,
\* and otherwise as many bytes from either end, the rest being counted.
KeepsEnds(h, s) ==
    IF Len(s) <= 2 * h.half
    THEN Kept(h) = s /\ Omitted(h) = 0
    ELSE /\ h.head = SubSeq(s, 1, h.half)
         /\ h.tail = SubSeq(s, Len(s) - h.half + 1, Len(s))
         /\ Omitted(h) = Len(s) - 2 * h.half

===========================================================================
