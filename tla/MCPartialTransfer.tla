-------------------------- MODULE MCPartialTransfer --------------------------
(* The values of the constants of PartialTransfer's runs, and those of     *)
(* Values, which says how a value is offered and cut into the chunks.      *)
EXTENDS PartialTransfer, Values

CONSTANTS t1, t2

\* Chunks 1, 2 and 10 are at 1024, 2048 and 10240.
AsStrings == <<1, 10, 2>>
Swap      == Permutations({t1, t2})

\* The stream chunk by chunk, with the place of the next one wanted.
Walked(only) ==
  LET wanted == IF only = {} THEN SetToSortSeq(Chunk, LAMBDA c, d : c < d)
                ELSE SelectSeq(SortOrder, LAMBDA c : c \in only)
      See(acc, c) ==
        IF acc.next <= Len(wanted) /\ wanted[acc.next] = c
          THEN [next |-> acc.next + 1, sent |-> acc.sent \cup {c}]
          ELSE acc
  IN  FoldLeft(See, [next |-> 1, sent |-> {}],
               SetToSortSeq(Chunk, LAMBDA c, d : c < d)).sent

\* Sent says what it sends in the end.
ASSUME WalkAssumption == \A only \in SUBSET Chunk : Sent(only) = Walked(only)

\* When chunks are sent, then, wherever the reads of the stream end, each has
\* what is at its place in the value, and together they have all of it
\* (PartialValueWriteStream.js).
ChunksInPlace ==
  (\E m \in net : m.type = "PARTIAL_VALUE_REPLY") =>
    \A length \in 1 .. MaxValue :
      LET chunks == Chunks(Reads(Text(length)))
      IN /\ FlattenSeq(chunks) = Text(length)
         /\ \A i \in 1 .. Len(chunks) - 1 : Len(chunks[i]) = ChunkSize

\* A transfer that begins was told how long the value is: it asks for so many
\* chunks, and what it puts together is compared with what was uploaded
\* (dht/example.js). The one who offers it has the length from Value.js.
LengthTold ==
  \A t \in Transfer : attempts[t] # <<>> =>
    \A length \in 1 .. MaxValue :
      LET value == Value(Reads(Text(length)))
      IN value.type = "partial" => value.data = length

=============================================================================
