-------------------------------- MODULE Values --------------------------------
(***************************************************************************)
(* How a peer reads a value it has in order to offer it (Value.js) and to  *)
(* send it in chunks (PartialValueWriteStream.js, KVStore.js). A stream    *)
(* gives the value in reads of its own size: those of a file have 65536    *)
(* bytes, those of the store in memory 16384, chunks 1024, blocks up to    *)
(* 262144. Operators only: a text is the sequence of its places.           *)
(***************************************************************************)
EXTENDS Integers, SequencesExt

CONSTANTS
  ChunkSize,   \* PartialValue.SIZE
  ReadSize,    \* what the stream gives at a time
  MaxValue     \* bound: the length of a value

\* A read is not shorter than a chunk.
ASSUME ValuesAssumption ==
  /\ {ChunkSize, ReadSize} \subseteq Nat \ {0} /\ ChunkSize <= ReadSize
  /\ MaxValue \in Nat

Text(length) == [i \in 1 .. length |-> i]

\* What createDataReadStream gives of a value that is there.
Reads(text) ==
  LET end(i) == IF i * ReadSize < Len(text) THEN i * ReadSize ELSE Len(text)
  IN [i \in 1 .. (Len(text) + ReadSize - 1) \div ReadSize |->
        SubSeq(text, end(i - 1) + 1, end(i))]

\* Value.createFromReadStream: the data of a raw value, or the length of a
\* partial one, are those of currentChunk, the last read. There is none in an
\* empty value: the code throws where nobody catches it.
Value(reads) ==
  LET currentChunk == reads[Len(reads)]
  IN IF Len(FlattenSeq(reads)) > ChunkSize
     THEN [type |-> "partial", data |-> Len(currentChunk)]
     ELSE [type |-> "raw", data |-> currentChunk]

\* The chunks of data are sent, the i-th of all under (i - 1) * SIZE; what is
\* shorter than a chunk remains.
Cut(sent, data) ==
  LET whole == Len(data) \div ChunkSize
  IN [remaining |-> SubSeq(data, whole * ChunkSize + 1, Len(data)),
      sent |-> sent \o [i \in 1 .. whole |->
                 SubSeq(data, (i - 1) * ChunkSize + 1, i * ChunkSize)]]

\* Mutant: what remained of the read before is forgotten.
WriteAlone(stream, chunk) == Cut(stream.sent, chunk)

\* _write: what remained comes before the next read.
Write(stream, chunk) == Cut(stream.sent, stream.remaining \o chunk)

\* forEachPartialValueChunk for all the chunks, _final included.
Chunks(reads) ==
  LET stream[i \in 0 .. Len(reads)] ==
        IF i = 0 THEN [remaining |-> <<>>, sent |-> <<>>]
        ELSE Write(stream[i - 1], reads[i])
      end == stream[Len(reads)]
  IN IF end.remaining = <<>> THEN end.sent ELSE Append(end.sent, end.remaining)

=============================================================================
