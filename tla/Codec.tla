-------------------------------- MODULE Codec --------------------------------
(***************************************************************************)
(* Data to blocks and back (Codec.js, DataStitcher.js,                     *)
(* MetadataExtractor.js): the text of the root block is cut into blocks    *)
(* from its end, their hashes are appended to what is left, and so on      *)
(* until it fits into a block itself; to read the data again the blocks    *)
(* are gone through with a queue of hashes.                                *)
(*                                                                         *)
(* A text is a sequence of characters: those of the data are <<0, d>>, the *)
(* ones of a link to block h <<h, j>>, where <<h, 0>> is the newline that  *)
(* comes before the hash. So it shows when a link is cut. The hash of a    *)
(* text is its number among those saved, the same for the same text.       *)
(***************************************************************************)
EXTENDS Integers, FiniteSets, SequencesExt

CONSTANTS
  SIZE,            \* Block.SIZE
  MAX_NUM_LINKS,   \* Block.MAX_NUM_LINKS
  HashLength,      \* the characters of a hash
  MaxLength,       \* bound: the length of the data, in base64
  None

\* createBlocks rejects links that do not fit into a block; these do.
ASSUME CodecAssumption ==
  /\ {SIZE, MAX_NUM_LINKS, HashLength} \subseteq Nat \ {0}
  /\ MAX_NUM_LINKS * (HashLength + 1) <= SIZE
  /\ HashLength + 1 < SIZE
  /\ MaxLength \in Nat
  /\ None \notin Nat /\ None \notin Seq({0} \X Nat)

VARIABLES
  data,     \* the data that are saved, in base64
  root,     \* the text of the root block while it is cut
  blocks,   \* the texts of the blocks saved
  hash,     \* the hash of the root block, once it is saved
  queue,    \* DataStitcher's hashes, with the CURRENT_HASH at its end
  out       \* what was read, once the reading has begun

-----------------------------------------------------------------------------
(* The text of a block.                                                    *)

IsNewline(c) == c[1] > 0 /\ c[2] = 0

LinkText(h) == [j \in 1..(HashLength + 1) |-> <<h, j - 1>>]

Newlines(text) == {p \in DOMAIN text : IsNewline(text[p])}

\* What comes before the first newline (STATE_DATA).
DataPart(text) == SubSeq(text, 1, Min(Newlines(text) \cup {Len(text) + 1}) - 1)

\* The hash in the characters after the newline at p, up to the next one or
\* the end; None if they are not the hash of any block.
HashAfter(text, p) ==
  LET h == text[p][1]
      end == p + HashLength
  IN  IF /\ end <= Len(text)
         /\ SubSeq(text, p, end) = LinkText(h)
         /\ end = Len(text) \/ end + 1 \in Newlines(text)
        THEN h ELSE None

\* The place of the i-th newline.
Newline(text, i) ==
  CHOOSE p \in Newlines(text) :
    Cardinality({q \in Newlines(text) : q <= p}) = i

\* The links of a text, in their order (STATE_LINKS).
LinksOf(text) ==
  [i \in 1..Cardinality(Newlines(text)) |-> HashAfter(text, Newline(text, i))]

-----------------------------------------------------------------------------
(* createBlocks.                                                           *)

\* As many times SIZE as fit before the length gets to 0.
NumLinks == IF root = << >> THEN 0
            ELSE LET most == (Len(root) - 1) \div SIZE
                 IN  IF most < MAX_NUM_LINKS THEN most ELSE MAX_NUM_LINKS

\* Mutant: the end is read too (end is not made inclusive).
ChunkInclusive(start, i) ==
  SubSeq(root, start + (i - 1) * SIZE + 1,
         IF start + i * SIZE < Len(root) THEN start + i * SIZE + 1 ELSE Len(root))

\* The i-th of the chunks that are cut off.
Chunk(start, i) ==
  SubSeq(root, start + (i - 1) * SIZE + 1, start + i * SIZE)

\* Saves a text (Block.save): one that is there already gets the same hash.
With(saved, text) ==
  IF Contains(saved, text) THEN saved ELSE Append(saved, text)

HashOf(saved, text) == CHOOSE h \in DOMAIN saved : saved[h] = text

\* The first n chunks are saved.
Saved(start, n) ==
  LET saved[i \in 0..n] == IF i = 0 THEN blocks
                           ELSE With(saved[i - 1], Chunk(start, i))
  IN  saved[n]

\* The root block up to where the links are written (createWriteStream(length)
\* sets its length).
Left(start) == SubSeq(root, 1, start)

Links(hashes) == FlattenSeq([i \in DOMAIN hashes |-> LinkText(hashes[i])])

\* One round: the blocks are saved in any order, the hashes come in that of
\* the chunks.
CutOff ==
  LET n     == NumLinks
      start == Len(root) - n * SIZE
  IN  /\ hash = None
      /\ n > 0
      /\ blocks' = Saved(start, n)
      /\ root' = Left(start)
                    \o Links([i \in 1..n |-> HashOf(blocks', Chunk(start, i))])
      /\ UNCHANGED <<data, hash, queue, out>>

\* No links to create any more.
SaveRoot ==
  /\ hash = None
  /\ NumLinks = 0
  /\ blocks' = With(blocks, root)
  /\ hash' = HashOf(blocks', root)
  /\ UNCHANGED <<data, root, queue, out>>

-----------------------------------------------------------------------------
(* decode, with a DataStitcher.                                            *)

Decode ==
  /\ hash # None
  /\ out = None
  /\ out' = << >>
  /\ queue' = <<hash>>
  /\ UNCHANGED <<data, root, blocks, hash>>

\* Mutant: every hash is put first in the queue.
EnqueueFirst(hashes, links) == Reverse(links) \o hashes

Enqueue(hashes, links) == hashes \o links

\* The next block of the queue goes by. A hash that is none is no block's.
ReadBlock ==
  /\ queue # << >>
  /\ Head(queue) # None
  /\ LET text == blocks[Head(queue)]
     IN  /\ out' = out \o DataPart(text)
         /\ queue' = Enqueue(Tail(queue), LinksOf(text))
  /\ UNCHANGED <<data, root, blocks, hash>>

-----------------------------------------------------------------------------
\* All the characters of the data different, or all the same.
CodecInit ==
  /\ \E length \in 0..MaxLength :
       \/ data = [i \in 1..length |-> <<0, i>>]
       \/ data = [i \in 1..length |-> <<0, 0>>]
  /\ root = data
  /\ blocks = << >>
  /\ hash = None
  /\ queue = << >>
  /\ out = None

-----------------------------------------------------------------------------
(* Properties.                                                             *)

\* The last part says that MetadataExtractor never finds a block too long.
CodecTypeOK ==
  /\ hash = None \/ hash \in DOMAIN blocks
  /\ \A i \in DOMAIN queue : queue[i] \in DOMAIN blocks
  /\ \A h \in DOMAIN blocks : Len(blocks[h]) <= SIZE

\* What decode is to do, as its comment says: the data of a block, then the
\* same for each of its links. A link is to a block saved earlier.
Reading[h \in DOMAIN blocks] ==
  LET links == LinksOf(blocks[h])
  IN  DataPart(blocks[h])
        \o FlattenSeq([i \in DOMAIN links |-> Reading[links[i]]])

\* Whatever has been cut off, the data can be read from the root block: no
\* round cuts the links of the one before, or takes a part twice.
NothingLost ==
  LET text  == IF hash = None THEN root ELSE blocks[hash]
      links == LinksOf(text)
  IN  /\ None \notin ToSet(links)
      /\ data = DataPart(text)
                  \o FlattenSeq([i \in DOMAIN links |-> Reading[links[i]]])

\* What has been read is how the data begin.
ReadInOrder == out # None => IsPrefix(out, data)

\* All the data have been read, and all the blocks (blocks/example.js compares
\* them).
ReadAll == out # None /\ queue = << >> /\ out = data

=============================================================================
