------------------------------- MODULE Archive -------------------------------
(***************************************************************************)
(* A battle's way through a .tar.xz and back: the ustar container that     *)
(* src/replay_export.c writes, the buffers of src/compress_worker.c it     *)
(* passes, fed in chunks by src/compress-worker.js, in both directions,    *)
(* and parseTar (src/main.js).                                             *)
(*                                                                         *)
(* A sequence of cells stands for bytes: a block has Block of them, the    *)
(* first of a header says what the header says.                            *)
(***************************************************************************)
EXTENDS Integers, Sequences, FiniteSets, SequencesExt, FiniteSetsExt

CONSTANTS Archives,      \* each a sequence of [name, size]
          Block,         \* 512
          Radix, Digits, \* a size field's: 8 and 11
          LeastTar,      \* 64 KiB, the capacity a tar starts with
          Chunk,         \* CHUNK_SIZE
          LeastBuffer    \* 64 KiB, of the codec's buffers; also the room the decoder is given

ArchiveConstants ==
    /\ {Block, Digits, LeastTar, Chunk, LeastBuffer} \subseteq Nat \ {0} /\ Radix \in Nat \ {0, 1}
    /\ \A a \in Archives : \A i \in DOMAIN a : a[i].size \in 0 .. Radix ^ Digits - 1

VARIABLES archive, phase,
          tar,      \* g_export_tar
          input,    \* g_input
          output,   \* g_output
          fed,      \* of the bytes fed to g_input, or of those read from it
          entries   \* packed so far, or found
vars == <<archive, phase, tar, input, output, fed, entries>>

Empty == [cells |-> <<>>, cap |-> 0]

Init == /\ archive \in Archives /\ phase = "pack" /\ fed = 0 /\ entries = <<>>
        /\ tar = Empty /\ input = Empty /\ output = Empty

-----------------------------------------------------------------------------
(* Growing buffers                                                         *)

\* The capacity, doubled until it is enough.
Grown(cap, need, least) ==
    Min({c \in {(IF cap = 0 THEN least ELSE cap) * 2 ^ k : k \in 0 .. 20} : c >= need})

Ensured(buffer, extra, least) ==
    LET need == Len(buffer.cells) + extra
    IN  IF need <= buffer.cap THEN buffer ELSE [buffer EXCEPT !.cap = Grown(@, need, least)]

\* tar_append_bytes, memcpy: whatever the capacity.
Appended(buffer, cells) == [buffer EXCEPT !.cells = @ \o cells]

\* A realloc may fail wherever there is one.
Fail == phase' = "failed" /\ UNCHANGED <<archive, tar, input, output, fed, entries>>

-----------------------------------------------------------------------------
(* Writing                                                                 *)

Zeros(n) == [i \in 1 .. n |-> <<"zero">>]

\* octal_field, parseOctalField
Octal(value) == [i \in 1 .. Digits |-> (value \div Radix ^ (Digits - i)) % Radix]
Value(digits) == FoldLeft(LAMBDA v, d : v * Radix + d, 0, digits)

Header(e) == <<<<"header", e.name, Octal(e.size)>>>> \o [i \in 1 .. Block - 1 |-> <<"rest">>]
Data(e) == [i \in 1 .. e.size |-> <<"data", e.name, i>>]

Padding(size) == IF size % Block = 0 THEN 0 ELSE Block - (size % Block)

\* Mutated form of Entry: the data is not made room for.
EntryUnensured(t, e) ==
    LET h == Appended(Ensured(t, Block, LeastTar), Header(e))
    IN  Appended(Appended(h, Data(e)), Zeros(Padding(e.size)))

\* tar_add_entry
Entry(t, e) ==
    LET h == Appended(Ensured(t, Block, LeastTar), Header(e))
        d == IF e.size > 0 THEN Appended(Ensured(h, e.size, LeastTar), Data(e)) ELSE h
        n == Padding(e.size)
    IN  IF n = 0 THEN d ELSE Appended(Ensured(d, n, LeastTar), Zeros(n))

\* The end of replay_export_battle: the entries in turn, then tar_finish.
Pack ==
    /\ phase = "pack"
    /\ LET k == Len(entries) + 1
       IN  IF k > Len(archive)
           THEN /\ tar' = Appended(Ensured(tar, 2 * Block, LeastTar), Zeros(2 * Block))
                /\ phase' = "feed" /\ entries' = <<>>
           ELSE /\ \E t \in {Entry(tar, archive[k])} : tar' = t
                /\ entries' = Append(entries, archive[k]) /\ UNCHANGED phase
    /\ UNCHANGED <<archive, input, output, fed>>

-----------------------------------------------------------------------------
(* The codec's worker                                                      *)

\* What the stream the SDK makes of bytes is, here: the bytes and their end.
Encoded(cells) == Append(cells, <<"end">>)

\* feedInput and compress_feed_chunk
Fed(source, then) ==
    LET n == Min({Chunk, Len(source) - fed})
    IN  IF n = 0 THEN phase' = then /\ fed' = 0 /\ UNCHANGED input
        ELSE /\ \E b \in {Ensured(input, n, LeastBuffer)} :
                  input' = Appended(b, SubSeq(source, fed + 1, fed + n))
             /\ fed' = fed + n /\ UNCHANGED phase
Feed == /\ phase = "feed" /\ Fed(tar.cells, "encode")
        /\ UNCHANGED <<archive, tar, output, entries>>

\* compress_finish: the encoder calls MyWrite with as much as it likes.
Encode ==
    /\ phase = "encode"
    /\ LET stream == Encoded(input.cells)
           left   == Len(stream) - Len(output.cells)
       IN  IF left = 0 THEN phase' = "saved" /\ UNCHANGED output
           ELSE /\ \E n \in {1, left} \cup {Min({Block, left})} :
                     output' = Appended(Ensured(output, n, LeastBuffer),
                                        SubSeq(stream, Len(output.cells) + 1, Len(output.cells) + n))
                /\ UNCHANGED phase
    /\ UNCHANGED <<archive, tar, input, fed, entries>>

\* The user picks the file, or what a broken download left of it.  It is read
\* whole and given to a new worker.
Pick ==
    /\ phase = "saved" /\ phase' = "feedback"
    /\ \E n \in {Len(output.cells), Len(output.cells) - 1, Block} :
         tar' = [Empty EXCEPT !.cells = SubSeq(output.cells, 1, n)]
    /\ input' = Empty /\ output' = Empty
    /\ UNCHANGED <<archive, fed, entries>>

FeedBack == /\ phase = "feedback" /\ Fed(tar.cells, "decode")
            /\ UNCHANGED <<archive, tar, output, entries>>

Roomy(b) == IF b.cap - Len(b.cells) < LeastBuffer
            THEN [b EXCEPT !.cap = IF @ = 0 THEN LeastBuffer ELSE 2 * @] ELSE b

\* XzUnpacker_IsStreamWasFinished, once the first k cells have been read.
Finished(k) == input.cells[k] = <<"end">>

\* One turn of decompress_finish: the decoder reads and writes as much as it
\* likes, and asks for more input when it has read all there is.
Decode ==
    /\ phase = "decode"
    /\ \E b \in {Roomy(output)} :
         LET most == Min({b.cap - Len(b.cells), Len(input.cells) - fed})
         IN  \E n \in {Min({1, most}), most} :
               LET k == fed + n
                   wrote == SelectSeq(SubSeq(input.cells, fed + 1, k), LAMBDA c : c # <<"end">>)
               IN  /\ output' = Appended(b, wrote) /\ fed' = k
                   /\ phase' = IF k < Len(input.cells) THEN phase
                               ELSE IF Finished(k) THEN "parse" ELSE "failed"
    /\ UNCHANGED <<archive, tar, input, entries>>

-----------------------------------------------------------------------------
(* Reading                                                                 *)

\* The zero block that ends the archive.
Ends(header) == \A i \in DOMAIN header : header[i] = <<"zero">>

\* The name and the size of a header; a block that is none has no name here.
Read(header) == IF header[1][1] = "header" THEN [name |-> header[1][2], size |-> Value(header[1][3])]
                ELSE [name |-> "", size |-> 0]

Skipped(size) == IF size % Block # 0 THEN Block - (size % Block) ELSE 0

\* One turn of parseTar.
Parse ==
    /\ phase = "parse"
    /\ LET off    == IF entries = <<>> THEN 0 ELSE Last(entries).next
           header == SubSeq(output.cells, off + 1, off + Block)
       IN  IF off + Block > Len(output.cells) \/ Ends(header)
           THEN phase' = "done" /\ UNCHANGED entries
           ELSE LET e    == Read(header)
                    from == off + Block
                IN  /\ entries' = Append(entries,
                         [name |-> e.name, data |-> SubSeq(output.cells, from + 1, from + e.size),
                          next |-> from + e.size + Skipped(e.size)])
                    /\ UNCHANGED phase
    /\ UNCHANGED <<archive, tar, input, output, fed>>

OutOfMemory == phase \in {"pack", "feed", "encode", "feedback", "decode"} /\ Fail

Work == Pack \/ Feed \/ Encode \/ FeedBack \/ Decode \/ Parse
Next == Work \/ Pick \/ OutOfMemory
\* The handlers are loops: they go on.
Fairness == WF_vars(Work)
Spec == Init /\ [][Next]_vars /\ Fairness

-----------------------------------------------------------------------------
\* Types, and no buffer is written past its capacity.
TypeOK ==
    /\ phase \in {"pack", "feed", "encode", "saved", "feedback", "decode", "parse", "done", "failed"}
    /\ fed \in Nat
    /\ phase \in {"pack", "feed", "encode"} => Len(tar.cells) <= tar.cap
    /\ Len(input.cells) <= input.cap /\ Len(output.cells) <= output.cap

\* What comes back is what went in, entry by entry.
RoundTrip == phase = "done" =>
    [i \in DOMAIN entries |-> <<entries[i].name, entries[i].data>>]
        = [i \in DOMAIN archive |-> <<archive[i].name, Data(archive[i])>>]

\* "Basic POSIX ustar", "Verifiable with any real tar/xz": whole blocks, every
\* header at the beginning of one, and two of zeros at the end.
WellFormed == phase = "feed" =>
    /\ Len(tar.cells) % Block = 0
    /\ \A i \in DOMAIN tar.cells : tar.cells[i][1] = "header" => (i - 1) % Block = 0
    /\ \A i \in Len(tar.cells) - 2 * Block + 1 .. Len(tar.cells) : tar.cells[i] = <<"zero">>

\* A file cut short is refused, never taken for a shorter archive.
CutIsRefused == phase \in {"parse", "done"} => Last(tar.cells) = <<"end">>

\* An archive is well formed, is read back whole, and otherwise refused.
ArchivesSurvive == TypeOK /\ RoundTrip /\ WellFormed /\ CutIsRefused

\* Every export and every load comes to an end: each turn finds room to go on.
Ended == phase \in {"saved", "done", "failed"}
Terminates == []<>Ended
=============================================================================
