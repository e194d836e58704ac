------------------------------ MODULE FileStore ------------------------------
(***************************************************************************)
(* What a SQLite connection may count on from a file of its own: an open   *)
(* file starts empty, holds exactly what was written, a hole reads as      *)
(* zero, a cut part is gone for good, and a write that fails leaves the    *)
(* file as it was.  Two files never touch each other.                      *)
(* MemFile.tla is the VFS that has to deliver this.                        *)
(***************************************************************************)
EXTENDS Naturals

CONSTANTS Files, Byte, Zero, NotOpen, MaxSize

VARIABLE file   \* file[f]: NotOpen, or its bytes as a function on 0..size-1

Content == UNION {[0 .. n - 1 -> Byte] : n \in 0 .. MaxSize}

\* The size of some content: the least offset it has no byte at.
SizeOf(c) == CHOOSE n \in 0 .. MaxSize : DOMAIN c = 0 .. n - 1

\* Content c after n bytes b from offset o: a gap before o is zeroes.
Written(c, o, n, b) ==
    [i \in 0 .. (IF o + n > SizeOf(c) THEN o + n ELSE SizeOf(c)) - 1 |->
        IF i \in o .. o + n - 1 THEN b ELSE IF i \in DOMAIN c THEN c[i] ELSE Zero]

FsInit == file = [f \in Files |-> NotOpen]

FsOpen(f) ==
    /\ file[f] = NotOpen
    /\ file' = [file EXCEPT ![f] = [i \in 0 .. 0 - 1 |-> Zero]]

FsWrite(f) ==
    /\ file[f] # NotOpen
    /\ \E o \in 0 .. MaxSize - 1, b \in Byte : \E n \in 1 .. MaxSize - o :
          file' = [file EXCEPT ![f] = Written(file[f], o, n, b)]

FsTruncate(f) ==
    /\ file[f] # NotOpen
    /\ \E n \in 0 .. SizeOf(file[f]) :
          file' = [file EXCEPT ![f] = [i \in 0 .. n - 1 |-> file[f][i]]]

FsClose(f) ==
    /\ file[f] # NotOpen
    /\ file' = [file EXCEPT ![f] = NotOpen]

\* The worker ends, with whatever files it had.
FsVanish == file' = [f \in Files |-> NotOpen]

FsNext ==
    \/ \E f \in Files : FsOpen(f) \/ FsWrite(f) \/ FsTruncate(f) \/ FsClose(f)
    \/ FsVanish

FsSpec == FsInit /\ [][FsNext]_file
=============================================================================
