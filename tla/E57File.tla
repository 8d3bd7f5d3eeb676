------------------------------ MODULE E57File ------------------------------
(***************************************************************************)
(* An E57 file and how its loader reads it (src/parsers/e57-worker-blob.ts)*)
(*                                                                         *)
(* The file is divided into pages, each with a checksum for its last cell. *)
(* Offsets in the file count these cells, lengths do not.  Without them,   *)
(* it is a header, the scans and the XML that lists the scans; a scan is a *)
(* section header and packets, each a packet header, which lists the       *)
(* lengths of the streams that follow it: one per field, with the values   *)
(* of that field for the packet's points.                                  *)
(*                                                                         *)
(* A file has a `layout': the scans, each the sequence of its packets,     *)
(* each the number of its points, none for an index packet; and `packed',  *)
(* how many values of the first field share a cell.  Of the file named f,  *)
(* cell <<f, r, i>> is field i of point r, counted through the whole file, *)
(* <<f, r, 1, s>> the first field of the points from r to s; the others    *)
(* have a negative number for r.                                           *)
(***************************************************************************)
EXTENDS Integers, Sequences
LOCAL INSTANCE SequencesExt
LOCAL INSTANCE FiniteSetsExt

CONSTANTS RecLen,    \* cells of a point record
          PageSize   \* cells of a page, with the checksum

ASSUME E57Assumption == RecLen \in Nat \ {0} /\ PageSize \in Nat \ {0, 1}

HeaderMark == -1
SectionMark == -2
PacketMark == -3   \* followed by the lengths of the packet's streams
IndexBody == -4
XmlMark == -5
Checksum == -6
Blank == -7        \* what pads the last page

Nothing(f) == <<f.name, Blank, 0>>
Payload == PageSize - 1
Total(counts) == FoldLeft(+, 0, counts)

-----------------------------------------------------------------------------
(* The file, as a scanner writes it. *)

Lengths(f, n) ==
  [i \in 1 .. RecLen |-> IF i > 1 THEN n ELSE (n + f.packed - 1) \div f.packed]

FirstField(f, first, n) ==
  [j \in 1 .. Lengths(f, n)[1] |->
     LET r == (j - 1) * f.packed IN <<f.name, first + r, 1, first + Min({n, r + f.packed}) - 1>>]

Packet(f, first, n) ==
  IF n = 0 THEN <<<<f.name, PacketMark, <<>>>>, <<f.name, IndexBody, 0>>>>
  ELSE <<<<f.name, PacketMark, Lengths(f, n)>>>> \o FirstField(f, first, n)
       \o [j \in 1 .. n * (RecLen - 1) |-> <<f.name, first + ((j - 1) % n), ((j - 1) \div n) + 2>>]

PointsBefore(f, s) == Total([i \in 1 .. s - 1 |-> Total(f.layout[i])])
Section(f, s) ==
  <<<<f.name, SectionMark, s>>>> \o
  FlattenSeq([p \in DOMAIN f.layout[s] |->
    Packet(f, PointsBefore(f, s) + Total(SubSeq(f.layout[s], 1, p - 1)) + 1, f.layout[s][p])])

Logical(f) ==
  <<<<f.name, HeaderMark, 0>>>> \o FlattenSeq([s \in DOMAIN f.layout |-> Section(f, s)])
    \o <<<<f.name, XmlMark, 0>>>>

(* Places count from zero.  Where a place of the logical file is in pages: *)
Physical(place) == (place \div Payload) * PageSize + (place % Payload)

E57Cells(f) ==
  LET cells == Logical(f)
      pages == (Len(cells) + Payload - 1) \div Payload
      cell(place) == IF place < Len(cells) THEN cells[place + 1] ELSE Nothing(f)
  IN [i \in 1 .. pages * PageSize |->
        IF i % PageSize = 0 THEN <<f.name, Checksum, i \div PageSize>>
        ELSE cell(((i - 1) \div PageSize) * Payload + ((i - 1) % PageSize))]

(* fileOffset of a scan: the place of its section, in pages.               *)
FileOffset(f, s) ==
  Physical(1 + Total([i \in 1 .. s - 1 |-> Len(Section(f, i))]))

-----------------------------------------------------------------------------
(* The loader. *)

(* physToLogical: a place on a checksum becomes the one before it. *)
BugNoPages(place) == place
ToLogical(place) ==
  LET intra == place % PageSize
  IN (place \div PageSize) * Payload + (IF intra < Payload THEN intra ELSE Payload - 1)

(* stripE57Crc *)
Stripped(f, cells) ==
  [i \in 1 .. ((Len(cells) + PageSize - 1) \div PageSize) * Payload |->
     IF Physical(i - 1) < Len(cells) THEN cells[Physical(i - 1) + 1] ELSE Nothing(f)]

(* parseE57FileHeader and parseE57Scans: the header must point at XML that *)
(* is in the file.                                                         *)
HasXml(cells) == \E i \in DOMAIN cells : cells[i][2] = XmlMark

(* A scan starts right behind its section header, so one cell further, in  *)
(* pages, than its offset.                                                 *)
Scans(f) ==
  SelectSeq([s \in DOMAIN f.layout |->
               [count |-> Total(f.layout[s]), at |-> ToLogical(FileOffset(f, s) + 1),
                before |-> PointsBefore(f, s)]],
            LAMBDA scan : scan.count > 0)

(* decodeE57Packets: the points of the packets from a place on.  It stops  *)
(* at what is no packet, and the points that are missing stay at the       *)
(* origin.                                                                 *)
Origin(f) == [i \in 1 .. RecLen |-> Nothing(f)]

(* Its count is what the first stream has room for, padding included, but  *)
(* no more points than are left.                                           *)
Count(f, lengths, left) == Min({lengths[1] * f.packed, left})

(* Value number k, from zero, of stream i, which starts at a place. *)
Value(f, cells, i, start, k) ==
  LET place == start + (IF i > 1 THEN k ELSE k \div f.packed)
      cell  == cells[place + 1]
      r     == cell[2] + (k % f.packed)
  IN CASE place >= Len(cells)              -> Nothing(f)
       [] i > 1                            -> cell
       [] Len(cell) = 4 /\ r <= cell[4]    -> <<f.name, r, 1>>
       [] OTHER                            -> Nothing(f)

RECURSIVE PacketsFrom(_, _, _, _)
PacketsFrom(f, cells, place, left) ==
  IF left = 0 THEN <<>>
  ELSE IF place >= Len(cells) \/ cells[place + 1][2] # PacketMark
  THEN [i \in 1 .. left |-> Origin(f)]
  ELSE LET lengths == cells[place + 1][3]
           count == Count(f, lengths, left)
           start(i) == place + 1 + Total(SubSeq(lengths, 1, i - 1))
       IN IF lengths = <<>> THEN PacketsFrom(f, cells, place + 2, left)
          ELSE [r \in 1 .. count |-> [i \in 1 .. RecLen |-> Value(f, cells, i, start(i), r - 1)]]
               \o PacketsFrom(f, cells, start(RecLen + 1), left - count)

DecodeScan(f, cells, scan) == PacketsFrom(f, Stripped(f, cells), scan.at, scan.count)

(* The scan that is due after so many points were posted. *)
ScanDue(f, parsed) == SelectSeq(Scans(f), LAMBDA scan : scan.before = parsed)
=============================================================================
