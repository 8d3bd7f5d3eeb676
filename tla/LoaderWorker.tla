---------------------------- MODULE LoaderWorker ----------------------------
(***************************************************************************)
(* A loader worker: one file read from the network in segments of any      *)
(* size, cut into records, and posted to the page in batches.              *)
(*                                                                         *)
(* A file is [name, format, ext, source, declared, length, layout, packed] *)
(* On the wire it is `length' cells: HeaderLen cells of header, then       *)
(* RecLen cells for each point, <<f, r, i>> being cell i of point r of the *)
(* file named f; compressed PCD has the first cell of all points, then the *)
(* second, and E57File says what an E57 file is.  `declared' is the number *)
(* of points its header announces.  A point is the sequence of the cells   *)
(* it was decoded from: one whose bytes are missing is a shorter sequence. *)
(*                                                                         *)
(* What runs between two awaits of the script is one step: a read and what *)
(* follows it, or the timer between two batches and what follows it.       *)
(***************************************************************************)
EXTENDS E57File

CONSTANTS HeaderLen,    \* cells of a header
          MagicLen,     \* cells of the signature a header begins with
          ChunkSize,    \* points of a batch
          LazChunk,     \* points of a compressed LAZ chunk
          PointBudget   \* the budget the page sends with the request

ASSUME LoaderAssumption ==
  /\ {HeaderLen, ChunkSize, LazChunk, PointBudget} \subseteq Nat \ {0}
  /\ MagicLen \in 1 .. HeaderLen

Least(a, b) == IF a < b THEN a ELSE b

----------------------------------------------------------------------------
(* The file on the wire. *)

Cell(f, i) ==
  LET b == i - HeaderLen - 1
  IN CASE i <= HeaderLen            -> <<f.name, HeaderMark, i>>
       [] f.format = "pcdPacked"    -> <<f.name, (b % f.declared) + 1, (b \div f.declared) + 1>>
       [] OTHER                     -> <<f.name, (b \div RecLen) + 1, (b % RecLen) + 1>>

(* All of the file, and what there is of it. *)
Cells(f) == IF f.format = "e57" THEN E57Cells(f)
            ELSE [i \in 1 .. HeaderLen + f.declared * RecLen |-> Cell(f, i)]

Wire(f) == SubSeq(Cells(f), 1, f.length)

Record(f, r) == [i \in 1 .. RecLen |-> <<f.name, r, i>>]

(* The records a file holds, whole. *)
Whole(f) == CASE f.format = "e57"      -> f.declared
              [] f.length < HeaderLen  -> 0
              [] OTHER                 -> (f.length - HeaderLen) \div RecLen

(* A file that is all there. *)
Sound(f) == f.length = Len(Cells(f))

----------------------------------------------------------------------------
(* The parser the script chooses: from the extension, which an object URL  *)
(* has not, from the hint the page appends to it, or from the first bytes: *)
(* those of the first read, `first' cells, however few they are.           *)

Path(f) == IF f.source = "url" THEN f.ext ELSE "none"
Hint(f) == IF f.source = "file" /\ f.ext \in {"las", "laz"} THEN f.ext ELSE "none"

FamilyOf(format) ==
  CASE format \in {"las", "laz", "lazStream"}          -> "las"
    [] format \in {"ply", "plyText"}                   -> "ply"
    [] format \in {"pcd", "pcdText", "pcdPacked"}      -> "pcd"
    [] OTHER                                           -> format

Sniffed(w) ==
  IF w.first >= MagicLen /\ FamilyOf(w.file.format) \in {"las", "ply"}
  THEN FamilyOf(w.file.format) ELSE "xyz"

Family(w) ==
  CASE w.loader = "e57"                                          -> "e57"
    [] {Path(w.file), Hint(w.file)} \cap {"las", "laz"} # {}      -> "las"
    [] Path(w.file) = "ply"                                      -> "ply"
    [] w.loader = "base" /\ Path(w.file) = "pcd"                 -> "pcd"
    [] OTHER -> IF w.loader = "base" /\ Path(w.file) # "xyz" THEN Sniffed(w) ELSE "xyz"

(* The loader has found the parser of the file's format, and can read it. *)
Recognised(w) ==
  /\ Family(w) = FamilyOf(w.file.format)
  /\ w.file.format \in {"laz", "lazStream"} => w.loader = "laz"

(* How the chosen parser goes about the file: another format is refused by *)
(* the E57 script and taken for text by the others.                        *)
Parser(w) ==
  IF Family(w) # FamilyOf(w.file.format) THEN IF w.loader = "e57" THEN "e57Only" ELSE "xyz"
  ELSE IF w.loader = "laz" /\ w.file.format = "las" THEN "lasAtOnce" ELSE w.file.format

(* Read to the end before the first point is posted. *)
Buffered == {"xyz", "plyText", "pcdText", "pcdPacked", "lazStream", "e57"}

(* LASZip cannot skip: every stride-th point is kept to fit the budget. *)
Stride(n) == IF n > PointBudget THEN (n + PointBudget - 1) \div PointBudget ELSE 1

----------------------------------------------------------------------------
(* The state of a worker, and what its steps post. *)

Start(id, loader, f) ==
  [load |-> id, loader |-> loader, file |-> f, got |-> 0, first |-> 0, carry |-> <<>>, header |-> FALSE,
   done |-> FALSE, plan |-> <<>>, parsed |-> 0, total |-> 0, phase |-> "fetch"]

Post(w, type, points) ==
  [type |-> type, load |-> w.load, points |-> points, total |-> w.total,
   parsed |-> w.parsed + Len(points)]

Step(w, out) == [worker |-> w, out |-> out]

Fails(w) == Step([w EXCEPT !.phase = "over"], <<Post(w, "ERROR", <<>>)>>)
Ends(w)  == Step([w EXCEPT !.phase = "over"], <<Post(w, "DONE", <<>>)>>)
Reads(w) == Step([w EXCEPT !.phase = "read"], <<>>)

(* The first n points of the carry, every stride-th of which is kept, or   *)
(* the next scan; cells that are not there are missing.                    *)
Cut(w, n, stride) ==
  LET first(i) == (i - 1) * stride * RecLen
  IN CASE Parser(w) = "e57" -> DecodeScan(w.file, w.carry, ScanDue(w.file, w.parsed)[1])
       [] Parser(w) = "pcdPacked" ->
            [i \in 1 .. n |-> [j \in 1 .. RecLen |-> w.carry[(j - 1) * w.total + i]]]
       [] OTHER ->
            [i \in 1 .. n |-> SubSeq(w.carry, first(i) + 1, Least(first(i) + RecLen, Len(w.carry)))]

(* How many points can be cut from the carry now. *)
Lines(w) == (Len(w.carry) + RecLen - 1) \div RecLen
Slice(w) ==
  LET p == Parser(w)
      left == w.total - w.parsed
  IN CASE p = "lasAtOnce"                   -> left
       [] p = "e57" -> IF left = 0 THEN 0 ELSE ScanDue(w.file, w.parsed)[1].count
       [] p \in {"plyText", "pcdText"}      -> IF w.done THEN Least(Lines(w), left) ELSE 0
       [] p \in Buffered                    -> IF w.done THEN left ELSE 0
       [] p = "laz" /\ left <= LazChunk     -> IF w.done THEN left ELSE 0
       [] p = "laz" -> IF w.done \/ Len(w.carry) >= LazChunk * RecLen THEN LazChunk ELSE 0
       [] OTHER                             -> Least(Len(w.carry) \div RecLen, left)

Rest(w, n) == IF Parser(w) = "e57" THEN w.carry
              ELSE SubSeq(w.carry, n * RecLen + 1, Len(w.carry))

(* Post one batch of the plan; the timer that follows is the next step.  A *)
(* view past the end of the buffer throws, and the script reports it.      *)
Batch(w) == SubSeq(w.plan, 1, Least(ChunkSize, Len(w.plan)))
Emit(w) ==
  LET b == Batch(w)
  IN IF Parser(w) = "lasAtOnce" /\ \E i \in DOMAIN b : Len(b[i]) < RecLen
     THEN Fails(w)
     ELSE Step([w EXCEPT !.plan = SubSeq(@, Len(b) + 1, Len(@)), !.parsed = @ + Len(b),
                         !.phase = "emit"],
               <<Post(w, "CHUNK", b)>>)

(* What the script does once the points at hand are posted. *)
Continue(w) ==
  LET n == Slice(w)
      s == IF w.file.format = "lazStream" THEN Stride(w.file.declared) ELSE 1
  IN IF n > 0
     THEN Emit([w EXCEPT !.plan = Cut(w, n, s), !.carry = Rest(w, n * s)])
     ELSE IF w.done \/ (w.parsed >= w.total /\ Parser(w) \notin Buffered \cup {"ply"})
          THEN Ends(w) ELSE Reads(w)

(* The script has no decoder for what the header says follows. *)
Refused(w) ==
  \/ Parser(w) = "e57Only"
  \/ w.loader = "base" /\ Parser(w) \in {"laz", "lazStream"}

(* The points the header announces: text is counted, the others say.       *)
Announced(w) == IF Parser(w) = "xyz" THEN Lines(w) ELSE w.file.declared

(* The points that are to be posted: a LAZ stream is thinned. *)
Planned(w) ==
  LET d == w.file.declared
  IN IF Parser(w) = "lazStream" THEN (d + Stride(d) - 1) \div Stride(d) ELSE Announced(w)

(* The header is read: HEADER tells the page how many points to expect.    *)
OpenHeader(w) ==
  LET p == Parser(w)
      h == [w EXCEPT !.header = TRUE, !.carry = IF p = "e57" THEN @ ELSE SubSeq(@, HeaderLen + 1, Len(@))]
      t == [h EXCEPT !.total = Planned(h)]
      go == IF p \in {"pcdText", "pcdPacked"} \/ (p = "pcd" /\ t.total > 0) THEN Reads(t) ELSE Continue(t)
  IN IF Refused(w) THEN Fails(w) ELSE [go EXCEPT !.out = <<[Post(t, "HEADER", <<>>) EXCEPT !.total = Announced(h)]>> \o @]

(* What follows a read: the header is looked for until it is whole. *)
HeaderHere(w) ==
  CASE Parser(w) = "xyz" -> w.done
    [] Parser(w) = "e57" -> w.done /\ HasXml(w.carry)
    [] Parser(w) = "e57Only" -> w.done
    [] OTHER                            -> Len(w.carry) >= HeaderLen

BugShortSoFar(w) ==
  Parser(w) = "pcdPacked" /\ Len(w.carry) < w.total * RecLen
Short(w) ==
  Parser(w) = "pcdPacked" /\ w.done /\ Len(w.carry) < w.total * RecLen

Process(w) ==
  IF w.header THEN IF Short(w) THEN Fails(w) ELSE Continue(w)
  ELSE IF HeaderHere(w) THEN OpenHeader(w)
  ELSE IF w.done THEN Fails(w) ELSE Reads(w)

(***************************************************************************)
(* The worker's steps.  A read brings k cells, or the end of the stream.   *)
(***************************************************************************)
Answered(w, ok) == IF ok THEN Reads(w) ELSE Fails(w)

Received(w, k) ==
  Process([w EXCEPT !.carry = @ \o SubSeq(Wire(w.file), w.got + 1, w.got + k),
                    !.got = @ + k, !.first = IF w.got = 0 THEN k ELSE @, !.done = k = 0])

TimerFires(w) == IF w.plan # <<>> THEN Emit(w) ELSE Continue(w)
=============================================================================
