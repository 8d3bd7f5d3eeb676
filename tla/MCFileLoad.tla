----------------------------- MODULE MCFileLoad -----------------------------
(***************************************************************************)
(* Files for FileLoad: one of three points of each format, files known by  *)
(* their first cells only, and files that end early: in the header, within *)
(* a record, or short of a record.                                         *)
(***************************************************************************)
EXTENDS FileLoad

File(name, format, ext, source, declared, length) ==
  [name |-> name, format |-> format, ext |-> ext, source |-> source, declared |-> declared, length |-> length,
   layout |-> <<>>, packed |-> 1]

(* Two scans, and two pages or more: an index packet between the packets   *)
(* of the first, which end with a cell half full, and a section header     *)
(* that ends no page.                                                      *)
E57(name, layout, declared) ==
  LET f == [File(name, "e57", "e57", "file", declared, 0) EXCEPT !.layout = layout, !.packed = 2]
  IN [f EXCEPT !.length = Len(E57Cells(f))]

SoundFiles ==
  {File(1, "ply", "ply", "file", 3, 8), File(2, "las", "las", "file", 3, 8), File(3, "laz", "laz", "url", 3, 8),
   File(4, "lazStream", "laz", "url", 3, 8), File(5, "pcd", "pcd", "url", 3, 8), File(6, "xyz", "xyz", "url", 3, 8),
   File(7, "pcdPacked", "pcd", "url", 3, 8),
   E57(8, <<<<2, 0, 1>>, <<>>, <<1>>>>, 4)}

BrokenFiles ==
  {File(9, "plyText", "ply", "url", 3, 5), File(10, "pcdText", "pcd", "url", 2, 5),
   File(11, "pcdPacked", "pcd", "url", 2, 5),
   [E57(12, <<<<1>>>>, 1) EXCEPT !.length = @ - 4], File(13, "ply", "ply", "url", 3, 1), File(14, "bad", "none", "none", 0, 0)}

MCFiles == SoundFiles \cup BrokenFiles
=============================================================================
