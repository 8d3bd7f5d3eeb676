----------------------------- MODULE OpfsCache -----------------------------
(***************************************************************************)
(* OpfsCache (src/copc/opfs-cache.ts): the persistent tile cache, a        *)
(* directory of files with a list of entries in memory, oldest first.      *)
(* set() awaits the file system four times; other calls run in between.    *)
(* Sizes are in tiles: a whole file counts 1, an empty one 0.              *)
(***************************************************************************)
EXTENDS Integers, Sequences, FiniteSets, Functions

CONSTANTS
  Keys, NoKey,
  SetIds,   \* calls of set(), told apart
  MaxBytes, \* _maxBytes
  Failures  \* the file system may fail

ASSUME OpfsConstants ==
  NoKey \notin Keys /\ IsFiniteSet(Keys) /\ MaxBytes \in Nat /\ Failures \in BOOLEAN

VARIABLES
  files,          \* the directory: "absent", "empty" or "whole"
  entries, total, \* _entries, _totalBytes
  sets            \* calls of set() in progress

opfsVars == <<files, entries, total, sets>>

NoSet == [step |-> "none", key |-> NoKey, victim |-> NoKey, copy |-> "absent"]
SizeOf(content) == IF content = "whole" THEN 1 ELSE 0

-----------------------------------------------------------------------------
(* An operator named Bug... is not part of the model: it is the next one   *)
(* with a mistake, which a property must notice.                           *)

BugTotalKept(i, k) ==
  IF entries # <<>> /\ total + 1 > MaxBytes
  THEN /\ sets' = [sets EXCEPT ![i] = [NoSet EXCEPT !.step = "evicting", !.key = k,
                                                    !.victim = Head(entries).key]]
       /\ entries' = Tail(entries) /\ UNCHANGED total
  ELSE /\ sets' = [sets EXCEPT ![i] = [NoSet EXCEPT !.step = "creating", !.key = k]]
       /\ UNCHANGED <<entries, total>>

(* An iteration of _evictIfNeeded: the oldest entry is dropped before its  *)
(* file is removed.                                                        *)
MakeRoom(i, k) ==
  IF entries # <<>> /\ total + 1 > MaxBytes
  THEN /\ sets' = [sets EXCEPT ![i] = [NoSet EXCEPT !.step = "evicting", !.key = k,
                                                    !.victim = Head(entries).key]]
       /\ entries' = Tail(entries) /\ total' = total - Head(entries).size
  ELSE /\ sets' = [sets EXCEPT ![i] = [NoSet EXCEPT !.step = "creating", !.key = k]]
       /\ UNCHANGED <<entries, total>>

(* set(), as far as its first await *)
StartSet(i, k) == MakeRoom(i, k) /\ UNCHANGED files

(* removeEntry, whose failure is ignored *)
RemoveVictim(i) ==
  /\ sets[i].step = "evicting"
  /\ \/ files' = [files EXCEPT ![sets[i].victim] = "absent"]
     \/ Failures /\ UNCHANGED files
  /\ MakeRoom(i, sets[i].key)

(* getFileHandle and createWritable *)
CreateFile(i) ==
  /\ sets[i].step = "creating"
  /\ files' = [files EXCEPT ![sets[i].key] = IF @ = "absent" THEN "empty" ELSE @]
  /\ sets' = [sets EXCEPT ![i].step = "writing"]
  /\ UNCHANGED <<entries, total>>

(* write(data): the bytes the buffer has now *)
WriteData(i, content) ==
  /\ sets[i].step = "writing"
  /\ sets' = [sets EXCEPT ![i].step = "closing", ![i].copy = content]
  /\ UNCHANGED <<files, entries, total>>

(* push(), after splice() of the entry there was for the file              *)
Without(i) == [j \in 1..(Len(entries) - 1) |-> entries[IF j < i THEN j ELSE j + 1]]
Relist(k, size) ==
  LET listed == {i \in DOMAIN entries : entries[i].key = k}
      entry == [key |-> k, size |-> size]
  IN \/ /\ listed = {}
        /\ entries' = Append(entries, entry) /\ total' = total + size
     \/ \E i \in listed :
          /\ \A j \in listed : i <= j
          /\ entries' = Append(Without(i), entry)
          /\ total' = total - entries[i].size + size

(* close(): the content appears, and the entry with the size of the buffer *)
CloseFile(i, size) ==
  /\ sets[i].step = "closing"
  /\ files' = [files EXCEPT ![sets[i].key] = sets[i].copy]
  /\ Relist(sets[i].key, size)
  /\ sets' = [sets EXCEPT ![i] = NoSet]

(* A rejection is caught; a file that was created stays.                   *)
SetFails(i) ==
  /\ Failures /\ sets[i].step \notin {"none", "evicting"}
  /\ sets' = [sets EXCEPT ![i] = NoSet]
  /\ UNCHANGED <<files, entries, total>>

(* open(): the entries are those of the directory, in its order.           *)
Present == {k \in Keys : files[k] # "absent"}
Whole == {k \in Keys : files[k] = "whole"}
Open ==
  /\ \E order \in Bijection(1..Cardinality(Present), Present) :
       entries' = [i \in 1..Cardinality(Present) |->
                     [key |-> order[i], size |-> SizeOf(files[order[i]])]]
  /\ total' = Cardinality(Whole)
  /\ sets' = [i \in SetIds |-> NoSet]
  /\ UNCHANGED files

OpfsInit == /\ files = [k \in Keys |-> "absent"]
            /\ entries = <<>> /\ total = 0
            /\ sets = [i \in SetIds |-> NoSet]

-----------------------------------------------------------------------------
(* Properties *)

(* The running total is that of the entries, and no file is listed twice,  *)
(* whatever calls of set() evicted and closed in between.                  *)
TotalIsSum ==
  /\ total = Cardinality({i \in DOMAIN entries : entries[i].size = 1})
  /\ \A i, j \in DOMAIN entries : entries[i].key = entries[j].key => i = j

(* What the directory keeps of a tile, once no call is writing it, are the *)
(* tile's bytes.                                                           *)
PersistedIsWhole == \A k \in Keys :
  files[k] = "empty" => \E i \in SetIds : sets[i].key = k
=============================================================================
