--------------------------- MODULE FileOpsProofs ---------------------------
(***************************************************************************)
(* Type correctness of the file operations, that they lose no file, that   *)
(* the trash can be restored from and that tags stay with their file, for  *)
(* any number of paths, files, requests and events.  BytesKept needs       *)
(* four facts about the states: each step of a request has what it needs   *)
(* (Aimed), a slot of the trash belongs to the one request that took it    *)
(* until an entry names it (SlotsFresh, SlotOwned), what a request will    *)
(* destroy was given up when it looked (SeenGiven), and so was what an     *)
(* emptying will remove (PurgeGiven).  That the trash can be restored from *)
(* needs four more (Recoverable), and that tags stay with their file       *)
(* another eight (Orderly).                                                *)
(***************************************************************************)
EXTENDS FileOps, TLAPS

AimedAt(o) ==
    /\ o.at \in {"move", "row", "trash", "entry", "erase"} => o.from \in Path
    /\ o.at \in {"move", "row", "back", "rebuild"} => o.to \in Path
    /\ o.at \in {"move", "row", "trash", "entry", "erase", "drop"} => o.id \in Id
    /\ o.at \in {"back", "rebuild"} => o.plan \in Entry
    /\ o.at = "move" => o.from # o.to

Aimed == \A c \in Caller : AimedAt(op[c])
Typed == TypeOK /\ Aimed

LEMMA NoOpTyped == NoOp \in Op /\ AimedAt(NoOp) /\ NoOp.at = "idle" /\ NoEntry \notin Entry
BY DEF NoOp, Op, Step, NoEntry, Entry, Id, AimedAt

LEMMA SpendTyped ==
    ASSUME TypeOK, NEW k \in Kind, Spend(k)
    PROVE  left' \in [Kind -> Nat] /\ \A j \in Kind : left'[j] <= left[j] /\ left'[j] <= Budget[j]
<1>1. left \in [Kind -> Nat] /\ "any" \in Kind /\ Budget \in [Kind -> Nat]
  BY FileOpsOK DEF TypeOK, Kind
<1>2. QED
  BY <1>1 DEF Spend, CanSpend, TypeOK

LEMMA MarkTyped ==
    ASSUME TypeOK, NEW k \in Kind, Mark(k)
    PROVE  left' \in [Kind -> Nat] /\ \A j \in Kind : left'[j] <= left[j] /\ left'[j] <= Budget[j]
<1>1. left \in [Kind -> Nat] /\ Budget \in [Kind -> Nat] /\ \A j \in Kind : left[j] <= Budget[j]
  BY FileOpsOK DEF TypeOK
<1>2. left' = [left EXCEPT ![k] = 0]
  BY DEF Mark
<1>3. \A j \in Kind : left'[j] = left[j] \/ left'[j] = 0
  BY <1>1, <1>2
<1>4. left' \in [Kind -> Nat]
  BY <1>1, <1>2
<1>5. QED
  BY <1>1, <1>3, <1>4

LEMMA TakeTyped ==
    ASSUME TypeOK, NEW k \in Kind, NEW i, Take(k, i)
    PROVE  left' \in [Kind -> Nat] /\ \A j \in Kind : left'[j] <= left[j] /\ left'[j] <= Budget[j]
<1>1. left \in [Kind -> Nat] /\ "any" \in Kind /\ "shared" \in Kind /\ Budget \in [Kind -> Nat]
  BY FileOpsOK DEF TypeOK, Kind
<1>2. \A j \in Kind : left[j] <= Budget[j] /\ left[k] > 0 /\ left["any"] > 0
  BY DEF TypeOK, Take, CanSpend
<1>3. left' \in [Kind -> Nat]
  BY <1>1, <1>2 DEF Take, CanSpend
<1>4. QED
  BY <1>1, <1>2, <1>3 DEF Take

LEMMA AsSeenTyped ==
    ASSUME TypeOK, NEW c \in Caller, NEW p, AsSeen(c, p)
    PROVE  left' \in [Kind -> Nat] /\ \A j \in Kind : left'[j] <= left[j] /\ left'[j] <= Budget[j]
<1>1. "race" \in Kind /\ left \in [Kind -> Nat]
  BY DEF Kind, TypeOK
<1>2. CASE UNCHANGED left
  BY <1>1, <1>2 DEF TypeOK
<1>3. CASE Mark("race")
  BY <1>1, <1>3, MarkTyped
<1>4. QED
  BY <1>2, <1>3 DEF AsSeen

\* A request goes on, ends, or begins with an aimed step.
LEMMA OpTyped ==
    ASSUME Typed, NEW c \in Caller, NEW next, next \in Op, AimedAt(next),
           op' = [op EXCEPT ![c] = next]
    PROVE  op' \in [Caller -> Op] /\ Aimed'
BY DEF Typed, TypeOK, Aimed

LEMMA EndTyped ==
    ASSUME Typed, NEW c \in Caller, End(c)
    PROVE  op' \in [Caller -> Op] /\ Aimed'
BY OpTyped, NoOpTyped DEF End

Follows(at) ==
    CASE at = "move" -> {"row"} [] at = "trash" -> {"entry"}
      [] at = "entry" -> {"drop"} [] at = "erase" -> {"drop"}
      [] at = "back" -> {"rebuild"} [] at = "rebuild" -> {"forget"}
      [] at = "purge" -> {"clear"} [] OTHER -> {}

LEMMA GoTyped ==
    ASSUME Typed, NEW c \in Caller, NEW step \in Follows(op[c].at), Go(c, step)
    PROVE  op' \in [Caller -> Op] /\ Aimed'
<1> DEFINE next == [op[c] EXCEPT !.at = step]
<1>1. op[c] \in Op /\ AimedAt(op[c])
  BY DEF Typed, TypeOK, Aimed
<1>2. step \in Step
  BY DEF Follows, Step
<1>3. next \in Op /\ AimedAt(next)
  BY <1>1, <1>2 DEF Op, AimedAt, Follows
<1>4. op' = [op EXCEPT ![c] = next]
  BY DEF Go
<1>5. QED
  BY <1>3, <1>4, OpTyped

-----------------------------------------------------------------------------
(* each action keeps the types *)

LEMMA RelocateTyped ==
    ASSUME Typed, NEW c \in Caller, NEW i \in Id, NEW p \in Path, Relocate(c, i, p)
    PROVE  Typed'
<1> DEFINE next == [NoOp EXCEPT !.at = "move", !.id = i, !.from = path[i], !.to = p,
                                !.seen = disk[p]]
<1>1. next \in Op
  BY DEF Typed, TypeOK, Op, Step, NoOp, NoEntry
<1>2. AimedAt(next)
  BY FileOpsOK DEF Relocate, Rows, Typed, TypeOK, NoOp, AimedAt
<1>3. op' \in [Caller -> Op] /\ Aimed'
  BY <1>1, <1>2, OpTyped DEF Relocate, Begin
<1>4. left' \in [Kind -> Nat] /\ \A k \in Kind : left'[k] <= Budget[k]
  BY TakeTyped DEF Typed, Relocate, Kind
<1>5. given' \subseteq Asset
  BY DEF Relocate, Typed, TypeOK
<1>6. QED
  BY <1>3, <1>4, <1>5 DEF Relocate, Typed, TypeOK, rowVars

LEMMA RelocateFileTyped ==
    ASSUME Typed, NEW c \in Caller, RelocateFile(c)
    PROVE  Typed'
<1>1. "row" \in Follows("move")
  BY DEF Follows
<1>2. op' \in [Caller -> Op] /\ Aimed'
  BY <1>1, EndTyped, GoTyped DEF RelocateFile
<1>3. left' \in [Kind -> Nat] /\ \A k \in Kind : left'[k] <= Budget[k]
  BY AsSeenTyped DEF RelocateFile, Typed, TypeOK
<1>4. disk' \in [Path -> Asset \cup {None}]
  <2>1. op[c].from \in Path /\ op[c].to \in Path
    BY DEF RelocateFile, Typed, Aimed, AimedAt
  <2>2. QED
    BY <2>1 DEF RelocateFile, Typed, TypeOK
<1>5. QED
  BY <1>2, <1>3, <1>4 DEF RelocateFile, Typed, TypeOK, rowVars

LEMMA RelocateRowTyped ==
    ASSUME Typed, NEW c \in Caller, RelocateRow(c)
    PROVE  Typed'
<1>1. op' \in [Caller -> Op] /\ Aimed'
  BY EndTyped DEF RelocateRow
<1>2. left' \in [Kind -> Nat] /\ \A k \in Kind : left'[k] <= Budget[k]
  BY MarkTyped DEF RelocateRow, Typed, TypeOK, Kind
<1>3. path' \in [Id -> Path \cup {None}]
  <2>1. op[c].to \in Path
    BY DEF RelocateRow, Typed, Aimed, AimedAt
  <2>2. QED
    BY <2>1 DEF RelocateRow, Typed, TypeOK
<1>4. QED
  BY <1>1, <1>2, <1>3 DEF RelocateRow, Typed, TypeOK

LEMMA DeleteTyped ==
    ASSUME Typed, NEW c \in Caller, NEW i \in Id, Delete(c, i)
    PROVE  Typed'
<1> DEFINE next == [NoOp EXCEPT !.at = "trash", !.id = i, !.from = path[i],
                                !.slots = {left["request"]}]
<1>1. left["request"] \in Slot
  <2>1. "request" \in Kind
    BY DEF Kind
  <2>2. QED
    BY <2>1, FileOpsOK DEF Delete, Take, CanSpend, Slot, Typed, TypeOK
<1>2. next \in Op
  BY <1>1 DEF Typed, TypeOK, Op, Step, NoOp, NoEntry
<1>3. AimedAt(next)
  BY FileOpsOK DEF Delete, Rows, Typed, TypeOK, NoOp, AimedAt
<1>4. op' \in [Caller -> Op] /\ Aimed'
  BY <1>2, <1>3, OpTyped DEF Delete, Begin
<1>5. left' \in [Kind -> Nat] /\ \A k \in Kind : left'[k] <= Budget[k]
  BY TakeTyped DEF Typed, Delete, Kind
<1>6. QED
  BY <1>4, <1>5 DEF Delete, Typed, TypeOK, rowVars

LEMMA TrashFileTyped ==
    ASSUME Typed, NEW c \in Caller, TrashFile(c)
    PROVE  Typed'
<1>1. "entry" \in Follows("trash")
  BY DEF Follows
<1>2. op' \in [Caller -> Op] /\ Aimed'
  BY <1>1, EndTyped, GoTyped DEF TrashFile
<1>3. op[c].from \in Path
  BY DEF TrashFile, Typed, Aimed, AimedAt
<1>4. QED
  BY <1>2, <1>3 DEF TrashFile, Typed, TypeOK, rowVars

LEMMA AddEntryTyped ==
    ASSUME Typed, NEW c \in Caller, AddEntry(c)
    PROVE  Typed'
<1>1. "drop" \in Follows("entry")
  BY DEF Follows
<1>2. op' \in [Caller -> Op] /\ Aimed'
  BY <1>1, GoTyped DEF AddEntry
<1>3. PICK t \in NewId(Entries), s \in op[c].slots, whole \in BOOLEAN :
         /\ IF whole THEN UNCHANGED left ELSE Spend("truncate")
         /\ entries' = [entries EXCEPT ![t] = Trashed(op[c], s, whole)]
  BY DEF AddEntry
<1>4. left' \in [Kind -> Nat] /\ \A k \in Kind : left'[k] <= Budget[k]
  BY <1>3, SpendTyped DEF Typed, TypeOK, Kind
<1>5. op[c] \in Op /\ op[c].from \in Path /\ op[c].id \in Id
  BY DEF AddEntry, Typed, TypeOK, Aimed, AimedAt
<1>6. s \in Slot
  BY <1>5 DEF Op
<1>7. Trashed(op[c], s, whole) \in Entry
  BY <1>5, <1>6 DEF Trashed, Entry, Typed, TypeOK
<1>8. entries' \in [Id -> Entry \cup {NoEntry}]
  BY <1>3, <1>7 DEF Typed, TypeOK
<1>9. QED
  BY <1>2, <1>4, <1>8 DEF AddEntry, Typed, TypeOK, rowVars

LEMMA DropRowTyped ==
    ASSUME Typed, NEW c \in Caller, DropRow(c)
    PROVE  Typed'
<1>1. op' \in [Caller -> Op] /\ Aimed'
  BY EndTyped DEF DropRow
<1>2. QED
  BY <1>1 DEF DropRow, DroppedTags, Typed, TypeOK

LEMMA EraseTyped ==
    ASSUME Typed, NEW c \in Caller, NEW i \in Id, Erase(c, i)
    PROVE  Typed'
<1> DEFINE next == [NoOp EXCEPT !.at = "erase", !.id = i, !.from = path[i],
                                !.seen = disk[path[i]]]
<1>1. path[i] \in Path
  BY DEF Erase, Rows, Typed, TypeOK
<1>2. next \in Op
  BY <1>1 DEF Typed, TypeOK, Op, Step, NoOp, NoEntry
<1>3. AimedAt(next)
  BY <1>1 DEF NoOp, AimedAt
<1>4. op' \in [Caller -> Op] /\ Aimed'
  BY <1>2, <1>3, OpTyped DEF Erase, Begin
<1>5. left' \in [Kind -> Nat] /\ \A k \in Kind : left'[k] <= Budget[k]
  BY TakeTyped DEF Typed, Erase, Kind
<1>6. given' \subseteq Asset
  BY <1>1 DEF Erase, Typed, TypeOK
<1>7. QED
  BY <1>4, <1>5, <1>6 DEF Erase, Typed, TypeOK, rowVars

LEMMA EraseFileTyped ==
    ASSUME Typed, NEW c \in Caller, EraseFile(c)
    PROVE  Typed'
<1>1. "drop" \in Follows("erase")
  BY DEF Follows
<1>2. op' \in [Caller -> Op] /\ Aimed'
  BY <1>1, GoTyped DEF EraseFile
<1>3. left' \in [Kind -> Nat] /\ \A k \in Kind : left'[k] <= Budget[k]
  BY AsSeenTyped DEF EraseFile, Typed
<1>4. QED
  BY <1>2, <1>3 DEF EraseFile, Typed, TypeOK, rowVars

LEMMA RestoreTyped ==
    ASSUME Typed, NEW c \in Caller, NEW t \in Id, NEW p \in Path, Restore(c, t, p)
    PROVE  Typed'
<1> DEFINE next == [NoOp EXCEPT !.at = "back", !.to = p, !.seen = disk[p],
                     !.slots = {entries[t].slot}, !.tids = {t}, !.plan = entries[t]]
<1>1. entries[t] \in Entry
  BY DEF Restore, Entries, Typed, TypeOK
<1>2. entries[t].slot \in Slot
  BY <1>1 DEF Entry
<1>3. next \in Op
  BY <1>1, <1>2 DEF Typed, TypeOK, Op, Step, NoOp
<1>4. AimedAt(next)
  BY <1>1 DEF NoOp, AimedAt
<1>5. op' \in [Caller -> Op] /\ Aimed'
  BY <1>3, <1>4, OpTyped DEF Restore, Begin
<1>6. left' \in [Kind -> Nat] /\ \A k \in Kind : left'[k] <= Budget[k]
  BY SpendTyped DEF Typed, Restore, Kind
<1>7. given' \subseteq Asset
  BY DEF Restore, Typed, TypeOK
<1>8. QED
  BY <1>5, <1>6, <1>7 DEF Restore, Typed, TypeOK, rowVars

LEMMA RestoreFileTyped ==
    ASSUME Typed, NEW c \in Caller, RestoreFile(c)
    PROVE  Typed'
<1>1. "rebuild" \in Follows("back")
  BY DEF Follows
<1>2. op' \in [Caller -> Op] /\ Aimed'
  BY <1>1, EndTyped, GoTyped DEF RestoreFile
<1>3. left' \in [Kind -> Nat] /\ \A k \in Kind : left'[k] <= Budget[k]
  BY AsSeenTyped DEF RestoreFile, Typed, TypeOK
<1>4. op[c].plan.slot \in Slot
  BY DEF RestoreFile, Typed, Aimed, AimedAt, Entry
<1>5. QED
  BY <1>2, <1>3, <1>4 DEF RestoreFile, Typed, TypeOK, rowVars

LEMMA RestoreRowTyped ==
    ASSUME Typed, NEW c \in Caller, RestoreRow(c)
    PROVE  Typed'
<1>1. "forget" \in Follows("rebuild")
  BY DEF Follows
<1>2. op' \in [Caller -> Op] /\ Aimed'
  BY <1>1, EndTyped, GoTyped DEF RestoreRow
<1>3. left' \in [Kind -> Nat] /\ \A k \in Kind : left'[k] <= Budget[k]
  BY MarkTyped DEF RestoreRow, Typed, TypeOK, Kind
<1>4. op[c].plan \in Entry /\ op[c].to \in Path
  BY DEF RestoreRow, Typed, Aimed, AimedAt
<1>5. op[c].plan.tags \in Asset \cup {None}
  BY <1>4 DEF Entry
<1>6. path' \in [Id -> Path \cup {None}] /\ tagged' \in [Id -> Asset \cup {None}]
  BY <1>4, <1>5 DEF RestoreRow, rowVars, Typed, TypeOK
<1>7. QED
  BY <1>2, <1>3, <1>6 DEF RestoreRow, Typed, TypeOK

LEMMA ForgetAllTyped ==
    ASSUME Typed, NEW c \in Caller, NEW tids, ForgetAll(c, tids)
    PROVE  Typed'
<1>1. op' \in [Caller -> Op] /\ Aimed'
  BY EndTyped DEF ForgetAll
<1>2. left' \in [Kind -> Nat] /\ \A k \in Kind : left'[k] <= Budget[k]
  BY MarkTyped DEF ForgetAll, Typed, TypeOK, Kind
<1>3. QED
  BY <1>1, <1>2 DEF ForgetAll, Forgotten, Typed, TypeOK, rowVars

LEMMA EmptyTyped ==
    ASSUME Typed, NEW c \in Caller, NEW tids \in SUBSET Id, NEW all \in BOOLEAN,
           Empty(c, tids, all)
    PROVE  Typed'
<1> DEFINE next == [NoOp EXCEPT !.at = "purge", !.tids = tids, !.all = all,
                                !.slots = {entries[t].slot : t \in tids}]
<1>1. \A t \in tids : entries[t] \in Entry
  BY DEF Empty, Entries, Typed, TypeOK
<1>2. \A t \in tids : entries[t].slot \in Slot
  BY <1>1 DEF Entry
<1>3. next \in Op
  BY <1>2 DEF Op, Step, NoOp, NoEntry
<1>4. AimedAt(next)
  BY DEF NoOp, AimedAt
<1>5. op' \in [Caller -> Op] /\ Aimed'
  BY <1>3, <1>4, OpTyped DEF Empty, Begin
<1>6. left' \in [Kind -> Nat] /\ \A k \in Kind : left'[k] <= Budget[k]
  BY SpendTyped DEF Typed, Empty, Kind
<1>7. given' \subseteq Asset
  BY <1>2 DEF Empty, Typed, TypeOK
<1>8. QED
  BY <1>5, <1>6, <1>7 DEF Empty, Typed, TypeOK, rowVars

LEMMA EmptyFilesTyped ==
    ASSUME Typed, NEW c \in Caller, EmptyFiles(c)
    PROVE  Typed'
<1>1. "clear" \in Follows("purge")
  BY DEF Follows
<1>2. op' \in [Caller -> Op] /\ Aimed'
  BY <1>1, GoTyped DEF EmptyFiles
<1>3. QED
  BY <1>2 DEF EmptyFiles, Purged, Typed, TypeOK, rowVars

LEMMA AroundTyped ==
    ASSUME Typed,
           \/ \E p \in Path : ScanAdd(p) \/ \E a \in Asset : Save(p, a)
           \/ \E i \in Id : Prune(i) \/ Tag(i)
           \/ Crash
    PROVE  Typed'
<1>1. ASSUME NEW p \in Path, ScanAdd(p) PROVE Typed'
  <2>1. left' \in [Kind -> Nat] /\ \A k \in Kind : left'[k] <= Budget[k]
    BY <1>1, SpendTyped DEF ScanAdd, Typed, TypeOK, Kind
  <2>2. path' \in [Id -> Path \cup {None}]
    BY <1>1 DEF ScanAdd, Typed, TypeOK
  <2>3. QED
    BY <1>1, <2>1, <2>2 DEF ScanAdd, Typed, TypeOK, Aimed
<1>2. ASSUME NEW p \in Path, NEW a \in Asset, Save(p, a) PROVE Typed'
  <2>1. left' \in [Kind -> Nat] /\ \A k \in Kind : left'[k] <= Budget[k]
    <3>1. {"save", "any", "race"} \subseteq Kind /\ Budget \in [Kind -> Nat]
      BY FileOpsOK DEF Kind
    <3>2. /\ left \in [Kind -> Nat] /\ left["save"] > 0 /\ left["any"] > 0
          /\ \A k \in Kind : left[k] <= Budget[k]
      BY <1>2 DEF Save, CanSpend, Typed, TypeOK
    <3>3. PICK r \in {0, left["race"]} :
             left' = [left EXCEPT !["save"] = @ - 1, !["any"] = @ - 1, !["race"] = r]
      BY <1>2 DEF Save
    <3>4. left' \in [Kind -> Nat]
      BY <3>1, <3>2, <3>3
    <3>5. \A k \in Kind : left'[k] <= left[k]
      BY <3>1, <3>2, <3>3
    <3>6. QED
      BY <3>1, <3>2, <3>4, <3>5
  <2>2. QED
    BY <1>2, <2>1 DEF Save, Typed, TypeOK, Aimed, rowVars
<1>3. ASSUME NEW i \in Id, Prune(i) PROVE Typed'
  <2>1. left' \in [Kind -> Nat] /\ \A k \in Kind : left'[k] <= Budget[k]
    BY <1>3, MarkTyped DEF Prune, Typed, Kind
  <2>2. QED
    BY <1>3, <2>1 DEF Prune, Typed, TypeOK, Aimed
<1>4. ASSUME NEW i \in Id, Tag(i) PROVE Typed'
  <2>1. left' \in [Kind -> Nat] /\ \A k \in Kind : left'[k] <= Budget[k]
    BY <1>4, SpendTyped DEF Tag, Typed, Kind
  <2>2. path[i] \in Path
    BY <1>4 DEF Tag, Rows, Typed, TypeOK
  <2>3. QED
    BY <1>4, <2>1, <2>2 DEF Tag, Typed, TypeOK, Aimed
<1>5. ASSUME Crash PROVE Typed'
  <2>1. left' \in [Kind -> Nat] /\ \A k \in Kind : left'[k] <= Budget[k]
    BY <1>5, SpendTyped DEF Crash, Typed, Kind
  <2>2. op' \in [Caller -> Op] /\ Aimed'
    BY <1>5, NoOpTyped DEF Crash, Aimed
  <2>3. QED
    BY <1>5, <2>1, <2>2 DEF Crash, Typed, TypeOK, rowVars
<1>6. QED
  BY <1>1, <1>2, <1>3, <1>4, <1>5

-----------------------------------------------------------------------------
LEMMA TypedStep == Typed /\ [Next]_vars => Typed'
<1> SUFFICES ASSUME Typed, [Next]_vars PROVE Typed'
  OBVIOUS
<1>1. CASE UNCHANGED vars
  BY <1>1 DEF vars, rowVars, Typed, TypeOK, Aimed
<1>2. ASSUME NEW c \in Caller, Finish(c) PROVE Typed'
  <2>1. CASE RelocateFile(c) \/ RelocateRow(c)
    BY <2>1, RelocateFileTyped, RelocateRowTyped
  <2>2. CASE TrashFile(c) \/ AddEntry(c) \/ DropRow(c) \/ EraseFile(c)
    BY <2>2, TrashFileTyped, AddEntryTyped, DropRowTyped, EraseFileTyped
  <2>3. CASE RestoreFile(c) \/ RestoreRow(c)
    BY <2>3, RestoreFileTyped, RestoreRowTyped
  <2>4. CASE Forget(c) \/ EmptyRows(c)
    BY <2>4, ForgetAllTyped DEF Forget, EmptyRows
  <2>5. CASE EmptyFiles(c)
    BY <2>5, EmptyFilesTyped
  <2>6. QED
    BY <1>2, <2>1, <2>2, <2>3, <2>4, <2>5 DEF Finish
<1>3. QED
  BY <1>1, <1>2, RelocateTyped, DeleteTyped, EraseTyped, RestoreTyped, EmptyTyped,
     AroundTyped DEF Next

LEMMA TypedInit == Init => Typed
<1> SUFFICES ASSUME Init PROVE Typed
  OBVIOUS
<1>1. left \in [Kind -> Nat] /\ \A k \in Kind : left[k] <= Budget[k]
  BY FileOpsOK DEF Init
<1>2. op \in [Caller -> Op] /\ Aimed
  BY NoOpTyped DEF Init, Aimed
<1>3. QED
  BY <1>1, <1>2 DEF Init, Typed, TypeOK

\* Whatever requests, scans, other programs and crashes do, the disk, the trash,
\* the tables and what each request holds stay well typed.
THEOREM TypeCorrect == Spec => []TypeOK
<1>1. Typed => TypeOK
  BY DEF Typed
<1>2. QED
  BY <1>1, TypedInit, TypedStep, PTL DEF Spec

-----------------------------------------------------------------------------
(* the inductive invariant *)

SlotsFresh ==
    \A s \in Slot : s <= left["request"] =>
        /\ trash[s] = None
        /\ \A c \in Caller : s \notin op[c].slots
        /\ \A t \in Id : entries[t].slot # s

SlotOwned ==
    \A c \in Caller : op[c].at = "trash" =>
        /\ op[c].slots # {}
        /\ \A s \in op[c].slots :
             /\ trash[s] = None
             /\ \A d \in Caller : d # c => s \notin op[d].slots
             /\ \A t \in Id : entries[t].slot # s

SeenGiven ==
    \A c \in Caller :
        op[c].at \in {"move", "erase", "back"} => op[c].seen \in given \cup {None}

PurgeGiven ==
    \A c \in Caller : op[c].at = "purge" =>
        \A s \in op[c].slots : trash[s] \in given \cup {None}

Owned == SlotsFresh /\ SlotOwned /\ SeenGiven /\ PurgeGiven
IInv  == Typed /\ Owned

\* The steps that give nobody a slot or a target.
Steady ==
    /\ \A c \in Caller :
         \/ op'[c] = op[c]
         \/ /\ op'[c].slots \subseteq op[c].slots
            /\ op'[c].at \notin {"trash", "move", "erase", "back", "purge"}
    /\ \A s \in Slot : trash'[s] \in {trash[s], None}
    /\ \A t \in Id : entries'[t] \in {entries[t], NoEntry}
    /\ given' = given
    /\ left'["request"] <= left["request"]

LEMMA SteadyKeeps ==
    ASSUME IInv, Typed', Steady
    PROVE  Owned'
<1>1. \A s \in Slot : s # 0 /\ s \in Nat
  BY FileOpsOK DEF Slot, Kind
<1>2. \A c \in Caller : op[c].slots \subseteq Slot /\ op'[c].slots \subseteq Slot
  BY DEF IInv, Typed, TypeOK, Op
<1>3. \A t \in Id : entries'[t].slot = entries[t].slot \/ entries'[t].slot = 0
  BY DEF Steady, NoEntry
<1>4. left["request"] \in Nat /\ left'["request"] \in Nat
  BY DEF IInv, Typed, TypeOK, Kind
<1>5. SlotsFresh'
  <2> SUFFICES ASSUME NEW s \in Slot, s <= left'["request"]
               PROVE  /\ trash'[s] = None
                      /\ \A c \in Caller : s \notin op'[c].slots
                      /\ \A t \in Id : entries'[t].slot # s
    BY DEF SlotsFresh
  <2>1. s <= left["request"]
    BY <1>1, <1>4 DEF Steady
  <2>2. QED
    BY <2>1, <1>1, <1>3 DEF Steady, IInv, Owned, SlotsFresh
<1>6. SlotOwned'
  <2> SUFFICES ASSUME NEW c \in Caller, op'[c].at = "trash"
               PROVE  /\ op'[c].slots # {}
                      /\ \A s \in op'[c].slots :
                           /\ trash'[s] = None
                           /\ \A d \in Caller : d # c => s \notin op'[d].slots
                           /\ \A t \in Id : entries'[t].slot # s
    BY DEF SlotOwned
  <2>1. op'[c] = op[c]
    BY DEF Steady
  <2>2. ASSUME NEW s \in op[c].slots
        PROVE  trash'[s] = None /\ \A t \in Id : entries'[t].slot # s
    BY <2>1, <1>1, <1>2, <1>3 DEF Steady, IInv, Owned, SlotOwned
  <2>3. ASSUME NEW s \in op[c].slots, NEW d \in Caller, d # c
        PROVE  s \notin op'[d].slots
    BY <2>1, <2>3 DEF Steady, IInv, Owned, SlotOwned
  <2>4. QED
    BY <2>1, <2>2, <2>3 DEF IInv, Owned, SlotOwned
<1>7. SeenGiven'
  BY DEF Steady, IInv, Owned, SeenGiven
<1>8. PurgeGiven'
  BY <1>2 DEF Steady, IInv, Owned, PurgeGiven
<1>9. QED
  BY <1>5, <1>6, <1>7, <1>8 DEF Owned

LEMMA GoSteady ==
    ASSUME Typed, NEW c \in Caller, NEW step \in Follows(op[c].at), Go(c, step)
    PROVE  \A d \in Caller :
             \/ op'[d] = op[d]
             \/ /\ op'[d].slots \subseteq op[d].slots
                /\ op'[d].at \notin {"trash", "move", "erase", "back", "purge"}
<1>1. op[c] \in Op
  BY DEF Typed, TypeOK
<1>2. step \notin {"trash", "move", "erase", "back", "purge"}
  BY DEF Follows
<1>3. op' = [op EXCEPT ![c] = [op[c] EXCEPT !.at = step]]
  BY DEF Go
<1>4. op'[c].slots = op[c].slots /\ op'[c].at = step
  BY <1>1, <1>3 DEF Typed, TypeOK, Op
<1>5. QED
  BY <1>2, <1>3, <1>4 DEF Typed, TypeOK

LEMMA EndSteady ==
    ASSUME Typed, NEW c \in Caller, End(c)
    PROVE  \A d \in Caller :
             \/ op'[d] = op[d]
             \/ /\ op'[d].slots \subseteq op[d].slots
                /\ op'[d].at \notin {"trash", "move", "erase", "back", "purge"}
<1>1. op' = [op EXCEPT ![c] = NoOp] /\ NoOp.slots = {} /\ NoOp.at = "idle"
  BY DEF End, NoOp
<1>2. QED
  BY <1>1 DEF Typed, TypeOK

LEMMA LeftOnlyFalls ==
    ASSUME Typed,
           \/ UNCHANGED left
           \/ \E k \in Kind : Spend(k) \/ Mark(k) \/ \E i \in Id : Take(k, i)
           \/ \E c \in Caller, p \in Path : AsSeen(c, p)
    PROVE  left'["request"] <= left["request"]
<1>1. "request" \in Kind /\ left["request"] \in Nat
  BY DEF Kind, Typed, TypeOK
<1>2. QED
  BY <1>1, SpendTyped, MarkTyped, TakeTyped, AsSeenTyped DEF Typed

\* Every step that gives nobody a slot or a target.
LEMMA SteadyRequests ==
    ASSUME Typed, NEW c \in Caller,
           \/ RelocateFile(c) \/ RelocateRow(c) \/ DropRow(c) \/ EraseFile(c)
           \/ RestoreFile(c) \/ RestoreRow(c) \/ Forget(c)
           \/ EmptyFiles(c) \/ EmptyRows(c)
    PROVE  Steady
<1> USE DEF Steady
<1>k. {"race", "clash", "sweep"} \subseteq Kind
  BY DEF Kind
<1>f. /\ "row" \in Follows("move") /\ "drop" \in Follows("erase")
      /\ "rebuild" \in Follows("back") /\ "forget" \in Follows("rebuild")
      /\ "clear" \in Follows("purge")
  BY DEF Follows
<1>1. CASE RelocateFile(c)
  <2>1. op[c].to \in Path
    BY <1>1 DEF RelocateFile, Typed, Aimed, AimedAt
  <2>2. left'["request"] <= left["request"]
    BY <1>1, <2>1, LeftOnlyFalls DEF RelocateFile
  <2>3. QED
    BY <1>1, <1>f, <2>2, GoSteady, EndSteady DEF RelocateFile
<1>2. CASE RelocateRow(c)
  <2>1. left'["request"] <= left["request"]
    BY <1>2, <1>k, LeftOnlyFalls DEF RelocateRow
  <2>2. QED
    BY <1>2, <2>1, EndSteady DEF RelocateRow
<1>3. CASE DropRow(c)
  BY <1>3, EndSteady, LeftOnlyFalls DEF DropRow
<1>4. CASE EraseFile(c)
  <2>1. op[c].from \in Path
    BY <1>4 DEF EraseFile, Typed, Aimed, AimedAt
  <2>2. left'["request"] <= left["request"]
    BY <1>4, <2>1, LeftOnlyFalls DEF EraseFile
  <2>3. QED
    BY <1>4, <1>f, <2>2, GoSteady DEF EraseFile
<1>5. CASE RestoreFile(c)
  <2>1. op[c].to \in Path /\ op[c].plan.slot \in Slot
    BY <1>5 DEF RestoreFile, Typed, Aimed, AimedAt, Entry
  <2>2. left'["request"] <= left["request"]
    BY <1>5, <2>1, LeftOnlyFalls DEF RestoreFile
  <2>3. \A s \in Slot : trash'[s] \in {trash[s], None}
    BY <1>5, <2>1 DEF RestoreFile, Typed, TypeOK
  <2>4. QED
    BY <1>5, <1>f, <2>2, <2>3, GoSteady, EndSteady DEF RestoreFile
<1>6. CASE RestoreRow(c)
  <2>1. left'["request"] <= left["request"]
    BY <1>6, <1>k, LeftOnlyFalls DEF RestoreRow
  <2>2. QED
    BY <1>6, <1>f, <2>1, GoSteady, EndSteady DEF RestoreRow
<1>7. ASSUME NEW tids, ForgetAll(c, tids) PROVE Steady
  <2>1. left'["request"] <= left["request"]
    BY <1>7, <1>k, LeftOnlyFalls DEF ForgetAll
  <2>2. \A t \in Id : entries'[t] \in {entries[t], NoEntry}
    BY <1>7 DEF ForgetAll, Forgotten, Typed, TypeOK
  <2>3. QED
    BY <1>7, <2>1, <2>2, EndSteady DEF ForgetAll
<1>8. CASE EmptyFiles(c)
  <2>1. \A s \in Slot : trash'[s] \in {trash[s], None}
    BY <1>8 DEF EmptyFiles, Purged, Typed, TypeOK
  <2>2. QED
    BY <1>8, <1>f, <2>1, GoSteady, LeftOnlyFalls DEF EmptyFiles
<1>9. QED
  BY <1>1, <1>2, <1>3, <1>4, <1>5, <1>6, <1>7, <1>8 DEF Forget, EmptyRows

LEMMA SteadyAround ==
    ASSUME Typed,
           \/ \E p \in Path : ScanAdd(p) \/ \E a \in Asset : Save(p, a)
           \/ \E i \in Id : Prune(i) \/ Tag(i)
           \/ Crash
    PROVE  Steady
<1> USE DEF Steady
<1>k. {"overlap", "prune", "tag", "crash", "request", "save", "any", "race"} \subseteq Kind
  BY DEF Kind
<1>1. ASSUME NEW p \in Path, ScanAdd(p) PROVE Steady
  <2>1. left'["request"] <= left["request"]
    BY <1>1, <1>k, LeftOnlyFalls DEF ScanAdd
  <2>2. QED
    BY <1>1, <2>1 DEF ScanAdd
<1>2. ASSUME NEW p \in Path, NEW a \in Asset, Save(p, a) PROVE Steady
  <2>1. left["request"] \in Nat /\ left'["request"] = left["request"]
    BY <1>2, <1>k DEF Save, Typed, TypeOK
  <2>2. QED
    BY <1>2, <2>1 DEF Save
<1>3. ASSUME NEW i \in Id, Prune(i) PROVE Steady
  BY <1>3, <1>k, LeftOnlyFalls DEF Prune
<1>4. ASSUME NEW i \in Id, Tag(i) PROVE Steady
  BY <1>4, <1>k, LeftOnlyFalls DEF Tag
<1>5. ASSUME Crash PROVE Steady
  <2>1. \A d \in Caller : op'[d] = NoOp
    BY <1>5 DEF Crash
  <2>2. NoOp.slots = {} /\ NoOp.at = "idle"
    BY DEF NoOp
  <2>3. left'["request"] <= left["request"]
    BY <1>5, <1>k, LeftOnlyFalls DEF Crash
  <2>4. QED
    BY <1>5, <2>1, <2>2, <2>3 DEF Crash
<1>6. QED
  BY <1>1, <1>2, <1>3, <1>4, <1>5

-----------------------------------------------------------------------------
(* the steps that take a slot or a target *)

\* A request begins with slots that are nobody's or that only entries name, and
\* has given up what it saw.
LEMMA BeginKeeps ==
    ASSUME IInv, Typed', NEW c \in Caller, NEW next, Begin(c, next),
           next.at # "trash",
           UNCHANGED <<trash, entries>>,
           left'["request"] <= left["request"],
           \A s \in next.slots : \E t \in Id : entries[t].slot = s,
           given \subseteq given',
           next.at \in {"move", "erase", "back"} => next.seen \in given' \cup {None},
           next.at = "purge" => \A s \in next.slots : trash[s] \in given' \cup {None}
    PROVE  Owned'
<1>1. /\ op'[c] = next /\ \A d \in Caller : d # c => op'[d] = op[d]
      /\ trash' = trash /\ entries' = entries
  BY DEF Begin, IInv, Typed, TypeOK
<1>2. \A s \in Slot : s \in Nat
  BY FileOpsOK DEF Slot
<1>3. left["request"] \in Nat /\ left'["request"] \in Nat
  BY DEF IInv, Typed, TypeOK, Kind
<1>4. SlotsFresh'
  <2> SUFFICES ASSUME NEW s \in Slot, s <= left'["request"]
               PROVE  /\ trash'[s] = None
                      /\ \A d \in Caller : s \notin op'[d].slots
                      /\ \A t \in Id : entries'[t].slot # s
    BY DEF SlotsFresh
  <2>1. s <= left["request"]
    BY <1>2, <1>3
  <2>2. /\ trash[s] = None
        /\ \A d \in Caller : s \notin op[d].slots
        /\ \A t \in Id : entries[t].slot # s
    BY <2>1 DEF IInv, Owned, SlotsFresh
  <2>3. QED
    BY <1>1, <2>2
<1>5. SlotOwned'
  <2> SUFFICES ASSUME NEW d \in Caller, op'[d].at = "trash"
               PROVE  /\ op'[d].slots # {}
                      /\ \A s \in op'[d].slots :
                           /\ trash'[s] = None
                           /\ \A e \in Caller : e # d => s \notin op'[e].slots
                           /\ \A t \in Id : entries'[t].slot # s
    BY DEF SlotOwned
  <2>1. d # c /\ op'[d] = op[d]
    BY <1>1
  <2>2. /\ op[d].slots # {}
        /\ \A s \in op[d].slots :
             /\ trash[s] = None
             /\ \A e \in Caller : e # d => s \notin op[e].slots
             /\ \A t \in Id : entries[t].slot # s
    BY <2>1 DEF IInv, Owned, SlotOwned
  <2>3. \A s \in op[d].slots : s \notin next.slots
    BY <2>2
  <2>4. QED
    BY <1>1, <2>1, <2>2, <2>3
<1>6. SeenGiven'
  BY <1>1 DEF IInv, Owned, SeenGiven
<1>7. PurgeGiven'
  BY <1>1 DEF IInv, Owned, PurgeGiven
<1>8. QED
  BY <1>4, <1>5, <1>6, <1>7 DEF Owned

LEMMA RelocateKeeps ==
    ASSUME IInv, Typed', NEW c \in Caller, NEW i \in Id, NEW p \in Path, Relocate(c, i, p)
    PROVE  Owned'
<1> DEFINE next == [NoOp EXCEPT !.at = "move", !.id = i, !.from = path[i], !.to = p,
                                !.seen = disk[p]]
<1>1. next.at = "move" /\ next.slots = {} /\ next.seen = disk[p]
  BY DEF NoOp
<1>2. "request" \in Kind /\ "overwrite" \in Kind
  BY DEF Kind
<1>3. left'["request"] <= left["request"]
  BY <1>2, LeftOnlyFalls DEF Relocate, IInv
<1>4. given \subseteq given' /\ disk[p] \in given' \cup {None}
  BY DEF Relocate, Free
<1>5. Begin(c, next) /\ UNCHANGED <<trash, entries>>
  BY DEF Relocate
<1> HIDE DEF next
<1>6. QED
  BY <1>1, <1>3, <1>4, <1>5, BeginKeeps

LEMMA EraseKeeps ==
    ASSUME IInv, Typed', NEW c \in Caller, NEW i \in Id, Erase(c, i)
    PROVE  Owned'
<1> DEFINE next == [NoOp EXCEPT !.at = "erase", !.id = i, !.from = path[i],
                                !.seen = disk[path[i]]]
<1>1. next.at = "erase" /\ next.slots = {} /\ next.seen = disk[path[i]]
  BY DEF NoOp
<1>2. "request" \in Kind
  BY DEF Kind
<1>3. left'["request"] <= left["request"]
  BY <1>2, LeftOnlyFalls DEF Erase, IInv
<1>4. given \subseteq given' /\ disk[path[i]] \in given' \cup {None}
  BY DEF Erase
<1>5. Begin(c, next) /\ UNCHANGED <<trash, entries>>
  BY DEF Erase
<1> HIDE DEF next
<1>6. QED
  BY <1>1, <1>3, <1>4, <1>5, BeginKeeps

LEMMA RestoreKeeps ==
    ASSUME IInv, Typed', NEW c \in Caller, NEW t \in Id, NEW p \in Path, Restore(c, t, p)
    PROVE  Owned'
<1> DEFINE next == [NoOp EXCEPT !.at = "back", !.to = p, !.seen = disk[p],
                     !.slots = {entries[t].slot}, !.tids = {t}, !.plan = entries[t]]
<1>1. next.at = "back" /\ next.slots = {entries[t].slot} /\ next.seen = disk[p]
  BY DEF NoOp
<1>2. "request" \in Kind /\ "overwrite" \in Kind
  BY DEF Kind
<1>3. left'["request"] <= left["request"]
  BY <1>2, LeftOnlyFalls DEF Restore, IInv
<1>4. given \subseteq given' /\ disk[p] \in given' \cup {None}
  BY DEF Restore
<1>5. Begin(c, next) /\ UNCHANGED <<trash, entries>>
  BY DEF Restore
<1> HIDE DEF next
<1>6. QED
  BY <1>1, <1>3, <1>4, <1>5, BeginKeeps

LEMMA EmptyKeeps ==
    ASSUME IInv, Typed', NEW c \in Caller, NEW tids \in SUBSET Id, NEW all \in BOOLEAN,
           Empty(c, tids, all)
    PROVE  Owned'
<1> DEFINE next == [NoOp EXCEPT !.at = "purge", !.tids = tids, !.all = all,
                                !.slots = {entries[t].slot : t \in tids}]
<1>1. next.at = "purge" /\ next.slots = {entries[t].slot : t \in tids}
  BY DEF NoOp
<1>2. "request" \in Kind
  BY DEF Kind
<1>3. left'["request"] <= left["request"]
  BY <1>2, LeftOnlyFalls DEF Empty, IInv
<1>4. given \subseteq given' /\ \A t \in tids : trash[entries[t].slot] \in given' \cup {None}
  BY DEF Empty
<1>5. Begin(c, next) /\ UNCHANGED <<trash, entries>>
  BY DEF Empty
<1> HIDE DEF next
<1>6. QED
  BY <1>1, <1>3, <1>4, <1>5, BeginKeeps

\* The slot a deletion takes is one that nobody has had.
LEMMA DeleteKeeps ==
    ASSUME IInv, Typed', NEW c \in Caller, NEW i \in Id, Delete(c, i)
    PROVE  Owned'
<1> DEFINE slot == left["request"]
<1>1. {"request", "any", "shared"} \subseteq Kind
  BY DEF Kind
<1>2. /\ left \in [Kind -> Nat] /\ slot > 0 /\ left'["request"] = slot - 1
      /\ slot \in Slot
  BY <1>1, FileOpsOK DEF Delete, Take, CanSpend, IInv, Typed, TypeOK, Slot
<1>3. /\ op'[c].at = "trash" /\ op'[c].slots = {slot}
      /\ \A d \in Caller : d # c => op'[d] = op[d]
      /\ trash' = trash /\ entries' = entries /\ given' = given
  BY DEF Delete, Begin, IInv, Typed, TypeOK, NoOp
<1>4. /\ trash[slot] = None
      /\ \A d \in Caller : slot \notin op[d].slots
      /\ \A t \in Id : entries[t].slot # slot
  BY <1>1, <1>2 DEF IInv, Owned, SlotsFresh
<1>5. \A s \in Slot : s \in Nat
  BY FileOpsOK DEF Slot
<1> HIDE DEF slot
<1>6. SlotsFresh'
  <2> SUFFICES ASSUME NEW s \in Slot, s <= left'["request"]
               PROVE  /\ trash'[s] = None
                      /\ \A d \in Caller : s \notin op'[d].slots
                      /\ \A t \in Id : entries'[t].slot # s
    BY DEF SlotsFresh
  <2>1. s <= left["request"] /\ s # slot
    BY <1>1, <1>2, <1>5 DEF slot
  <2>2. QED
    BY <1>3, <2>1 DEF IInv, Owned, SlotsFresh
<1>7. SlotOwned'
  <2>1. ASSUME NEW d \in Caller, d # c, op'[d].at = "trash"
        PROVE  /\ op'[d].slots # {}
               /\ \A s \in op'[d].slots :
                    /\ trash'[s] = None
                    /\ \A e \in Caller : e # d => s \notin op'[e].slots
                    /\ \A t \in Id : entries'[t].slot # s
    <3>1. op[d].at = "trash" /\ op'[d] = op[d] /\ slot \notin op[d].slots
      BY <1>3, <1>4, <2>1
    <3>2. QED
      BY <1>3, <3>1 DEF IInv, Owned, SlotOwned
  <2>2. QED
    BY <1>3, <1>4, <2>1 DEF SlotOwned
<1>8. SeenGiven' /\ PurgeGiven'
  BY <1>3 DEF IInv, Owned, SeenGiven, PurgeGiven
<1>9. QED
  BY <1>6, <1>7, <1>8 DEF Owned

\* The file goes to a slot that no other request and no entry has.
LEMMA TrashFileKeeps ==
    ASSUME IInv, Typed', NEW c \in Caller, TrashFile(c)
    PROVE  Owned'
<1>1. CASE disk[op[c].from] = None
  <2>1. Steady
    BY <1>1, EndSteady, LeftOnlyFalls DEF TrashFile, Steady, IInv
  <2>2. QED
    BY <2>1, SteadyKeeps
<1>2. CASE disk[op[c].from] # None
  <2>1. op[c] \in Op /\ op[c].slots \subseteq Slot
    BY DEF IInv, Typed, TypeOK, Op
  <2>2. /\ op'[c].at = "entry" /\ op'[c].slots = op[c].slots
        /\ \A d \in Caller : d # c => op'[d] = op[d]
        /\ entries' = entries /\ given' = given /\ left' = left
        /\ \A s \in Slot : s \notin op[c].slots => trash'[s] = trash[s]
    BY <1>2, <2>1 DEF TrashFile, Go, IInv, Typed, TypeOK, Op
  <2>3. \A d \in Caller : d # c => \A s \in op[c].slots : s \notin op[d].slots
    BY DEF TrashFile, IInv, Owned, SlotOwned
  <2>4. SlotsFresh'
    <3> SUFFICES ASSUME NEW s \in Slot, s <= left'["request"]
                 PROVE  /\ trash'[s] = None
                        /\ \A d \in Caller : s \notin op'[d].slots
                        /\ \A t \in Id : entries'[t].slot # s
      BY DEF SlotsFresh
    <3>1. /\ trash[s] = None
          /\ \A d \in Caller : s \notin op[d].slots
          /\ \A t \in Id : entries[t].slot # s
      BY <2>2 DEF IInv, Owned, SlotsFresh
    <3>2. QED
      BY <2>2, <3>1
  <2>5. SlotOwned'
    <3> SUFFICES ASSUME NEW d \in Caller, op'[d].at = "trash"
                 PROVE  /\ op'[d].slots # {}
                        /\ \A s \in op'[d].slots :
                             /\ trash'[s] = None
                             /\ \A e \in Caller : e # d => s \notin op'[e].slots
                             /\ \A t \in Id : entries'[t].slot # s
      BY DEF SlotOwned
    <3>1. d # c /\ op'[d] = op[d] /\ op[d].slots \subseteq Slot
      BY <2>2 DEF IInv, Typed, TypeOK, Op
    <3>2. /\ op[d].slots # {}
          /\ \A s \in op[d].slots :
               /\ trash[s] = None
               /\ \A e \in Caller : e # d => s \notin op[e].slots
               /\ \A t \in Id : entries[t].slot # s
      BY <3>1 DEF IInv, Owned, SlotOwned
    <3>3. \A s \in op[d].slots : trash'[s] = None
      BY <2>2, <2>3, <3>1, <3>2
    <3>4. QED
      BY <2>2, <3>1, <3>2, <3>3
  <2>6. SeenGiven'
    BY <2>2 DEF IInv, Owned, SeenGiven
  <2>7. PurgeGiven'
    <3> SUFFICES ASSUME NEW d \in Caller, op'[d].at = "purge", NEW s \in op'[d].slots
                 PROVE  trash'[s] \in given' \cup {None}
      BY DEF PurgeGiven
    <3>1. d # c /\ op'[d] = op[d] /\ s \in Slot /\ s \notin op[c].slots
      BY <2>2, <2>3 DEF IInv, Typed, TypeOK, Op
    <3>2. trash[s] \in given \cup {None}
      BY <3>1 DEF IInv, Owned, PurgeGiven
    <3>3. QED
      BY <2>2, <3>1, <3>2
  <2>8. QED
    BY <2>4, <2>5, <2>6, <2>7 DEF Owned
<1>3. QED
  BY <1>1, <1>2

LEMMA AddEntryKeeps ==
    ASSUME IInv, Typed', NEW c \in Caller, AddEntry(c)
    PROVE  Owned'
<1>1. op[c] \in Op /\ op[c].slots \subseteq Slot /\ "truncate" \in Kind /\ "request" \in Kind
  BY DEF IInv, Typed, TypeOK, Op, Kind
<1>2. PICK t \in NewId(Entries), slot \in op[c].slots, whole \in BOOLEAN :
         /\ IF whole THEN UNCHANGED left ELSE Spend("truncate")
         /\ entries' = [entries EXCEPT ![t] = Trashed(op[c], slot, whole)]
  BY DEF AddEntry
<1>3. left'["request"] <= left["request"]
  BY <1>1, <1>2, LeftOnlyFalls DEF IInv
<1>4. \A u \in Id : entries'[u].slot \in {entries[u].slot, slot}
  BY <1>2 DEF Trashed, IInv, Typed, TypeOK
<1>5. /\ op'[c].at = "drop" /\ op'[c].slots = op[c].slots
      /\ \A d \in Caller : d # c => op'[d] = op[d]
      /\ trash' = trash /\ given' = given
  BY <1>1 DEF AddEntry, Go, IInv, Typed, TypeOK, Op
<1>6. \A s \in Slot : s \in Nat
  BY FileOpsOK DEF Slot
<1>7. left["request"] \in Nat /\ left'["request"] \in Nat
  BY <1>1 DEF IInv, Typed, TypeOK
<1>8. SlotsFresh'
  <2> SUFFICES ASSUME NEW s \in Slot, s <= left'["request"]
               PROVE  /\ trash'[s] = None
                      /\ \A d \in Caller : s \notin op'[d].slots
                      /\ \A u \in Id : entries'[u].slot # s
    BY DEF SlotsFresh
  <2>1. s <= left["request"]
    BY <1>3, <1>6, <1>7
  <2>2. /\ trash[s] = None
        /\ \A d \in Caller : s \notin op[d].slots
        /\ \A u \in Id : entries[u].slot # s
    BY <2>1 DEF IInv, Owned, SlotsFresh
  <2>3. QED
    BY <1>4, <1>5, <2>2
<1>9. SlotOwned'
  <2> SUFFICES ASSUME NEW d \in Caller, op'[d].at = "trash"
               PROVE  /\ op'[d].slots # {}
                      /\ \A s \in op'[d].slots :
                           /\ trash'[s] = None
                           /\ \A e \in Caller : e # d => s \notin op'[e].slots
                           /\ \A u \in Id : entries'[u].slot # s
    BY DEF SlotOwned
  <2>1. d # c /\ op'[d] = op[d]
    BY <1>5
  <2>2. /\ op[d].slots # {}
        /\ \A s \in op[d].slots :
             /\ trash[s] = None
             /\ \A e \in Caller : e # d => s \notin op[e].slots
             /\ \A u \in Id : entries[u].slot # s
    BY <2>1 DEF IInv, Owned, SlotOwned
  <2>3. slot \notin op[d].slots
    BY <2>1, <2>2
  <2>4. QED
    BY <1>4, <1>5, <2>1, <2>2, <2>3
<1>10. SeenGiven' /\ PurgeGiven'
  BY <1>5 DEF IInv, Owned, SeenGiven, PurgeGiven
<1>11. QED
  BY <1>8, <1>9, <1>10 DEF Owned

-----------------------------------------------------------------------------
LEMMA InitInv == Init => IInv
<1> SUFFICES ASSUME Init PROVE IInv
  OBVIOUS
<1>1. Typed
  BY TypedInit
<1>2. NoOp.at = "idle" /\ NoOp.slots = {} /\ NoEntry.slot = 0
  BY DEF NoOp, NoEntry
<1>3. \A s \in Slot : s # 0
  BY FileOpsOK DEF Slot
<1>4. Owned
  BY <1>2, <1>3 DEF Init, Owned, SlotsFresh, SlotOwned, SeenGiven, PurgeGiven
<1>5. QED
  BY <1>1, <1>4 DEF IInv

LEMMA InductiveInv == IInv /\ [Next]_vars => IInv'
<1> SUFFICES ASSUME IInv, [Next]_vars PROVE IInv'
  OBVIOUS
<1>1. Typed'
  BY TypedStep DEF IInv
<1>2. CASE UNCHANGED vars
  BY <1>2 DEF vars, rowVars, IInv, Typed, TypeOK, Aimed, Owned, SlotsFresh, SlotOwned,
              SeenGiven, PurgeGiven
<1>3. ASSUME NEW c \in Caller, Finish(c) PROVE Owned'
  <2>1. CASE TrashFile(c)
    BY <1>1, <2>1, TrashFileKeeps
  <2>2. CASE AddEntry(c)
    BY <1>1, <2>2, AddEntryKeeps
  <2>3. CASE ~TrashFile(c) /\ ~AddEntry(c)
    <3>1. Steady
      BY <1>3, <2>3, SteadyRequests DEF Finish, IInv
    <3>2. QED
      BY <1>1, <3>1, SteadyKeeps
  <2>4. QED
    BY <2>1, <2>2, <2>3
<1>4. CASE \/ \E p \in Path : ScanAdd(p) \/ \E a \in Asset : Save(p, a)
           \/ \E i \in Id : Prune(i) \/ Tag(i)
           \/ Crash
  <2>1. Steady
    BY <1>4, SteadyAround DEF IInv
  <2>2. QED
    BY <1>1, <2>1, SteadyKeeps DEF IInv
<1>5. QED
  BY <1>1, <1>2, <1>3, <1>4, RelocateKeeps, DeleteKeeps, EraseKeeps, RestoreKeeps,
     EmptyKeeps DEF Next, IInv

-----------------------------------------------------------------------------
(* no file is lost *)

\* The file is somewhere after the step, or nobody wants it, or it is none.
Safe(a) ==
    \/ a \in given' \cup {None}
    \/ \E p \in Path : disk'[p] = a
    \/ \E s \in Slot : trash'[s] = a

Kept == OnDisk \cup InTrash \subseteq (OnDisk \cup InTrash \cup given)'

LEMMA SafeIsKept ==
    ASSUME \A p \in Path : Safe(disk[p]), \A s \in Slot : Safe(trash[s])
    PROVE  Kept
BY DEF Safe, Kept, OnDisk, InTrash

LEMMA UntouchedIsKept ==
    ASSUME UNCHANGED <<disk, trash>>
    PROVE  Kept
BY DEF Kept, OnDisk, InTrash

\* What a request destroys it has seen, unless it raced.
LEMMA WhatIsSeenIsGiven ==
    ASSUME IInv, NEW c \in Caller, NEW p, AsSeen(c, p), Untouched("race")',
           op[c].at \in {"move", "erase", "back"}
    PROVE  disk[p] \in given \cup {None}
<1>1. "race" \in Kind /\ Budget["race"] = 1 /\ left \in [Kind -> Nat]
  BY FileOpsOK DEF Kind, IInv, Typed, TypeOK
<1>2. ~Mark("race")
  BY <1>1 DEF Mark, Untouched
<1>3. disk[p] \in {op[c].seen, None}
  BY <1>2 DEF AsSeen
<1>4. QED
  BY <1>3 DEF IInv, Owned, SeenGiven

LEMMA RelocateFileLosesNothing ==
    ASSUME IInv, NEW c \in Caller, RelocateFile(c), Untouched("race")'
    PROVE  Kept
<1>1. /\ op[c].from \in Path /\ op[c].to \in Path /\ op[c].from # op[c].to
      /\ op[c].at = "move" /\ trash' = trash /\ given' = given
  BY DEF RelocateFile, IInv, Typed, Aimed, AimedAt
<1>2. CASE disk[op[c].from] = None /\ op[c].seen = None
  BY <1>1, <1>2, UntouchedIsKept DEF RelocateFile
<1>3. CASE /\ AsSeen(c, op[c].to)
           /\ \/ disk' = [disk EXCEPT ![op[c].to] = None]
              \/ disk' = [disk EXCEPT ![op[c].from] = None, ![op[c].to] = disk[op[c].from]]
  <2>1. disk[op[c].to] \in given \cup {None}
    <3>1. AsSeen(c, op[c].to)
      BY <1>3
    <3>2. op[c].at \in {"move", "erase", "back"}
      BY <1>1
    <3>3. QED
      BY <3>1, <3>2, WhatIsSeenIsGiven
  <2>2. ASSUME NEW p \in Path PROVE Safe(disk[p])
    <3>1. CASE p = op[c].to
      BY <1>1, <2>1, <3>1 DEF Safe
    <3>2. CASE p # op[c].to
      <4>1. disk'[p] = disk[p] \/ disk'[op[c].to] = disk[p]
        BY <1>1, <1>3, <3>2 DEF IInv, Typed, TypeOK
      <4>2. QED
        BY <1>1, <4>1 DEF Safe
    <3>3. QED
      BY <3>1, <3>2
  <2>3. \A s \in Slot : Safe(trash[s])
    BY <1>1 DEF Safe
  <2>4. QED
    BY <2>2, <2>3, SafeIsKept
<1>4. QED
  BY <1>2, <1>3 DEF RelocateFile

LEMMA TrashFileLosesNothing ==
    ASSUME IInv, NEW c \in Caller, TrashFile(c)
    PROVE  Kept
<1>1. /\ op[c].from \in Path /\ op[c].slots \subseteq Slot /\ op[c].slots # {}
      /\ \A s \in op[c].slots : trash[s] = None
  BY DEF TrashFile, IInv, Typed, Aimed, AimedAt, TypeOK, Op, Owned, SlotOwned
<1>2. CASE UNCHANGED <<disk, trash>>
  BY <1>2, UntouchedIsKept
<1>3. CASE /\ trash' = [s \in Slot |-> IF s \in op[c].slots THEN disk[op[c].from] ELSE trash[s]]
           /\ disk' = [disk EXCEPT ![op[c].from] = None]
  <2>1. PICK slot \in op[c].slots : slot \in Slot /\ trash'[slot] = disk[op[c].from]
    BY <1>1, <1>3
  <2>2. ASSUME NEW p \in Path PROVE Safe(disk[p])
    <3>1. disk'[p] = disk[p] \/ trash'[slot] = disk[p]
      BY <1>1, <1>3, <2>1 DEF IInv, Typed, TypeOK
    <3>2. QED
      BY <2>1, <3>1 DEF Safe
  <2>3. ASSUME NEW s \in Slot PROVE Safe(trash[s])
    BY <1>1, <1>3 DEF Safe
  <2>4. QED
    BY <2>2, <2>3, SafeIsKept
<1>4. QED
  BY <1>2, <1>3 DEF TrashFile

LEMMA EraseFileLosesNothing ==
    ASSUME IInv, NEW c \in Caller, EraseFile(c), Untouched("race")'
    PROVE  Kept
<1>1. op[c].at = "erase" /\ op[c].from \in Path
  BY DEF EraseFile, IInv, Typed, Aimed, AimedAt
<1>2. disk[op[c].from] \in given \cup {None}
  BY <1>1, WhatIsSeenIsGiven DEF EraseFile
<1>3. \A p \in Path : Safe(disk[p])
  BY <1>1, <1>2 DEF EraseFile, Safe, IInv, Typed, TypeOK
<1>4. \A s \in Slot : Safe(trash[s])
  BY DEF EraseFile, Safe
<1>5. QED
  BY <1>3, <1>4, SafeIsKept

LEMMA RestoreFileLosesNothing ==
    ASSUME IInv, NEW c \in Caller, RestoreFile(c), Untouched("race")'
    PROVE  Kept
<1>1. op[c].at = "back" /\ op[c].to \in Path /\ op[c].plan.slot \in Slot /\ given' = given
  BY DEF RestoreFile, IInv, Typed, Aimed, AimedAt, Entry
<1>2. CASE UNCHANGED <<disk, trash>>
  BY <1>2, UntouchedIsKept
<1>3. CASE /\ AsSeen(c, op[c].to)
           /\ disk' = [disk EXCEPT ![op[c].to] = trash[op[c].plan.slot]]
           /\ trash' = [trash EXCEPT ![op[c].plan.slot] = None]
  <2>1. disk[op[c].to] \in given \cup {None}
    <3>1. AsSeen(c, op[c].to)
      BY <1>3
    <3>2. op[c].at \in {"move", "erase", "back"}
      BY <1>1
    <3>3. QED
      BY <3>1, <3>2, WhatIsSeenIsGiven
  <2>2. ASSUME NEW p \in Path PROVE Safe(disk[p])
    BY <1>1, <1>3, <2>1 DEF Safe, IInv, Typed, TypeOK
  <2>3. ASSUME NEW s \in Slot PROVE Safe(trash[s])
    <3>1. trash'[s] = trash[s] \/ disk'[op[c].to] = trash[s]
      BY <1>1, <1>3 DEF IInv, Typed, TypeOK
    <3>2. QED
      BY <1>1, <3>1 DEF Safe
  <2>4. QED
    BY <2>2, <2>3, SafeIsKept
<1>4. QED
  BY <1>2, <1>3 DEF RestoreFile

LEMMA EmptyFilesLosesNothing ==
    ASSUME IInv, NEW c \in Caller, EmptyFiles(c)
    PROVE  Kept
<1>1. \A s \in op[c].slots : trash[s] \in given \cup {None}
  BY DEF EmptyFiles, IInv, Owned, PurgeGiven
<1>2. \A p \in Path : Safe(disk[p])
  BY DEF EmptyFiles, Safe
<1>3. \A s \in Slot : Safe(trash[s])
  BY <1>1 DEF EmptyFiles, Purged, Safe
<1>4. QED
  BY <1>2, <1>3, SafeIsKept

LEMMA SaveLosesNothing ==
    ASSUME IInv, NEW p \in Path, NEW a \in Asset, Save(p, a)
    PROVE  Kept
<1>1. \A q \in Path : Safe(disk[q])
  BY DEF Save, Safe, IInv, Typed, TypeOK
<1>2. \A s \in Slot : Safe(trash[s])
  BY DEF Save, Safe
<1>3. QED
  BY <1>1, <1>2, SafeIsKept

LEMMA NoStepLosesAFile ==
    ASSUME IInv, [Next]_vars, Untouched("race")'
    PROVE  Kept
<1>1. CASE UNCHANGED vars
  BY <1>1, UntouchedIsKept DEF vars
<1>2. ASSUME NEW c \in Caller, Finish(c) PROVE Kept
  <2>1. CASE RelocateRow(c) \/ AddEntry(c) \/ DropRow(c) \/ RestoreRow(c)
    BY <2>1, UntouchedIsKept DEF RelocateRow, AddEntry, DropRow, RestoreRow
  <2>2. CASE Forget(c) \/ EmptyRows(c)
    BY <2>2, UntouchedIsKept DEF Forget, EmptyRows, ForgetAll
  <2>3. QED
    BY <1>2, <2>1, <2>2, RelocateFileLosesNothing, TrashFileLosesNothing,
       EraseFileLosesNothing, RestoreFileLosesNothing, EmptyFilesLosesNothing DEF Finish
<1>3. ASSUME NEW c \in Caller,
             \/ \E i \in Id, p \in Path : Relocate(c, i, p)
             \/ \E i \in Id : Delete(c, i) \/ Erase(c, i)
             \/ \E t \in Id, p \in Path : Restore(c, t, p)
             \/ \E tids \in SUBSET Id, all \in BOOLEAN : Empty(c, tids, all)
      PROVE  Kept
  BY <1>3, UntouchedIsKept DEF Relocate, Delete, Erase, Restore, Empty
<1>4. CASE \/ \E p \in Path : ScanAdd(p)
           \/ \E i \in Id : Prune(i) \/ Tag(i)
           \/ Crash
  BY <1>4, UntouchedIsKept DEF ScanAdd, Prune, Tag, Crash
<1>5. QED
  BY <1>1, <1>2, <1>3, <1>4, SaveLosesNothing DEF Next

\* For any number of files, requests, scans, other programs and crashes: a file
\* of the library or of the trash stays in one of them until a request was told
\* to destroy it, as long as nothing appears between a request's look and its
\* step.
THEOREM NoFileIsLost == Spec => BytesKept
<1>1. IInv /\ [Next]_vars =>
        [Untouched("race")' => OnDisk \cup InTrash \subseteq (OnDisk \cup InTrash \cup given)']_vars
  BY NoStepLosesAFile DEF Kept
<1>2. QED
  BY <1>1, InitInv, InductiveInv, PTL DEF Spec, BytesKept

-----------------------------------------------------------------------------
(* The trash.  A slot is taken by one delete, filled, and named by the     *)
(* entry the delete adds (OneSlot, EntryOwned); what a restore or an       *)
(* emptying forgets, it has taken out before (Emptied).  So while no       *)
(* process died and no entry was swept, a filled slot has its entry, or    *)
(* the request that is about to add it (Covered).                          *)

OneSlot ==
    \A c \in Caller :
        /\ op[c].at \in {"trash", "entry"} => \E s \in Slot : op[c].slots = {s}
        /\ op[c].at = "back" => op[c].slots = {op[c].plan.slot}

EntryOwned ==
    \A c \in Caller : op[c].at = "entry" =>
        \A s \in op[c].slots :
            /\ \A d \in Caller : d # c => s \notin op[d].slots
            /\ \A t \in Id : entries[t].slot # s

Emptied ==
    \A c \in Caller : op[c].at \in {"rebuild", "forget", "clear"} =>
        \A s \in op[c].slots : trash[s] = None

Named(s) ==
    \/ \E t \in Id : entries[t].slot = s
    \/ \E c \in Caller : op[c].at = "entry" /\ s \in op[c].slots

Covered ==
    Untouched("crash") /\ Untouched("sweep") =>
        \A s \in Slot : trash[s] # None => Named(s)

Recoverable == OneSlot /\ EntryOwned /\ Emptied /\ Covered

\* What has not happened after a step had not happened before it.
Lasting == \A k \in Kind : Untouched(k)' => Untouched(k)

LEMMA LastingStep ==
    ASSUME Typed,
           \/ UNCHANGED left
           \/ \E k \in Kind : Spend(k) \/ Mark(k) \/ \E i \in Id : Take(k, i)
           \/ \E c \in Caller, p \in Path : AsSeen(c, p)
    PROVE  Lasting
<1>1. /\ left \in [Kind -> Nat] /\ Budget \in [Kind -> Nat]
      /\ \A k \in Kind : left[k] <= Budget[k]
  BY FileOpsOK DEF Typed, TypeOK
<1>2. CASE UNCHANGED left
  BY <1>2 DEF Lasting, Untouched
<1>3. CASE ~UNCHANGED left
  <2>1. left' \in [Kind -> Nat] /\ \A k \in Kind : left'[k] <= left[k]
    BY <1>3, SpendTyped, MarkTyped, TakeTyped, AsSeenTyped DEF Typed
  <2>2. QED
    BY <1>1, <2>1 DEF Lasting, Untouched
<1>4. QED
  BY <1>2, <1>3

LEMMA SaveLasts ==
    ASSUME Typed, NEW p \in Path, NEW a \in Asset, Save(p, a)
    PROVE  Lasting
<1>1. /\ left \in [Kind -> Nat] /\ Budget \in [Kind -> Nat]
      /\ \A k \in Kind : left[k] <= Budget[k]
      /\ {"save", "any", "race"} \subseteq Kind
  BY FileOpsOK DEF Typed, TypeOK, Kind
<1>3. left["save"] > 0 /\ left["any"] > 0 /\ left'["save"] # Budget["save"] /\ left'["any"] # Budget["any"]
  BY <1>1 DEF Save, CanSpend
<1>4. \A k \in Kind \ {"save", "any"} : left'[k] = left[k] \/ (k = "race" /\ left'[k] = 0)
  BY <1>1 DEF Save
<1>5. QED
  BY <1>1, <1>3, <1>4 DEF Lasting, Untouched

LEMMA LastingRequest ==
    ASSUME Typed, NEW c \in Caller,
           \/ Finish(c)
           \/ \E i \in Id, p \in Path : Relocate(c, i, p)
           \/ \E i \in Id : Delete(c, i) \/ Erase(c, i)
           \/ \E t \in Id, p \in Path : Restore(c, t, p)
           \/ \E tids \in SUBSET Id, all \in BOOLEAN : Empty(c, tids, all)
    PROVE  Lasting
<1>k. {"race", "clash", "sweep", "truncate", "request", "overwrite"} \subseteq Kind
  BY DEF Kind
<1>1. CASE RelocateFile(c) \/ EraseFile(c) \/ RestoreFile(c)
  <2>1. \/ op[c].at \in {"move", "back"} /\ op[c].to \in Path
        \/ op[c].at = "erase" /\ op[c].from \in Path
    BY <1>1 DEF RelocateFile, EraseFile, RestoreFile, Typed, Aimed, AimedAt
  <2>2. UNCHANGED left \/ \E d \in Caller, p \in Path : AsSeen(d, p)
    BY <1>1, <2>1 DEF RelocateFile, EraseFile, RestoreFile
  <2>3. QED
    BY <2>2, LastingStep
<1>2. CASE RelocateRow(c) \/ TrashFile(c) \/ AddEntry(c) \/ DropRow(c) \/ RestoreRow(c)
           \/ Forget(c) \/ EmptyFiles(c) \/ EmptyRows(c)
  <2>1. UNCHANGED left \/ \E k \in Kind : Spend(k) \/ Mark(k)
    BY <1>2, <1>k DEF RelocateRow, TrashFile, AddEntry, DropRow, RestoreRow, Forget,
       EmptyFiles, EmptyRows, ForgetAll
  <2>2. QED
    BY <2>1, LastingStep
<1>3. CASE ~Finish(c)
  <2>1. \E k \in Kind : Spend(k) \/ \E i \in Id : Take(k, i)
    BY <1>3, <1>k DEF Relocate, Delete, Erase, Restore, Empty
  <2>2. QED
    BY <2>1, LastingStep
<1>4. QED
  BY <1>1, <1>2, <1>3 DEF Finish

\* How a request goes on, and how it begins or ends.
LEMMA GoFields ==
    ASSUME Typed, NEW c \in Caller, NEW step, Go(c, step)
    PROVE  /\ op'[c].at = step /\ op'[c].slots = op[c].slots /\ op'[c].plan = op[c].plan
           /\ op'[c].id = op[c].id /\ op'[c].from = op[c].from /\ op'[c].to = op[c].to
           /\ op'[c].seen = op[c].seen
           /\ \A d \in Caller : d # c => op'[d] = op[d]
<1>1. op[c] \in Op
  BY DEF Typed, TypeOK
<1>2. QED
  BY <1>1 DEF Go, Typed, TypeOK, Op

LEMMA EndFields ==
    ASSUME Typed, NEW c \in Caller, End(c)
    PROVE  /\ op'[c].at = "idle" /\ op'[c].slots = {} /\ op'[c].id = 0
           /\ \A d \in Caller : d # c => op'[d] = op[d]
BY DEF End, NoOp, Typed, TypeOK

LEMMA BeginFields ==
    ASSUME Typed, NEW c \in Caller, NEW next, Begin(c, next)
    PROVE  /\ op[c].at = "idle" /\ op'[c] = next
           /\ \A d \in Caller : d # c => op'[d] = op[d]
BY DEF Begin, Typed, TypeOK

\* Every step that has nothing to do with the trash.
Plain ==
    /\ UNCHANGED <<trash, entries>>
    /\ \A c \in Caller :
         \/ op'[c] = op[c]
         \/ /\ op[c].at # "entry"
            /\ op'[c].slots \subseteq op[c].slots
            /\ op'[c].at = "forget" => op[c].at = "rebuild"
            /\ op'[c].at \notin {"trash", "entry", "back", "rebuild", "clear"}

LEMMA PlainKeeps ==
    ASSUME Recoverable, Plain, Lasting
    PROVE  Recoverable'
<1>1. trash' = trash /\ entries' = entries
  BY DEF Plain
<1>2. \A c \in Caller : op'[c].at \in {"trash", "entry", "back"} => op'[c] = op[c]
  BY DEF Plain
<1>3. \A c \in Caller : op[c].at = "entry" => op'[c] = op[c]
  BY DEF Plain
<1>4. \A c \in Caller : op'[c].slots \subseteq op[c].slots
  BY DEF Plain
<1>5. \A c \in Caller : op'[c].at \in {"rebuild", "forget", "clear"} =>
                           op[c].at \in {"rebuild", "forget", "clear"}
  BY DEF Plain
<1>6. OneSlot'
  BY <1>2 DEF Recoverable, OneSlot
<1>7. EntryOwned'
  BY <1>1, <1>2, <1>4 DEF Recoverable, EntryOwned
<1>8. Emptied'
  BY <1>1, <1>4, <1>5 DEF Recoverable, Emptied
<1>9. \A s \in Slot : Named(s) => Named(s)'
  BY <1>1, <1>3 DEF Named
<1>10. Covered'
  BY <1>1, <1>9 DEF Recoverable, Covered, Lasting, Kind
<1>11. QED
  BY <1>6, <1>7, <1>8, <1>10 DEF Recoverable

LEMMA PlainRequests ==
    ASSUME Typed, NEW c \in Caller,
           \/ RelocateFile(c) \/ RelocateRow(c) \/ DropRow(c) \/ EraseFile(c) \/ RestoreRow(c)
           \/ \E i \in Id, p \in Path : Relocate(c, i, p)
           \/ \E i \in Id : Erase(c, i)
    PROVE  Plain
<1>0. ASSUME NEW next, Begin(c, next), next.at \in {"move", "erase"}, next.slots = {},
             UNCHANGED <<trash, entries>>
      PROVE  Plain
  BY <1>0, BeginFields DEF Plain
<1>1. CASE \E i \in Id, p \in Path : Relocate(c, i, p)
  <2>1. PICK i \in Id, p \in Path : Relocate(c, i, p)
    BY <1>1
  <2> DEFINE next == [NoOp EXCEPT !.at = "move", !.id = i, !.from = path[i], !.to = p,
                                  !.seen = disk[p]]
  <2>2. Begin(c, next) /\ UNCHANGED <<trash, entries>>
    BY <2>1 DEF Relocate
  <2>3. next.at = "move" /\ next.slots = {}
    BY DEF NoOp
  <2>4. QED
    BY <1>0, <2>2, <2>3
<1>3. CASE \E i \in Id : Erase(c, i)
  <2>1. PICK i \in Id : Erase(c, i)
    BY <1>3
  <2> DEFINE next == [NoOp EXCEPT !.at = "erase", !.id = i, !.from = path[i],
                                  !.seen = disk[path[i]]]
  <2>2. Begin(c, next) /\ UNCHANGED <<trash, entries>>
    BY <2>1 DEF Erase
  <2>3. next.at = "erase" /\ next.slots = {}
    BY DEF NoOp
  <2>4. QED
    BY <1>0, <2>2, <2>3
<1>2. CASE RelocateFile(c) \/ RelocateRow(c) \/ DropRow(c) \/ EraseFile(c) \/ RestoreRow(c)
  <2>1. /\ op[c].at \in {"move", "row", "drop", "erase", "rebuild"}
        /\ UNCHANGED <<trash, entries>>
        /\ End(c) \/ Go(c, "row") \/ Go(c, "drop") \/ (op[c].at = "rebuild" /\ Go(c, "forget"))
    BY <1>2 DEF RelocateFile, RelocateRow, DropRow, EraseFile, RestoreRow
  <2>2. QED
    BY <2>1, GoFields, EndFields DEF Plain
<1>4. QED
  BY <1>1, <1>2, <1>3

LEMMA DeleteRecovers ==
    ASSUME IInv, Recoverable, NEW c \in Caller, NEW i \in Id, Delete(c, i)
    PROVE  Recoverable'
<1> DEFINE slot == left["request"]
<1>1. slot \in Slot /\ slot <= left["request"]
  <2>1. left \in [Kind -> Nat] /\ "request" \in Kind /\ left["request"] <= Budget["request"]
    BY DEF IInv, Typed, TypeOK, Kind
  <2>2. QED
    BY <2>1, FileOpsOK DEF Delete, Take, CanSpend, Slot
<1>2. /\ op[c].at = "idle" /\ op'[c].at = "trash" /\ op'[c].slots = {slot}
      /\ \A d \in Caller : d # c => op'[d] = op[d]
      /\ trash' = trash /\ entries' = entries
  BY DEF Delete, Begin, IInv, Typed, TypeOK, NoOp
<1>3. \A d \in Caller : slot \notin op[d].slots
  BY <1>1 DEF IInv, Owned, SlotsFresh
<1> HIDE DEF slot
<1>4. OneSlot'
  BY <1>1, <1>2 DEF Recoverable, OneSlot
<1>5. EntryOwned'
  <2> SUFFICES ASSUME NEW d \in Caller, op'[d].at = "entry", NEW s \in op'[d].slots
               PROVE  /\ \A e \in Caller : e # d => s \notin op'[e].slots
                      /\ \A t \in Id : entries'[t].slot # s
    BY DEF EntryOwned
  <2>1. op'[d] = op[d] /\ op[d].at = "entry" /\ s \in op[d].slots /\ s # slot
    BY <1>2, <1>3
  <2>2. QED
    BY <1>2, <2>1 DEF Recoverable, EntryOwned
<1>6. Emptied'
  BY <1>2 DEF Recoverable, Emptied
<1>7. \A s \in Slot : Named(s) => Named(s)'
  BY <1>2 DEF Named
<1>8. Covered'
  <2>1. Lasting
    BY LastingRequest DEF IInv
  <2>2. QED
    BY <1>2, <1>7, <2>1 DEF Recoverable, Covered, Lasting, Kind
<1>9. QED
  BY <1>4, <1>5, <1>6, <1>8 DEF Recoverable

LEMMA TrashFileRecovers ==
    ASSUME IInv, Recoverable, NEW c \in Caller, TrashFile(c), disk[op[c].from] # None
    PROVE  Recoverable'
<1>1. op[c].at = "trash" /\ op[c].slots \subseteq Slot
  BY DEF TrashFile, IInv, Typed, TypeOK, Op
<1>2. /\ op'[c].at = "entry" /\ op'[c].slots = op[c].slots
      /\ \A d \in Caller : d # c => op'[d] = op[d]
  BY GoFields DEF TrashFile, IInv
<1>3. entries' = entries /\ \A s \in Slot : s \notin op[c].slots => trash'[s] = trash[s]
  BY DEF TrashFile
<1>4. \A s \in op[c].slots : /\ \A d \in Caller : d # c => s \notin op[d].slots
                             /\ \A t \in Id : entries[t].slot # s
  BY <1>1 DEF IInv, Owned, SlotOwned
<1>5. OneSlot'
  BY <1>1, <1>2 DEF Recoverable, OneSlot
<1>6. EntryOwned'
  BY <1>2, <1>3, <1>4 DEF Recoverable, EntryOwned
<1>7. Emptied'
  <2> SUFFICES ASSUME NEW d \in Caller, op'[d].at \in {"rebuild", "forget", "clear"},
                      NEW s \in op'[d].slots
               PROVE  trash'[s] = None
    BY DEF Emptied
  <2>1. d # c /\ op'[d] = op[d] /\ s \notin op[c].slots
    BY <1>2, <1>4
  <2>2. s \in Slot
    BY <2>1 DEF IInv, Typed, TypeOK, Op
  <2>3. QED
    BY <1>3, <2>1, <2>2 DEF Recoverable, Emptied
<1>8. \A s \in Slot : Named(s) \/ s \in op[c].slots => Named(s)'
  BY <1>1, <1>2, <1>3 DEF Named
<1>9. Covered'
  <2>1. Lasting
    BY LastingRequest DEF IInv, Finish
  <2>2. QED
    BY <1>3, <1>8, <2>1 DEF Recoverable, Covered, Lasting, Kind
<1>10. QED
  BY <1>5, <1>6, <1>7, <1>9 DEF Recoverable

LEMMA AddEntryRecovers ==
    ASSUME IInv, Recoverable, NEW c \in Caller, AddEntry(c)
    PROVE  Recoverable'
<1>1. op[c].at = "entry" /\ op[c].slots \subseteq Slot
  BY DEF AddEntry, IInv, Typed, TypeOK, Op
<1>2. PICK t \in NewId(Entries), slot \in op[c].slots, whole \in BOOLEAN :
         entries' = [entries EXCEPT ![t] = Trashed(op[c], slot, whole)]
  BY DEF AddEntry
<1>3. /\ op'[c].at = "drop" /\ op'[c].slots = op[c].slots
      /\ \A d \in Caller : d # c => op'[d] = op[d]
      /\ trash' = trash
  BY GoFields DEF AddEntry, IInv
<1>4. t \in Id /\ entries[t] = NoEntry
  <2>1. t \in Id /\ \A u \in Entries : u < t
    BY DEF NewId
  <2>2. ~(t < t)
    BY <2>1 DEF Id
  <2>3. QED
    BY <2>1, <2>2 DEF Entries
<1>5. /\ entries'[t].slot = slot
      /\ \A u \in Id : u # t => entries'[u] = entries[u]
  BY <1>2, <1>4 DEF Trashed, IInv, Typed, TypeOK
<1>6. op[c].slots = {slot} /\ slot \in Slot
  BY <1>1 DEF Recoverable, OneSlot
<1>7. OneSlot'
  BY <1>3 DEF Recoverable, OneSlot
<1>8. EntryOwned'
  <2> SUFFICES ASSUME NEW d \in Caller, op'[d].at = "entry", NEW s \in op'[d].slots
               PROVE  /\ \A e \in Caller : e # d => s \notin op'[e].slots
                      /\ \A u \in Id : entries'[u].slot # s
    BY DEF EntryOwned
  <2>1. d # c /\ op'[d] = op[d]
    BY <1>3
  <2>2. /\ \A e \in Caller : e # d => s \notin op[e].slots
        /\ \A u \in Id : entries[u].slot # s
    BY <2>1 DEF Recoverable, EntryOwned
  <2>3. QED
    BY <1>3, <1>5, <1>6, <2>1, <2>2
<1>9. Emptied'
  BY <1>3 DEF Recoverable, Emptied
<1>10. \A s \in Slot : Named(s) => Named(s)'
  <2> SUFFICES ASSUME NEW s \in Slot, Named(s)
               PROVE  Named(s)'
    OBVIOUS
  <2>1. CASE s = slot
    BY <1>4, <1>5, <2>1 DEF Named
  <2>2. CASE s # slot
    <3>1. CASE \E u \in Id : entries[u].slot = s
      <4>1. PICK u \in Id : entries[u].slot = s
        BY <3>1
      <4>2. u # t
        BY <1>4, <4>1, FileOpsOK DEF NoEntry, Slot
      <4>3. QED
        BY <1>5, <4>1, <4>2 DEF Named
    <3>2. ASSUME NEW d \in Caller, op[d].at = "entry", s \in op[d].slots
          PROVE  Named(s)'
      BY <1>3, <1>6, <2>2, <3>2 DEF Named
    <3>3. QED
      BY <3>1, <3>2 DEF Named
  <2>3. QED
    BY <2>1, <2>2
<1>11. Covered'
  <2>1. Lasting
    BY LastingRequest DEF IInv, Finish
  <2>2. QED
    BY <1>3, <1>10, <2>1 DEF Recoverable, Covered, Lasting, Kind
<1>12. QED
  BY <1>7, <1>8, <1>9, <1>11 DEF Recoverable

\* A request that begins with slots that entries name.
LEMMA BeginRecovers ==
    ASSUME IInv, Recoverable, NEW c \in Caller, NEW next, Begin(c, next), Lasting,
           UNCHANGED <<trash, entries>>,
           next.at \in {"back", "purge"},
           next.at = "back" => next.slots = {next.plan.slot},
           \A s \in next.slots : \E t \in Id : entries[t].slot = s
    PROVE  Recoverable'
<1>1. /\ op[c].at = "idle" /\ op'[c] = next
      /\ \A d \in Caller : d # c => op'[d] = op[d]
  BY BeginFields DEF IInv
<1>2. OneSlot'
  BY <1>1 DEF Recoverable, OneSlot
<1>3. EntryOwned'
  <2> SUFFICES ASSUME NEW d \in Caller, op'[d].at = "entry", NEW s \in op'[d].slots
               PROVE  /\ \A e \in Caller : e # d => s \notin op'[e].slots
                      /\ \A t \in Id : entries'[t].slot # s
    BY DEF EntryOwned
  <2>1. d # c /\ op'[d] = op[d]
    BY <1>1
  <2>2. /\ \A e \in Caller : e # d => s \notin op[e].slots
        /\ \A t \in Id : entries[t].slot # s
    BY <2>1 DEF Recoverable, EntryOwned
  <2>3. s \notin next.slots
    BY <2>2
  <2>4. QED
    BY <1>1, <2>2, <2>3
<1>4. Emptied'
  BY <1>1 DEF Recoverable, Emptied
<1>5. \A s \in Slot : Named(s) => Named(s)'
  BY <1>1 DEF Named
<1>6. Covered'
  BY <1>5 DEF Recoverable, Covered, Lasting, Kind
<1>7. QED
  BY <1>2, <1>3, <1>4, <1>6 DEF Recoverable

LEMMA RestoreRecovers ==
    ASSUME IInv, Recoverable, NEW c \in Caller, NEW t \in Id, NEW p \in Path, Restore(c, t, p)
    PROVE  Recoverable'
<1>1. Lasting
  BY LastingRequest DEF IInv
<1> DEFINE next == [NoOp EXCEPT !.at = "back", !.to = p, !.seen = disk[p],
                                !.slots = {entries[t].slot}, !.tids = {t},
                                !.plan = entries[t]]
<1>2. Begin(c, next) /\ UNCHANGED <<trash, entries>>
  BY DEF Restore
<1>3. next.at = "back" /\ next.slots = {entries[t].slot} /\ next.plan = entries[t]
  BY DEF NoOp
<1> HIDE DEF next
<1>4. QED
  BY <1>1, <1>2, <1>3, BeginRecovers

LEMMA EmptyRecovers ==
    ASSUME IInv, Recoverable, NEW c \in Caller, NEW tids \in SUBSET Id, NEW all \in BOOLEAN,
           Empty(c, tids, all)
    PROVE  Recoverable'
<1>1. Lasting
  BY LastingRequest DEF IInv
<1> DEFINE next == [NoOp EXCEPT !.at = "purge", !.tids = tids, !.all = all,
                                !.slots = {entries[t].slot : t \in tids}]
<1>2. Begin(c, next) /\ UNCHANGED <<trash, entries>>
  BY DEF Empty
<1>3. next.at = "purge" /\ next.slots = {entries[t].slot : t \in tids}
  BY DEF NoOp
<1> HIDE DEF next
<1>4. QED
  BY <1>1, <1>2, <1>3, BeginRecovers

\* Files leave the trash: what was theirs is empty, all else is as it was.
LEMMA TakenOutRecovers ==
    ASSUME IInv, Recoverable, NEW c \in Caller, Lasting,
           entries' = entries,
           op[c].at \in {"back", "purge"},
           op'[c].at \in {"rebuild", "clear"},
           op'[c].slots = op[c].slots,
           \A d \in Caller : d # c => op'[d] = op[d],
           \A s \in Slot : trash'[s] = IF s \in op[c].slots THEN None ELSE trash[s]
    PROVE  Recoverable'
<1>1. \A d \in Caller : op[d].slots \subseteq Slot
  BY DEF IInv, Typed, TypeOK, Op
<1>2. OneSlot'
  BY DEF Recoverable, OneSlot
<1>3. EntryOwned'
  <2>1. \A d \in Caller : op'[d].slots = op[d].slots
    OBVIOUS
  <2>2. QED
    BY <2>1 DEF Recoverable, EntryOwned
<1>4. Emptied'
  BY <1>1 DEF Recoverable, Emptied
<1>5. \A s \in Slot : Named(s) => Named(s)'
  BY DEF Named
<1>6. Covered'
  BY <1>5 DEF Recoverable, Covered, Lasting, Kind
<1>7. QED
  BY <1>2, <1>3, <1>4, <1>6 DEF Recoverable

LEMMA RestoreFileRecovers ==
    ASSUME IInv, Recoverable, NEW c \in Caller, RestoreFile(c)
    PROVE  Recoverable'
<1>1. Lasting
  BY LastingRequest DEF IInv, Finish
<1>2. op[c].at = "back" /\ op[c].slots = {op[c].plan.slot}
  BY DEF RestoreFile, Recoverable, OneSlot
<1>3. CASE trash[op[c].plan.slot] = None
  <2>1. Plain
    BY <1>2, <1>3, EndFields DEF RestoreFile, Plain, IInv
  <2>2. QED
    BY <1>1, <2>1, PlainKeeps
<1>4. CASE trash[op[c].plan.slot] # None
  <2>1. Go(c, "rebuild") /\ entries' = entries
    BY <1>4 DEF RestoreFile
  <2>2. \A s \in Slot : trash'[s] = IF s \in op[c].slots THEN None ELSE trash[s]
    BY <1>2, <1>4 DEF RestoreFile, IInv, Typed, TypeOK
  <2>3. QED
    BY <1>1, <1>2, <2>1, <2>2, GoFields, TakenOutRecovers DEF IInv
<1>5. QED
  BY <1>3, <1>4

LEMMA EmptyFilesRecovers ==
    ASSUME IInv, Recoverable, NEW c \in Caller, EmptyFiles(c)
    PROVE  Recoverable'
<1>1. Lasting
  BY LastingRequest DEF IInv, Finish
<1>2. op[c].at = "purge" /\ Go(c, "clear") /\ entries' = entries
  BY DEF EmptyFiles
<1>3. \A s \in Slot : trash'[s] = IF s \in op[c].slots THEN None ELSE trash[s]
  BY DEF EmptyFiles, Purged
<1>4. QED
  BY <1>1, <1>2, <1>3, GoFields, TakenOutRecovers DEF IInv

\* Only entries go whose files are out of the trash, unless they are swept.
LEMMA ForgetRecovers ==
    ASSUME IInv, Recoverable, NEW c \in Caller, Forget(c) \/ EmptyRows(c)
    PROVE  Recoverable'
<1>1. Lasting
  BY LastingRequest DEF IInv, Finish
<1>2. PICK tids : ForgetAll(c, tids)
  BY DEF Forget, EmptyRows
<1>3. /\ op'[c].at = "idle" /\ op'[c].slots = {} /\ trash' = trash
      /\ \A d \in Caller : d # c => op'[d] = op[d]
  BY <1>2, EndFields DEF ForgetAll, IInv
<1>4. op[c].at \in {"forget", "clear"}
  BY DEF Forget, EmptyRows
<1>5. \A t \in Id : entries'[t] = IF t \in tids THEN NoEntry ELSE entries[t]
  BY <1>2 DEF ForgetAll, Forgotten
<1>6. \A s \in Slot : s # 0
  BY FileOpsOK DEF Slot
<1>7. OneSlot'
  BY <1>3 DEF Recoverable, OneSlot
<1>8. EntryOwned'
  <2> SUFFICES ASSUME NEW d \in Caller, op'[d].at = "entry", NEW s \in op'[d].slots
               PROVE  /\ \A e \in Caller : e # d => s \notin op'[e].slots
                      /\ \A t \in Id : entries'[t].slot # s
    BY DEF EntryOwned
  <2>1. d # c /\ op'[d] = op[d] /\ s \in Slot
    BY <1>3 DEF IInv, Typed, TypeOK, Op
  <2>2. /\ \A e \in Caller : e # d => s \notin op[e].slots
        /\ \A t \in Id : entries[t].slot # s
    BY <2>1 DEF Recoverable, EntryOwned
  <2>3. QED
    BY <1>3, <1>5, <1>6, <2>1, <2>2 DEF NoEntry
<1>9. Emptied'
  BY <1>3 DEF Recoverable, Emptied
<1>10. Covered'
  <2> SUFFICES ASSUME Untouched("crash")', Untouched("sweep")', NEW s \in Slot, trash[s] # None
               PROVE  Named(s)'
    BY <1>3 DEF Covered
  <2>1. \A t \in tids \cap Entries : entries[t].slot \in op[c].slots
    <3>1. left \in [Kind -> Nat] /\ "sweep" \in Kind /\ Budget["sweep"] = 1
      BY FileOpsOK DEF IInv, Typed, TypeOK, Kind
    <3>2. ~Mark("sweep")
      BY <3>1 DEF Mark, Untouched
    <3>3. QED
      BY <1>2, <3>2 DEF ForgetAll
  <2>2. s \notin op[c].slots
    BY <1>4 DEF Recoverable, Emptied
  <2>3. Named(s)
    BY <1>1 DEF Recoverable, Covered, Lasting, Kind
  <2>4. CASE \E t \in Id : entries[t].slot = s
    <3>1. PICK t \in Id : entries[t].slot = s
      BY <2>4
    <3>2. t \in Entries
      BY <1>6, <3>1 DEF Entries, NoEntry
    <3>3. t \notin tids
      BY <2>1, <2>2, <3>1, <3>2
    <3>4. QED
      BY <1>5, <3>1, <3>3 DEF Named
  <2>5. ASSUME NEW d \in Caller, op[d].at = "entry", s \in op[d].slots
        PROVE  Named(s)'
    BY <1>3, <1>4, <2>5 DEF Named
  <2>6. QED
    BY <2>3, <2>4, <2>5 DEF Named
<1>11. QED
  BY <1>7, <1>8, <1>9, <1>10 DEF Recoverable

LEMMA AroundRecovers ==
    ASSUME IInv, Recoverable,
           \/ \E p \in Path : ScanAdd(p) \/ \E a \in Asset : Save(p, a)
           \/ \E i \in Id : Prune(i) \/ Tag(i)
           \/ Crash
    PROVE  Recoverable'
<1>k. {"overlap", "prune", "tag", "crash", "save", "any", "race"} \subseteq Kind
  BY DEF Kind
<1>1. CASE \/ \E p \in Path : ScanAdd(p) \/ \E a \in Asset : Save(p, a)
           \/ \E i \in Id : Prune(i) \/ Tag(i)
  <2>1. Plain
    BY <1>1 DEF ScanAdd, Save, Prune, Tag, Plain
  <2>2. Lasting
    <3>1. ASSUME NEW p \in Path, NEW a \in Asset, Save(p, a)
          PROVE  Lasting
      BY <3>1, SaveLasts DEF IInv
    <3>2. ASSUME NEW p \in Path, ScanAdd(p) PROVE Lasting
      BY <1>k, <3>2, LastingStep DEF ScanAdd, IInv
    <3>3. ASSUME NEW i \in Id, Prune(i) \/ Tag(i) PROVE Lasting
      BY <1>k, <3>3, LastingStep DEF Prune, Tag, IInv
    <3>4. QED
      BY <1>1, <3>1, <3>2, <3>3
  <2>3. QED
    BY <2>1, <2>2, PlainKeeps
<1>2. CASE Crash
  <2>1. \A c \in Caller : op'[c].at = "idle"
    BY <1>2 DEF Crash, NoOp
  <2>2. ~Untouched("crash")'
    <3>1. left \in [Kind -> Nat] /\ left["crash"] <= Budget["crash"] /\ Budget["crash"] \in Nat
      BY <1>k, FileOpsOK DEF IInv, Typed, TypeOK
    <3>2. left'["crash"] = left["crash"] - 1
      BY <1>2, <1>k, <3>1 DEF Crash, Spend, CanSpend
    <3>3. QED
      BY <1>k, <3>1, <3>2 DEF Untouched
  <2>3. QED
    BY <2>1, <2>2 DEF Recoverable, OneSlot, EntryOwned, Emptied, Covered
<1>3. QED
  BY <1>1, <1>2

LEMMA RecoverableStep == IInv /\ Recoverable /\ [Next]_vars => Recoverable'
<1> SUFFICES ASSUME IInv, Recoverable, [Next]_vars PROVE Recoverable'
  OBVIOUS
<1>1. CASE UNCHANGED vars
  BY <1>1 DEF vars, rowVars, Recoverable, OneSlot, EntryOwned, Emptied, Covered, Named, Untouched
<1>2. ASSUME NEW c \in Caller,
             \/ RelocateFile(c) \/ RelocateRow(c) \/ DropRow(c) \/ EraseFile(c) \/ RestoreRow(c)
             \/ \E i \in Id, p \in Path : Relocate(c, i, p)
             \/ \E i \in Id : Erase(c, i)
      PROVE  Recoverable'
  <2>1. Plain
    BY <1>2, PlainRequests DEF IInv
  <2>2. Lasting
    BY <1>2, LastingRequest DEF IInv, Finish
  <2>3. QED
    BY <2>1, <2>2, PlainKeeps
<1>3. ASSUME NEW c \in Caller, TrashFile(c) PROVE Recoverable'
  <2>1. CASE disk[op[c].from] = None
    <3>1. Plain
      BY <1>3, <2>1, EndFields DEF TrashFile, Plain, IInv
    <3>2. Lasting
      BY <1>3, LastingRequest DEF IInv, Finish
    <3>3. QED
      BY <3>1, <3>2, PlainKeeps
  <2>2. QED
    BY <1>3, <2>1, TrashFileRecovers
<1>4. ASSUME NEW c \in Caller, Finish(c) PROVE Recoverable'
  BY <1>2, <1>3, <1>4, AddEntryRecovers, RestoreFileRecovers, EmptyFilesRecovers, ForgetRecovers
     DEF Finish
<1>5. CASE \/ \E p \in Path : ScanAdd(p) \/ \E a \in Asset : Save(p, a)
           \/ \E i \in Id : Prune(i) \/ Tag(i)
           \/ Crash
  BY <1>5, AroundRecovers
<1>6. ASSUME NEW c \in Caller, NEW i \in Id, NEW p \in Path, Relocate(c, i, p)
      PROVE  Recoverable'
  BY <1>2, <1>6
<1>7. ASSUME NEW c \in Caller, NEW i \in Id, Delete(c, i) \/ Erase(c, i)
      PROVE  Recoverable'
  BY <1>2, <1>7, DeleteRecovers
<1>8. QED
  BY <1>1, <1>4, <1>5, <1>6, <1>7, RestoreRecovers, EmptyRecovers DEF Next

\* Every file in the trash has the entry that can restore it, whatever requests run
\* beside each other, until the process dies or an emptying takes an entry it had not read.
THEOREM TrashIsKept == Spec => []TrashSound
<1>1. Init => Recoverable
  BY DEF Init, Recoverable, OneSlot, EntryOwned, Emptied, Covered, NoOp
<1>2. IInv /\ Recoverable => TrashSound
  <2> SUFFICES ASSUME IInv, Recoverable PROVE TrashSound
    OBVIOUS
  <2>1. ASSUME Untouched("crash"), Untouched("sweep"), Idle, NEW s \in Slot, trash[s] # None
        PROVE  \E t \in Entries : entries[t].slot = s
    <3>1. Named(s)
      BY <2>1 DEF Recoverable, Covered
    <3>2. PICK t \in Id : entries[t].slot = s
      BY <2>1, <3>1 DEF Named, Idle, Busy
    <3>3. t \in Entries
      BY <3>2, FileOpsOK DEF Entries, NoEntry, Slot
    <3>4. QED
      BY <3>2, <3>3
  <2>2. TypeOK
    BY DEF IInv, Typed
  <2>3. QED
    BY <2>1, <2>2 DEF TrashSound, TrashIsRecoverable, DeletionsAreRecoverable
<1>3. QED
  BY <1>1, <1>2, InitInv, InductiveInv, RecoverableStep, PTL DEF Spec

-----------------------------------------------------------------------------
(* Tags.  While nothing raced, overwrote, failed, overlapped, shared a row *)
(* or was pruned (Calm), every request works on a row of its own (Alone),  *)
(* under the path it read (AtFrom), paths are unique and no unused id has  *)
(* tags (Untagged).  A row no request has taken the file of has its file   *)
(* and that file's tags (AtHome); a file on its way has them in the row or *)
(* the entry that will describe it (Landing, Packed).                      *)

Calm == \A k \in {"race", "overwrite", "clash", "overlap", "shared", "prune", "crash"} :
            Untouched(k)

Fits(tags, a) == a # None => tags \in {None, a}

\* The file of the row i has been taken by the request that works on it.
Taken(i) == \E c \in Caller : op[c].id = i /\ op[c].at \in {"row", "entry", "drop"}
Landed(c) == op[c].at \in {"row", "rebuild"}

Alone == \A c, d \in Caller : op[c].id # 0 /\ op[d].id = op[c].id => c = d
AtFrom ==
    \A c \in Caller : op[c].id # 0 => op[c].from \in Path /\ path[op[c].id] = op[c].from
UniquePaths == \A i, j \in Rows : path[i] = path[j] => i = j
Untagged == \A i \in Id \ Rows : tagged[i] = None
AtHome ==
    \A i \in Rows : Taken(i) \/ (disk[path[i]] # None /\ tagged[i] \in {None, disk[path[i]]})
Unseen ==
    \A c \in Caller :
        /\ op[c].at \in {"move", "back"} => op[c].seen = None
        /\ op[c].id # 0 <=> op[c].at \in {"move", "row", "trash", "entry", "erase", "drop"}
Landing ==
    \A c \in Caller : Landed(c) =>
        /\ disk[op[c].to] # None
        /\ \A j \in Rows : path[j] = op[c].to => Taken(j)
        /\ \A d \in Caller : Landed(d) /\ op[d].to = op[c].to => d = c
        /\ op[c].at = "row" => tagged[op[c].id] \in {None, disk[op[c].to]}
        /\ op[c].at = "rebuild" => op[c].plan.tags \in {None, disk[op[c].to]}
Packed ==
    /\ \A c \in Caller : op[c].at = "entry" =>
           \A s \in op[c].slots : Fits(tagged[op[c].id], trash[s])
    /\ \A t \in Entries : Fits(entries[t].tags, trash[entries[t].slot])
    /\ \A c \in Caller : op[c].at = "back" =>
           /\ op[c].slots = {op[c].plan.slot}
           /\ Fits(op[c].plan.tags, trash[op[c].plan.slot])

Orderly ==
    Alone /\ AtFrom /\ UniquePaths /\ Untagged /\ AtHome /\ Unseen /\ Landing /\ Packed

Following == Calm => Orderly

\* What a calm step did not do.
LEMMA CalmStep ==
    ASSUME Typed, Calm'
    PROVE  /\ \A k \in {"race", "clash", "shared", "prune"} : ~Mark(k)
           /\ ~Spend("overwrite") /\ ~Spend("overlap") /\ ~Spend("crash")
           /\ \A c \in Caller, p \in Path :
                  AsSeen(c, p) => UNCHANGED left /\ disk[p] \in {op[c].seen, None}
           /\ \A i \in Id : ~Take("overwrite", i)
           /\ \A i \in Id : Take("request", i) => \A c \in Caller : op[c].id # i
<1>1. /\ left \in [Kind -> Nat] /\ Budget \in [Kind -> Nat]
      /\ \A k \in Kind : left[k] <= Budget[k]
      /\ Budget["race"] = 1 /\ Budget["clash"] = 1 /\ Budget["shared"] = 1 /\ Budget["prune"] = 1
      /\ {"race", "clash", "shared", "prune", "overwrite", "overlap", "crash", "any", "request"}
           \subseteq Kind
  BY FileOpsOK DEF Typed, TypeOK, Kind
<1>2. /\ left'["race"] = 1 /\ left'["clash"] = 1 /\ left'["shared"] = 1 /\ left'["prune"] = 1
      /\ left'["overwrite"] = Budget["overwrite"] /\ left'["overlap"] = Budget["overlap"]
      /\ left'["crash"] = Budget["crash"]
  BY <1>1 DEF Calm, Untouched
<1>3. \A k \in {"race", "clash", "shared", "prune"} : ~Mark(k)
  BY <1>1, <1>2 DEF Mark
<1>4. \A k \in {"overwrite", "overlap", "crash"} : ~Spend(k)
  <2>1. \A k \in {"overwrite", "overlap", "crash"} : Spend(k) => left'[k] = left[k] - 1
    BY <1>1 DEF Spend
  <2>2. \A k \in {"overwrite", "overlap", "crash"} : left'[k] = Budget[k] /\ left[k] <= Budget[k]
                                                    /\ left[k] \in Nat /\ Budget[k] \in Nat
    BY <1>1, <1>2
  <2>3. QED
    BY <2>1, <2>2
<1>5. \A i \in Id : ~Take("overwrite", i)
  <2>1. \A i \in Id : Take("overwrite", i) => left'["overwrite"] = left["overwrite"] - 1
    BY <1>1 DEF Take
  <2>2. QED
    BY <1>1, <1>2, <2>1
<1>6. \A i \in Id : Take("request", i) => \A c \in Caller : op[c].id # i
  <2>1. \A i \in Id : Take("request", i) /\ (\E c \in Caller : op[c].id = i) => left'["shared"] = 0
    BY <1>1 DEF Take
  <2>2. QED
    BY <1>2, <2>1
<1>7. QED
  BY <1>3, <1>4, <1>5, <1>6 DEF AsSeen

\* The row a request works on is its own, and still at the path it read.
LEMMA OwnRow ==
    ASSUME Typed, Orderly, NEW c \in Caller, op[c].id # 0
    PROVE  /\ op[c].id \in Rows /\ op[c].id \in Id /\ path[op[c].id] = op[c].from
           /\ op[c].from \in Path
           /\ \A d \in Caller : d # c => op[d].id # op[c].id
           /\ Taken(op[c].id) <=> op[c].at \in {"row", "entry", "drop"}
<1>1. op[c].at \in {"move", "row", "trash", "entry", "erase", "drop"}
  BY DEF Orderly, Unseen
<1>2. op[c].id \in Id
  BY <1>1 DEF Typed, Aimed, AimedAt
<1>3. /\ path[op[c].id] = op[c].from /\ op[c].from \in Path
      /\ \A d \in Caller : d # c => op[d].id # op[c].id
  BY DEF Orderly, AtFrom, Alone
<1>4. op[c].id \in Rows
  BY <1>2, <1>3, FileOpsOK DEF Rows
<1>5. Taken(op[c].id) <=> op[c].at \in {"row", "entry", "drop"}
  BY <1>3 DEF Taken
<1>6. QED
  BY <1>2, <1>3, <1>4, <1>5

\* A request that begins.
LEMMA BeginFollows ==
    ASSUME Typed, Orderly, NEW c \in Caller, NEW next, Begin(c, next),
           UNCHANGED <<disk, trash, path, tagged, entries>>,
           next.at \in {"move", "trash", "erase", "back", "purge"},
           next.id # 0 <=> next.at \in {"move", "trash", "erase"},
           next.id # 0 => /\ next.from \in Path /\ path[next.id] = next.from
                          /\ \A d \in Caller : op[d].id # next.id,
           next.at \in {"move", "back"} => next.seen = None,
           next.at = "back" => /\ next.slots = {next.plan.slot}
                               /\ Fits(next.plan.tags, trash[next.plan.slot])
    PROVE  Orderly'
<1>1. /\ op[c].at = "idle" /\ op'[c] = next
      /\ \A d \in Caller : d # c => op'[d] = op[d]
  BY BeginFields
<1>2. op[c].id = 0
  BY <1>1 DEF Orderly, Unseen
<1>3. Alone' /\ AtFrom' /\ Unseen'
  BY <1>1 DEF Orderly, Alone, AtFrom, Unseen
<1>4. \A j : Taken(j)' <=> Taken(j)
  <2>1. next.at \notin {"row", "entry", "drop"} /\ op[c].at \notin {"row", "entry", "drop"}
    BY <1>1
  <2>2. QED
    BY <1>1, <2>1 DEF Taken
<1>5. Rows' = Rows /\ Entries' = Entries
  BY DEF Rows, Entries
<1>6. UniquePaths' /\ Untagged' /\ AtHome'
  BY <1>4, <1>5 DEF Orderly, UniquePaths, Untagged, AtHome
<1>7. Landing'
  <2>1. ~Landed(c) /\ ~Landed(c)' /\ \A d \in Caller : d # c => (Landed(d)' <=> Landed(d))
    BY <1>1 DEF Landed
  <2> HIDE DEF Landed, Taken
  <2>2. QED
    BY <1>1, <1>4, <1>5, <2>1 DEF Orderly, Landing
<1>8. Packed'
  BY <1>1, <1>5 DEF Orderly, Packed, Fits
<1>9. QED
  BY <1>3, <1>6, <1>7, <1>8 DEF Orderly

\* A request that has nothing to do with a row goes on or ends; slots may be emptied
\* and entries forgotten.
LEMMA QuietFollows ==
    ASSUME Typed, Orderly, NEW c \in Caller, op[c].id = 0, op'[c].id = 0,
           op'[c].at \in {"idle", "clear", "forget"},
           \A d \in Caller : d # c => op'[d] = op[d],
           UNCHANGED <<disk, path, tagged>>,
           \A s \in Slot : trash'[s] \in {trash[s], None},
           \A t \in Id : entries'[t] \in {entries[t], NoEntry}
    PROVE  Orderly'
<1>1. Alone' /\ AtFrom' /\ Unseen'
  BY DEF Orderly, Alone, AtFrom, Unseen
<1>2. \A j : Taken(j)' <=> Taken(j)
  <2>1. op[c].at \notin {"row", "entry", "drop"}
    BY DEF Orderly, Unseen
  <2>2. QED
    BY <2>1 DEF Taken
<1>3. Rows' = Rows /\ Entries' \subseteq Entries /\ \A t \in Entries' : entries'[t] = entries[t]
  BY DEF Rows, Entries
<1>4. UniquePaths' /\ Untagged' /\ AtHome'
  BY <1>2, <1>3 DEF Orderly, UniquePaths, Untagged, AtHome
<1>5. Landing'
  <2>1. ~Landed(c)' /\ \A d \in Caller : d # c => (Landed(d)' <=> Landed(d))
    BY DEF Landed
  <2> HIDE DEF Landed, Taken
  <2>2. QED
    BY <1>2, <1>3, <2>1 DEF Orderly, Landing
<1>6. Packed'
  <2>1. \A s \in Slot : \A tags : Fits(tags, trash[s]) => Fits(tags, trash'[s])
    BY DEF Fits
  <2>2. \A t \in Entries : entries[t].slot \in Slot
    BY DEF Entries, Typed, TypeOK, Entry
  <2>3. \A d \in Caller : op[d].slots \subseteq Slot /\ (op[d].at = "back" => op[d].plan.slot \in Slot)
    BY DEF Typed, TypeOK, Aimed, AimedAt, Op, Entry
  <2>4. \A d \in Caller : op'[d].at \in {"entry", "back"} => op'[d] = op[d]
    OBVIOUS
  <2> HIDE DEF Fits
  <2>5. QED
    BY <1>3, <2>1, <2>2, <2>3, <2>4 DEF Orderly, Packed
<1>7. QED
  BY <1>1, <1>4, <1>5, <1>6 DEF Orderly

\* A file has landed for the request c.
Landing1(c) ==
    /\ disk[op[c].to] # None
    /\ \A j \in Rows : path[j] = op[c].to => Taken(j)
    /\ op[c].at = "row" => tagged[op[c].id] \in {None, disk[op[c].to]}
    /\ op[c].at = "rebuild" => op[c].plan.tags \in {None, disk[op[c].to]}

\* A request takes the file of its row away, to a path where nothing was or out of the
\* library.
LEMMA TakingFollows ==
    ASSUME Typed, Orderly, NEW c \in Caller, op[c].at \in {"move", "trash", "erase"},
           op'[c].at \in {"row", "entry", "drop"},
           op'[c].id = op[c].id, op'[c].from = op[c].from,
           \A d \in Caller : d # c => op'[d] = op[d],
           UNCHANGED <<path, tagged, entries>>,
           disk'[op[c].from] = None,
           \A p \in Path : p # op[c].from => disk'[p] = disk[p] \/ disk[p] = None
    PROVE  /\ Alone' /\ AtFrom' /\ UniquePaths' /\ Untagged' /\ AtHome' /\ Unseen'
           /\ Rows' = Rows /\ Entries' = Entries
           /\ disk[op[c].from] # None /\ tagged[op[c].id] \in {None, disk[op[c].from]}
           /\ \A j : Taken(j)' <=> Taken(j) \/ j = op[c].id
           /\ \A d \in Caller : d # c => (Landed(d)' <=> Landed(d)) /\ (Landed(d) => Landing1(d)')
<1> DEFINE i == op[c].id
<1>1. op[c].id # 0
  BY DEF Orderly, Unseen
<1>2. /\ i \in Rows /\ path[i] = op[c].from /\ op[c].from \in Path /\ ~Taken(i)
      /\ \A d \in Caller : d # c => op[d].id # i
  BY <1>1, OwnRow
<1>3. disk[op[c].from] # None /\ tagged[i] \in {None, disk[op[c].from]}
  BY <1>2 DEF Orderly, AtHome
<1>4. \A j : Taken(j)' <=> Taken(j) \/ j = i
  BY <1>2 DEF Taken
<1>5. Rows' = Rows /\ Entries' = Entries
  BY DEF Rows, Entries
<1>6. Alone' /\ AtFrom' /\ Unseen'
  BY <1>1 DEF Orderly, Alone, AtFrom, Unseen
<1>7. UniquePaths' /\ Untagged'
  BY <1>5 DEF Orderly, UniquePaths, Untagged
<1>8. AtHome'
  <2> SUFFICES ASSUME NEW j \in Rows, ~Taken(j), j # i
               PROVE  disk'[path[j]] # None /\ tagged[j] \in {None, disk'[path[j]]}
    BY <1>4, <1>5 DEF AtHome
  <2>1. path[j] # op[c].from /\ disk[path[j]] # None /\ tagged[j] \in {None, disk[path[j]]}
    BY <1>2 DEF Orderly, UniquePaths, AtHome
  <2>2. path[j] \in Path
    BY DEF Rows, Typed, TypeOK
  <2>3. QED
    BY <2>1, <2>2
<1>9. ASSUME NEW d \in Caller, d # c
      PROVE  (Landed(d)' <=> Landed(d)) /\ (Landed(d) => Landing1(d)')
  <2>1. Landed(d)' <=> Landed(d)
    BY <1>9 DEF Landed
  <2>2. ASSUME Landed(d)
        PROVE  Landing1(d)'
    <3>1. Landing1(d)
      BY <2>2 DEF Orderly, Landing, Landing1
    <3>2. op'[d] = op[d] /\ op[d].to \in Path
      BY <1>9, <2>2 DEF Landed, Typed, Aimed, AimedAt
    <3>3. op[d].to # op[c].from
      BY <1>2, <3>1 DEF Landing1
    <3>4. disk'[op[d].to] = disk[op[d].to]
      BY <3>1, <3>2, <3>3 DEF Landing1
    <3> HIDE DEF Taken
    <3>5. QED
      BY <1>4, <1>5, <3>1, <3>2, <3>4 DEF Landing1
  <2>3. QED
    BY <2>1, <2>2
<1>10. QED
  BY <1>3, <1>4, <1>5, <1>6, <1>7, <1>8, <1>9

LEMMA RelocateFileFollows ==
    ASSUME IInv, Orderly, Calm', NEW c \in Caller, RelocateFile(c)
    PROVE  Orderly'
<1>1. Typed /\ op[c].at = "move" /\ op[c].seen = None /\ op[c].id # 0
  BY DEF IInv, RelocateFile, Orderly, Unseen
<1>2. op[c].from \in Path /\ op[c].to \in Path /\ op[c].from # op[c].to
  BY <1>1 DEF Typed, Aimed, AimedAt
<1>3. disk[op[c].from] # None
  BY <1>1, OwnRow DEF Orderly, AtHome
<1>4. /\ AsSeen(c, op[c].to)
      /\ disk' = [disk EXCEPT ![op[c].from] = None, ![op[c].to] = disk[op[c].from]]
      /\ Go(c, "row")
      /\ UNCHANGED <<trash, path, tagged, entries>>
  BY <1>1, <1>3 DEF RelocateFile, rowVars
<1>5. disk[op[c].to] = None
  BY <1>1, <1>2, <1>4, CalmStep
<1>6. /\ disk'[op[c].from] = None /\ disk'[op[c].to] = disk[op[c].from]
      /\ \A p \in Path : p # op[c].from => disk'[p] = disk[p] \/ disk[p] = None
  BY <1>1, <1>2, <1>4, <1>5 DEF Typed, TypeOK
<1>7. /\ op'[c].at = "row" /\ op'[c].id = op[c].id /\ op'[c].from = op[c].from
      /\ op'[c].to = op[c].to
      /\ \A d \in Caller : d # c => op'[d] = op[d]
  BY <1>1, <1>4, GoFields
<1>8. /\ Alone' /\ AtFrom' /\ UniquePaths' /\ Untagged' /\ AtHome' /\ Unseen'
      /\ Rows' = Rows /\ Entries' = Entries
      /\ tagged[op[c].id] \in {None, disk[op[c].from]}
      /\ \A j : Taken(j)' <=> Taken(j) \/ j = op[c].id
      /\ \A d \in Caller : d # c => (Landed(d)' <=> Landed(d)) /\ (Landed(d) => Landing1(d)')
  BY <1>1, <1>4, <1>6, <1>7, TakingFollows
<1>9. Landing1(c)'
  <2>1. \A j \in Rows : path[j] = op[c].to => Taken(j)
    BY <1>5 DEF Orderly, AtHome
  <2> HIDE DEF Taken
  <2>2. QED
    BY <1>3, <1>4, <1>6, <1>7, <1>8, <2>1 DEF Landing1
<1>10. Landing'
  <2>1. \A d \in Caller : Landed(d) => op[d].to # op[c].to
    BY <1>5 DEF Orderly, Landing
  <2>2. \A d, e \in Caller : Landed(d) /\ Landed(e) /\ op[d].to = op[e].to => d = e
    BY DEF Orderly, Landing
  <2> HIDE DEF Landed, Landing1
  <2>3. \A d \in Caller : Landed(d)' =>
            /\ Landing1(d)'
            /\ \A e \in Caller : Landed(e)' /\ op'[e].to = op'[d].to => e = d
    BY <1>7, <1>8, <1>9, <2>1, <2>2
  <2>4. QED
    BY <2>3 DEF Landing, Landing1
<1>11. Packed'
  BY <1>4, <1>7, <1>8 DEF Orderly, Packed, Fits
<1>12. QED
  BY <1>8, <1>10, <1>11 DEF Orderly

LEMMA TrashFileFollows ==
    ASSUME IInv, Orderly, NEW c \in Caller, TrashFile(c)
    PROVE  Orderly'
<1>1. Typed /\ op[c].at = "trash" /\ op[c].id # 0
  BY DEF IInv, TrashFile, Orderly, Unseen
<1>2. op[c].from \in Path
  BY <1>1 DEF Typed, Aimed, AimedAt
<1>3. disk[op[c].from] # None
  BY <1>1, OwnRow DEF Orderly, AtHome
<1>4. /\ trash' = [s \in Slot |-> IF s \in op[c].slots THEN disk[op[c].from] ELSE trash[s]]
      /\ disk' = [disk EXCEPT ![op[c].from] = None]
      /\ Go(c, "entry")
      /\ UNCHANGED <<path, tagged, entries>>
  BY <1>1, <1>3 DEF TrashFile, rowVars
<1>5. /\ disk'[op[c].from] = None
      /\ \A p \in Path : p # op[c].from => disk'[p] = disk[p] \/ disk[p] = None
  BY <1>1, <1>2, <1>4 DEF Typed, TypeOK
<1>6. /\ op'[c].at = "entry" /\ op'[c].id = op[c].id /\ op'[c].from = op[c].from
      /\ op'[c].slots = op[c].slots
      /\ \A d \in Caller : d # c => op'[d] = op[d]
  BY <1>1, <1>4, GoFields
<1>7. /\ Alone' /\ AtFrom' /\ UniquePaths' /\ Untagged' /\ AtHome' /\ Unseen'
      /\ Rows' = Rows /\ Entries' = Entries
      /\ tagged[op[c].id] \in {None, disk[op[c].from]}
      /\ \A d \in Caller : d # c => (Landed(d)' <=> Landed(d)) /\ (Landed(d) => Landing1(d)')
  BY <1>1, <1>4, <1>5, <1>6, TakingFollows
<1>8. Landing'
  <2>1. ~Landed(c)'
    BY <1>6 DEF Landed
  <2>2. \A d, e \in Caller : Landed(d) /\ Landed(e) /\ op[d].to = op[e].to => d = e
    BY DEF Orderly, Landing
  <2> HIDE DEF Landed, Landing1
  <2>3. \A d \in Caller : Landed(d)' =>
            /\ Landing1(d)'
            /\ \A e \in Caller : Landed(e)' /\ op'[e].to = op'[d].to => e = d
    BY <1>6, <1>7, <2>1, <2>2
  <2>4. QED
    BY <2>3 DEF Landing, Landing1
<1>9. Packed'
  <2>1. /\ \A d \in Caller : op[d].slots \subseteq Slot
        /\ \A t \in Entries : entries[t].slot \in Slot
        /\ \A d \in Caller : op[d].at = "back" => op[d].plan.slot \in Slot
    BY <1>1 DEF Typed, TypeOK, Aimed, AimedAt, Op, Entries, Entry
  <2>2. /\ \A d \in Caller : d # c => \A s \in op[d].slots : s \notin op[c].slots
        /\ \A t \in Entries : entries[t].slot \notin op[c].slots
    BY <1>1 DEF IInv, Owned, SlotOwned, Entries
  <2>3. \A d \in Caller : op[d].at = "back" => d # c /\ op[d].plan.slot \in op[d].slots
    BY <1>1 DEF Orderly, Packed
  <2>4. /\ \A s \in op[c].slots : trash'[s] = disk[op[c].from]
        /\ \A s \in Slot \ op[c].slots : trash'[s] = trash[s]
    BY <1>4, <2>1
  <2>5. ASSUME NEW d \in Caller, op'[d].at = "entry"
        PROVE  \A s \in op'[d].slots : Fits(tagged'[op'[d].id], trash'[s])
    <3>1. CASE d = c
      BY <1>4, <1>6, <1>7, <2>4, <3>1 DEF Fits
    <3>2. CASE d # c
      <4>1. op'[d] = op[d] /\ \A s \in op[d].slots : trash'[s] = trash[s]
        BY <1>6, <2>1, <2>2, <2>4, <3>2
      <4>2. QED
        BY <1>4, <2>5, <4>1 DEF Orderly, Packed
    <3>3. QED
      BY <3>1, <3>2
  <2>6. \A t \in Entries' : Fits(entries'[t].tags, trash'[entries'[t].slot])
    BY <1>4, <1>7, <2>1, <2>2, <2>4 DEF Orderly, Packed
  <2>7. ASSUME NEW d \in Caller, op'[d].at = "back"
        PROVE  /\ op'[d].slots = {op'[d].plan.slot}
               /\ Fits(op'[d].plan.tags, trash'[op'[d].plan.slot])
    <3>1. d # c /\ op'[d] = op[d]
      BY <1>6, <2>7
    <3>2. trash'[op[d].plan.slot] = trash[op[d].plan.slot]
      BY <2>1, <2>2, <2>3, <2>4, <2>7, <3>1
    <3>3. QED
      BY <2>7, <3>1, <3>2 DEF Orderly, Packed
  <2>8. QED
    BY <2>5, <2>6, <2>7 DEF Packed
<1>10. QED
  BY <1>7, <1>8, <1>9 DEF Orderly

LEMMA EraseFileFollows ==
    ASSUME IInv, Orderly, NEW c \in Caller, EraseFile(c)
    PROVE  Orderly'
<1>1. Typed /\ op[c].at = "erase"
  BY DEF IInv, EraseFile
<1>2. /\ disk' = [disk EXCEPT ![op[c].from] = None] /\ Go(c, "drop")
      /\ UNCHANGED <<trash, path, tagged, entries>>
  BY DEF EraseFile, rowVars
<1>3. op[c].from \in Path
  BY <1>1 DEF Typed, Aimed, AimedAt
<1>4. /\ disk'[op[c].from] = None
      /\ \A p \in Path : p # op[c].from => disk'[p] = disk[p] \/ disk[p] = None
  BY <1>1, <1>2, <1>3 DEF Typed, TypeOK
<1>5. /\ op'[c].at = "drop" /\ op'[c].id = op[c].id /\ op'[c].from = op[c].from
      /\ \A d \in Caller : d # c => op'[d] = op[d]
  BY <1>1, <1>2, GoFields
<1>6. /\ Alone' /\ AtFrom' /\ UniquePaths' /\ Untagged' /\ AtHome' /\ Unseen'
      /\ Rows' = Rows /\ Entries' = Entries
      /\ \A d \in Caller : d # c => (Landed(d)' <=> Landed(d)) /\ (Landed(d) => Landing1(d)')
  BY <1>1, <1>2, <1>4, <1>5, TakingFollows
<1>7. Landing'
  <2>1. ~Landed(c)'
    BY <1>5 DEF Landed
  <2>2. \A d, e \in Caller : Landed(d) /\ Landed(e) /\ op[d].to = op[e].to => d = e
    BY DEF Orderly, Landing
  <2> HIDE DEF Landed, Landing1
  <2>3. \A d \in Caller : Landed(d)' =>
            /\ Landing1(d)'
            /\ \A e \in Caller : Landed(e)' /\ op'[e].to = op'[d].to => e = d
    BY <1>5, <1>6, <2>1, <2>2
  <2>4. QED
    BY <2>3 DEF Landing, Landing1
<1>8. Packed'
  BY <1>2, <1>5, <1>6 DEF Orderly, Packed, Fits
<1>9. QED
  BY <1>6, <1>7, <1>8 DEF Orderly

LEMMA RelocateFollows ==
    ASSUME Typed, Orderly, Calm', NEW c \in Caller, NEW i \in Id, NEW p \in Path,
           Relocate(c, i, p)
    PROVE  Orderly'
<1> DEFINE next == [NoOp EXCEPT !.at = "move", !.id = i, !.from = path[i], !.to = p,
                                !.seen = disk[p]]
<1>1. /\ next.at = "move" /\ next.id = i /\ next.from = path[i] /\ next.seen = disk[p]
      /\ Begin(c, next)
  BY DEF NoOp, Relocate
<1>2. disk[p] = None /\ \A d \in Caller : op[d].id # i
  BY CalmStep DEF Relocate, Free
<1>3. path[i] \in Path /\ i # 0
  BY DEF Relocate, Rows, Id, Typed, TypeOK
<1>4. UNCHANGED <<disk, trash, path, tagged, entries>>
  BY DEF Relocate, rowVars
<1> HIDE DEF next
<1>5. QED
  BY <1>1, <1>2, <1>3, <1>4, BeginFollows

LEMMA DeleteFollows ==
    ASSUME Typed, Orderly, Calm', NEW c \in Caller, NEW i \in Id, Delete(c, i)
    PROVE  Orderly'
<1> DEFINE next == [NoOp EXCEPT !.at = "trash", !.id = i, !.from = path[i],
                                !.slots = {left["request"]}]
<1>1. next.at = "trash" /\ next.id = i /\ next.from = path[i] /\ Begin(c, next)
  BY DEF NoOp, Delete
<1>2. \A d \in Caller : op[d].id # i
  BY CalmStep DEF Delete
<1>3. path[i] \in Path /\ i # 0
  BY DEF Delete, Rows, Id, Typed, TypeOK
<1>4. UNCHANGED <<disk, trash, path, tagged, entries>>
  BY DEF Delete, rowVars
<1> HIDE DEF next
<1>5. QED
  BY <1>1, <1>2, <1>3, <1>4, BeginFollows

LEMMA EraseFollows ==
    ASSUME Typed, Orderly, Calm', NEW c \in Caller, NEW i \in Id, Erase(c, i)
    PROVE  Orderly'
<1> DEFINE next == [NoOp EXCEPT !.at = "erase", !.id = i, !.from = path[i],
                                !.seen = disk[path[i]]]
<1>1. next.at = "erase" /\ next.id = i /\ next.from = path[i] /\ Begin(c, next)
  BY DEF NoOp, Erase
<1>2. \A d \in Caller : op[d].id # i
  BY CalmStep DEF Erase
<1>3. path[i] \in Path /\ i # 0
  BY DEF Erase, Rows, Id, Typed, TypeOK
<1>4. UNCHANGED <<disk, trash, path, tagged, entries>>
  BY DEF Erase, rowVars
<1> HIDE DEF next
<1>5. QED
  BY <1>1, <1>2, <1>3, <1>4, BeginFollows

LEMMA RestoreFollows ==
    ASSUME Typed, Orderly, Calm', NEW c \in Caller, NEW t \in Id, NEW p \in Path,
           Restore(c, t, p)
    PROVE  Orderly'
<1> DEFINE e    == entries[t]
           next == [NoOp EXCEPT !.at = "back", !.to = p, !.seen = disk[p],
                                !.slots = {e.slot}, !.tids = {t}, !.plan = e]
<1>1. /\ next.at = "back" /\ next.id = 0 /\ next.seen = disk[p]
      /\ next.slots = {e.slot} /\ next.plan = e /\ Begin(c, next)
  BY DEF NoOp, Restore
<1>2. disk[p] = None
  BY CalmStep DEF Restore
<1>3. Fits(e.tags, trash[e.slot])
  BY DEF Restore, Orderly, Packed
<1>4. UNCHANGED <<disk, trash, path, tagged, entries>>
  BY DEF Restore, rowVars
<1> HIDE DEF next, e, Fits
<1>5. QED
  BY <1>1, <1>2, <1>3, <1>4, BeginFollows

LEMMA EmptyFollows ==
    ASSUME Typed, Orderly, NEW c \in Caller, NEW tids \in SUBSET Id, NEW all \in BOOLEAN,
           Empty(c, tids, all)
    PROVE  Orderly'
<1> DEFINE next == [NoOp EXCEPT !.at = "purge", !.tids = tids, !.all = all,
                                !.slots = {entries[t].slot : t \in tids}]
<1>1. next.at = "purge" /\ next.id = 0 /\ Begin(c, next)
  BY DEF NoOp, Empty
<1>2. UNCHANGED <<disk, trash, path, tagged, entries>>
  BY DEF Empty, rowVars
<1> HIDE DEF next
<1>3. QED
  BY <1>1, <1>2, BeginFollows

LEMMA AddEntryFollows ==
    ASSUME Typed, Orderly, NEW c \in Caller, AddEntry(c)
    PROVE  Orderly'
<1>1. op[c].at = "entry" /\ op[c].id # 0
  BY DEF AddEntry, Orderly, Unseen
<1>2. PICK t \in NewId(Entries), s \in op[c].slots, whole \in BOOLEAN :
            entries' = [entries EXCEPT ![t] = Trashed(op[c], s, whole)]
  BY DEF AddEntry
<1>3. Go(c, "drop") /\ UNCHANGED <<disk, trash, path, tagged>>
  BY DEF AddEntry, rowVars
<1>4. /\ op'[c].at = "drop" /\ op'[c].id = op[c].id /\ op'[c].from = op[c].from
      /\ \A d \in Caller : d # c => op'[d] = op[d]
  BY <1>3, GoFields
<1>5. Alone' /\ AtFrom' /\ Unseen'
  BY <1>1, <1>3, <1>4 DEF Orderly, Alone, AtFrom, Unseen
<1>6. \A j : Taken(j)' <=> Taken(j)
  BY <1>1, <1>4 DEF Taken
<1>7. Rows' = Rows
  BY <1>3 DEF Rows
<1>8. UniquePaths' /\ Untagged' /\ AtHome'
  <2> HIDE DEF Taken
  <2>1. QED
    BY <1>3, <1>6, <1>7 DEF Orderly, UniquePaths, Untagged, AtHome
<1>9. Landing'
  <2>1. ~Landed(c)' /\ \A d \in Caller : d # c => (Landed(d)' <=> Landed(d))
    BY <1>4 DEF Landed
  <2> HIDE DEF Landed, Taken
  <2>2. QED
    BY <1>3, <1>4, <1>6, <1>7, <2>1 DEF Orderly, Landing
<1>10. Packed'
  <2>1. t \in Id /\ entries'[t] = Trashed(op[c], s, whole)
        /\ \A u \in Id : u # t => entries'[u] = entries[u]
    BY <1>2 DEF NewId, Typed, TypeOK
  <2>2. Fits(tagged[op[c].id], trash[s])
    BY <1>1, <1>2 DEF Orderly, Packed
  <2>3. entries'[t].tags = tagged[op[c].id] /\ entries'[t].slot = s
    BY <2>1 DEF Trashed
  <2>4. \A u \in Entries' : u = t \/ (u \in Entries /\ entries'[u] = entries[u])
    BY <2>1 DEF Entries
  <2> HIDE DEF Fits
  <2>5. QED
    BY <1>3, <1>4, <2>2, <2>3, <2>4 DEF Orderly, Packed
<1>11. QED
  BY <1>5, <1>8, <1>9, <1>10 DEF Orderly

LEMMA DropRowFollows ==
    ASSUME Typed, Orderly, NEW c \in Caller, DropRow(c)
    PROVE  Orderly'
<1> DEFINE i == op[c].id
<1>1. op[c].at = "drop" /\ i # 0
  BY DEF DropRow, Orderly, Unseen
<1>2. /\ i \in Id /\ i \in Rows /\ \A d \in Caller : d # c => op[d].id # i
      /\ Taken(i)
  BY <1>1, OwnRow
<1>3. /\ path' = [path EXCEPT ![i] = None] /\ tagged' = [tagged EXCEPT ![i] = None]
      /\ End(c) /\ UNCHANGED <<disk, trash, entries>>
  BY DEF DropRow, DroppedTags
<1>4. /\ path'[i] = None /\ tagged'[i] = None
      /\ \A j \in Id \ {i} : path'[j] = path[j] /\ tagged'[j] = tagged[j]
  BY <1>2, <1>3 DEF Typed, TypeOK
<1>5. /\ op'[c].at = "idle" /\ op'[c].id = 0
      /\ \A d \in Caller : d # c => op'[d] = op[d]
  BY <1>3, EndFields
<1>7. \A d \in Caller : op[d].id # 0 => op[d].id \in Id
  BY OwnRow
<1>8. Alone' /\ AtFrom' /\ Unseen'
  BY <1>2, <1>4, <1>5, <1>7 DEF Orderly, Alone, AtFrom, Unseen
<1>9. Rows' = Rows \ {i}
  BY <1>2, <1>4 DEF Rows
<1>10. \A j : Taken(j)' <=> Taken(j) /\ j # i
  BY <1>1, <1>2, <1>5 DEF Taken
<1>11. Rows \subseteq Id
  BY DEF Rows
<1>12. UniquePaths' /\ Untagged' /\ AtHome'
  <2> HIDE DEF Taken
  <2>1. QED
    BY <1>3, <1>4, <1>9, <1>10, <1>11 DEF Orderly, UniquePaths, Untagged, AtHome
<1>13. Landing'
  <2>1. ~Landed(c)' /\ \A d \in Caller : d # c => (Landed(d)' <=> Landed(d))
    BY <1>5 DEF Landed
  <2>2. \A d \in Caller : d # c /\ op[d].at = "row" => op[d].id \in Id \ {i}
    BY <1>2, <1>7 DEF Orderly, Unseen
  <2> HIDE DEF Landed, Taken, i
  <2>3. QED
    BY <1>3, <1>4, <1>5, <1>9, <1>10, <1>11, <2>1, <2>2 DEF Orderly, Landing
<1>14. Packed'
  <2>1. \A d \in Caller : op'[d].at \in {"entry", "back"} => op'[d] = op[d] /\ d # c
    BY <1>5
  <2>2. \A d \in Caller : d # c /\ op[d].at = "entry" => op[d].id \in Id \ {i}
    BY <1>2, <1>7 DEF Orderly, Unseen
  <2>3. Entries' = Entries
    BY <1>3 DEF Entries
  <2> HIDE DEF Fits, i
  <2>4. QED
    BY <1>3, <1>4, <2>1, <2>2, <2>3 DEF Orderly, Packed
<1>15. QED
  BY <1>8, <1>12, <1>13, <1>14 DEF Orderly

LEMMA RelocateRowFollows ==
    ASSUME Typed, Orderly, Calm', NEW c \in Caller, RelocateRow(c)
    PROVE  Orderly'
<1> DEFINE i == op[c].id
           p == op[c].to
<1>1. op[c].at = "row" /\ i # 0 /\ p \in Path /\ Landed(c)
  BY DEF RelocateRow, Orderly, Unseen, Typed, Aimed, AimedAt, Landed
<1>2. /\ i \in Id /\ i \in Rows /\ path[i] = op[c].from /\ Taken(i)
      /\ \A d \in Caller : d # c => op[d].id # i
  BY <1>1, OwnRow
<1>3. /\ Matches(i, op[c].from) /\ \A j \in Id \ {i} : j \notin Rows \/ path[j] # p
      /\ path' = [j \in Id |-> IF j = i /\ Matches(j, op[c].from) THEN p ELSE path[j]]
  <2>1. Matches(i, op[c].from)
    BY <1>2 DEF Matches, Rows
  <2>2. ~Mark("clash")
    BY CalmStep
  <2>3. QED
    BY <2>1, <2>2 DEF RelocateRow, Rows
<1>4. End(c) /\ UNCHANGED <<disk, trash, tagged, entries>>
  BY DEF RelocateRow
<1>5. path'[i] = p /\ \A j \in Id \ {i} : path'[j] = path[j]
  BY <1>2, <1>3
<1>6. /\ op'[c].at = "idle" /\ op'[c].id = 0
      /\ \A d \in Caller : d # c => op'[d] = op[d]
  BY <1>4, EndFields
<1>7. \A d \in Caller : op[d].id # 0 => op[d].id \in Id
  BY OwnRow
<1>8. Alone' /\ AtFrom' /\ Unseen'
  BY <1>2, <1>5, <1>6, <1>7 DEF Orderly, Alone, AtFrom, Unseen
<1>9. Rows' = Rows /\ Rows \subseteq Id
  BY <1>1, <1>2, <1>5, FileOpsOK DEF Rows
<1>10. \A j : Taken(j)' <=> Taken(j) /\ j # i
  BY <1>1, <1>2, <1>6 DEF Taken
<1>11. /\ disk[p] # None /\ tagged[i] \in {None, disk[p]}
       /\ \A d \in Caller : Landed(d) /\ op[d].to = p => d = c
  BY <1>1 DEF Orderly, Landing
<1>12. UniquePaths' /\ Untagged' /\ AtHome'
  <2> HIDE DEF Taken, i, p
  <2>1. UniquePaths' /\ Untagged'
    BY <1>2, <1>3, <1>4, <1>5, <1>9 DEF Orderly, UniquePaths, Untagged
  <2>2. AtHome'
    BY <1>2, <1>4, <1>5, <1>9, <1>10, <1>11 DEF Orderly, AtHome
  <2>3. QED
    BY <2>1, <2>2
<1>13. Landing'
  <2>1. ~Landed(c)' /\ \A d \in Caller : d # c => (Landed(d)' <=> Landed(d))
    BY <1>6 DEF Landed
  <2> HIDE DEF Landed, Taken, i, p
  <2>2. QED
    BY <1>4, <1>5, <1>6, <1>9, <1>10, <1>11, <2>1 DEF Orderly, Landing
<1>14. Packed'
  <2>1. \A d \in Caller : op'[d].at \in {"entry", "back"} => op'[d] = op[d]
    BY <1>6
  <2>2. Entries' = Entries
    BY <1>4 DEF Entries
  <2> HIDE DEF Fits
  <2>3. QED
    BY <1>4, <2>1, <2>2 DEF Orderly, Packed
<1>15. QED
  BY <1>8, <1>12, <1>13, <1>14 DEF Orderly

LEMMA RestoreFileFollows ==
    ASSUME Typed, Orderly, Calm', NEW c \in Caller, RestoreFile(c)
    PROVE  Orderly'
<1> DEFINE s == op[c].plan.slot
           p == op[c].to
<1>1. /\ op[c].at = "back" /\ op[c].seen = None /\ op[c].id = 0
      /\ p \in Path /\ s \in Slot
  BY DEF RestoreFile, Orderly, Unseen, Typed, Aimed, AimedAt, Entry
<1>2. UNCHANGED <<path, tagged, entries>>
  BY DEF RestoreFile, rowVars
<1>3. CASE trash[s] = None
  <2>1. End(c) /\ UNCHANGED <<disk, trash>>
    BY <1>3 DEF RestoreFile
  <2>2. /\ op'[c].id = 0 /\ op'[c].at = "idle"
        /\ \A d \in Caller : d # c => op'[d] = op[d]
    BY <2>1, EndFields
  <2>3. QED
    BY <1>1, <1>2, <2>1, <2>2, QuietFollows
<1>4. CASE trash[s] # None
  <2>1. /\ AsSeen(c, p) /\ disk' = [disk EXCEPT ![p] = trash[s]]
        /\ trash' = [trash EXCEPT ![s] = None] /\ Go(c, "rebuild")
    BY <1>4 DEF RestoreFile
  <2>2. disk[p] = None
    BY <1>1, <2>1, CalmStep
  <2>3. /\ disk'[p] = trash[s] /\ \A q \in Path \ {p} : disk'[q] = disk[q]
        /\ \A r \in Slot : trash'[r] \in {trash[r], None}
    BY <1>1, <2>1 DEF Typed, TypeOK
  <2>4. /\ op'[c].at = "rebuild" /\ op'[c].id = 0 /\ op'[c].to = p
        /\ op'[c].plan = op[c].plan
        /\ \A d \in Caller : d # c => op'[d] = op[d]
    BY <1>1, <2>1, GoFields
  <2>5. op[c].plan.tags \in {None, trash[s]}
    BY <1>1, <1>4 DEF Orderly, Packed, Fits
  <2>6. Alone' /\ AtFrom' /\ Unseen'
    BY <1>1, <1>2, <2>4 DEF Orderly, Alone, AtFrom, Unseen
  <2>7. Rows' = Rows /\ Entries' = Entries /\ \A j \in Rows : path[j] \in Path
    BY <1>2 DEF Rows, Entries, Typed, TypeOK
  <2>8. \A j : Taken(j)' <=> Taken(j)
    BY <1>1, <2>4 DEF Taken
  <2>9. UniquePaths' /\ Untagged' /\ AtHome'
    <3> HIDE DEF Taken, p, s
    <3>1. QED
      BY <1>2, <2>2, <2>3, <2>7, <2>8 DEF Orderly, UniquePaths, Untagged, AtHome
  <2>10. Landing'
    <3>1. /\ \A d \in Caller : Landed(d) => d # c /\ op[d].to \in Path /\ op[d].to # p
          /\ \A d \in Caller : d # c => (Landed(d)' <=> Landed(d))
      BY <1>1, <2>2, <2>4 DEF Orderly, Landing, Landed, Typed, Aimed, AimedAt
    <3>2. \A j \in Rows : path[j] = p => Taken(j)
      BY <2>2 DEF Orderly, AtHome
    <3> HIDE DEF Landed, Taken, p, s
    <3>3. ASSUME NEW d \in Caller, Landed(d)'
          PROVE  /\ disk'[op'[d].to] # None
                 /\ \A j \in Rows' : path'[j] = op'[d].to => Taken(j)'
                 /\ \A e \in Caller : Landed(e)' /\ op'[e].to = op'[d].to => e = d
                 /\ op'[d].at = "row" => tagged'[op'[d].id] \in {None, disk'[op'[d].to]}
                 /\ op'[d].at = "rebuild" => op'[d].plan.tags \in {None, disk'[op'[d].to]}
      <4>1. CASE d = c
        BY <1>2, <1>4, <2>3, <2>4, <2>5, <2>7, <2>8, <3>1, <3>2, <4>1
      <4>2. CASE d # c
        <5>1. Landed(d) /\ op'[d] = op[d] /\ disk'[op[d].to] = disk[op[d].to]
          BY <2>3, <2>4, <3>1, <3>3, <4>2
        <5>2. QED
          BY <1>2, <2>4, <2>7, <2>8, <3>1, <4>2, <5>1 DEF Orderly, Landing
      <4>3. QED
        BY <4>1, <4>2
    <3>4. QED
      BY <3>3 DEF Landing
  <2>11. Packed'
    <3>1. \A r \in Slot : \A tags : Fits(tags, trash[r]) => Fits(tags, trash'[r])
      BY <2>3 DEF Fits
    <3>2. \A t \in Entries : entries[t].slot \in Slot
      BY DEF Entries, Typed, TypeOK, Entry
    <3>3. \A d \in Caller : op[d].slots \subseteq Slot /\ (op[d].at = "back" => op[d].plan.slot \in Slot)
      BY DEF Typed, TypeOK, Aimed, AimedAt, Op, Entry
    <3>4. \A d \in Caller : op'[d].at \in {"entry", "back"} => op'[d] = op[d]
      BY <2>4
    <3> HIDE DEF Fits
    <3>5. QED
      BY <1>2, <2>7, <3>1, <3>2, <3>3, <3>4 DEF Orderly, Packed
  <2>12. QED
    BY <2>6, <2>9, <2>10, <2>11 DEF Orderly
<1>5. QED
  BY <1>3, <1>4

\* A row for a path that has none, and for a file that has that row's tags.
LEMMA RestoreRowFollows ==
    ASSUME Typed, Orderly, Calm', NEW c \in Caller, RestoreRow(c)
    PROVE  Orderly'
<1> DEFINE e == op[c].plan
           p == op[c].to
<1>1. /\ op[c].at = "rebuild" /\ op[c].id = 0 /\ Landed(c)
      /\ p \in Path /\ e \in Entry
  BY DEF RestoreRow, Orderly, Unseen, Typed, Aimed, AimedAt, Landed
<1>2. UNCHANGED <<disk, trash, entries>>
  BY DEF RestoreRow
<1>3. Go(c, "forget") /\ ~(e.whole /\ Indexed(p))
  BY CalmStep DEF RestoreRow
<1>4. /\ op'[c].at = "forget" /\ op'[c].id = 0
      /\ \A d \in Caller : d # c => op'[d] = op[d]
  BY <1>1, <1>3, GoFields
<1>5. CASE ~e.whole
  <2>1. UNCHANGED <<path, tagged>>
    BY <1>5 DEF RestoreRow, rowVars
  <2>2. QED
    BY <1>1, <1>2, <1>4, <2>1, QuietFollows
<1>6. CASE e.whole
  <2>1. PICK i \in IF path[e.uid] = None THEN {e.uid} ELSE NewId(Rows) :
               /\ path' = [path EXCEPT ![i] = p]
               /\ tagged' = [tagged EXCEPT ![i] = IF e.tags = None THEN @ ELSE e.tags]
    BY <1>3, <1>6 DEF RestoreRow
  <2>2. i \in Id /\ i \notin Rows
    <3>1. e.uid \in Id
      BY <1>1 DEF Entry
    <3>2. \A j \in NewId(Rows) : j \in Id /\ j \notin Rows
      BY DEF NewId, Id
    <3>3. QED
      BY <2>1, <3>1, <3>2 DEF Rows
  <2>3. /\ disk[p] # None /\ e.tags \in {None, disk[p]}
        /\ \A d \in Caller : Landed(d) /\ op[d].to = p => d = c
    BY <1>1 DEF Orderly, Landing
  <2>4. tagged[i] = None
    BY <2>2 DEF Orderly, Untagged
  <2>5. /\ path'[i] = p /\ \A j \in Id \ {i} : path'[j] = path[j] /\ tagged'[j] = tagged[j]
        /\ tagged'[i] \in {None, disk[p]}
    <3> HIDE DEF e, p
    <3>1. path \in [Id -> Path \cup {None}] /\ tagged \in [Id -> Asset \cup {None}]
      BY DEF Typed, TypeOK
    <3>2. QED
      BY <2>1, <2>2, <2>3, <2>4, <3>1
  <2>6. Rows' = Rows \cup {i} /\ Rows \subseteq Id
    BY <1>1, <2>2, <2>5, FileOpsOK DEF Rows
  <2>7. \A j \in Rows : path[j] # p
    BY <1>3, <1>6 DEF Indexed
  <2>8. \A d \in Caller : op[d].id # 0 => op[d].id \in Rows
    BY OwnRow
  <2>9. Alone' /\ AtFrom' /\ Unseen'
    BY <1>1, <1>4, <2>2, <2>5, <2>6, <2>8 DEF Orderly, Alone, AtFrom, Unseen
  <2>10. \A j : Taken(j)' <=> Taken(j)
    BY <1>1, <1>4 DEF Taken
  <2>11. UniquePaths' /\ Untagged' /\ AtHome'
    <3> HIDE DEF Taken, p, e
    <3>1. UniquePaths' /\ Untagged'
      BY <2>2, <2>5, <2>6, <2>7 DEF Orderly, UniquePaths, Untagged
    <3>2. AtHome'
      BY <1>2, <2>2, <2>3, <2>5, <2>6, <2>10 DEF Orderly, AtHome
    <3>3. QED
      BY <3>1, <3>2
  <2>12. Landing'
    <3>1. ~Landed(c)' /\ \A d \in Caller : d # c => (Landed(d)' <=> Landed(d))
      BY <1>4 DEF Landed
    <3>2. \A d \in Caller : op[d].at = "row" => op[d].id \in Id \ {i}
      BY <2>2, <2>6, <2>8 DEF Orderly, Unseen
    <3> HIDE DEF Landed, Taken, p, e
    <3>3. QED
      BY <1>2, <1>4, <2>2, <2>3, <2>5, <2>6, <2>10, <3>1, <3>2 DEF Orderly, Landing
  <2>13. Packed'
    <3>1. \A d \in Caller : op'[d].at \in {"entry", "back"} => op'[d] = op[d] /\ d # c
      BY <1>4
    <3>2. \A d \in Caller : op[d].at = "entry" => op[d].id \in Id \ {i}
      BY <2>2, <2>6, <2>8 DEF Orderly, Unseen
    <3>3. Entries' = Entries
      BY <1>2 DEF Entries
    <3> HIDE DEF Fits, p, e
    <3>4. QED
      BY <1>2, <2>5, <3>1, <3>2, <3>3 DEF Orderly, Packed
  <2>14. QED
    BY <2>9, <2>11, <2>12, <2>13 DEF Orderly
<1>7. QED
  BY <1>5, <1>6

LEMMA ForgetFollows ==
    ASSUME Typed, Orderly, NEW c \in Caller, Forget(c) \/ EmptyFiles(c) \/ EmptyRows(c)
    PROVE  Orderly'
<1>1. op[c].at \in {"forget", "purge", "clear"} /\ op[c].id = 0
  BY DEF Forget, EmptyFiles, EmptyRows, Orderly, Unseen
<1>2. UNCHANGED <<disk, path, tagged>>
  BY DEF Forget, EmptyFiles, EmptyRows, ForgetAll, rowVars
<1>3. CASE Forget(c) \/ EmptyRows(c)
  <2>1. PICK tids : entries' = Forgotten(tids) /\ End(c) /\ UNCHANGED trash
    BY <1>3 DEF Forget, EmptyRows, ForgetAll
  <2>2. \A t \in Id : entries'[t] \in {entries[t], NoEntry}
    BY <2>1 DEF Forgotten
  <2>3. op'[c].id = 0 /\ op'[c].at = "idle" /\ \A d \in Caller : d # c => op'[d] = op[d]
    BY <2>1, EndFields
  <2>4. QED
    BY <1>1, <1>2, <2>1, <2>2, <2>3, QuietFollows
<1>4. CASE EmptyFiles(c)
  <2>1. trash' = Purged(op[c].slots) /\ Go(c, "clear") /\ UNCHANGED entries
    BY <1>4 DEF EmptyFiles
  <2>2. \A s \in Slot : trash'[s] \in {trash[s], None}
    BY <2>1 DEF Purged
  <2>3. op'[c].id = 0 /\ op'[c].at = "clear" /\ \A d \in Caller : d # c => op'[d] = op[d]
    BY <1>1, <2>1, GoFields
  <2>4. QED
    BY <1>1, <1>2, <2>1, <2>2, <2>3, QuietFollows
<1>5. QED
  BY <1>3, <1>4

\* A scan that overlaps no request, a new file under a free name that is no row's, and a
\* user's tag.
LEMMA AroundFollows ==
    ASSUME Typed, Orderly, Calm',
           \/ \E p \in Path : ScanAdd(p) \/ \E a \in Asset : Save(p, a)
           \/ \E i \in Id : Prune(i) \/ Tag(i)
           \/ Crash
    PROVE  Orderly'
<1>1. ~Crash /\ \A i \in Id : ~Prune(i)
  BY CalmStep DEF Crash, Prune
<1>2. ASSUME Idle
      PROVE  /\ \A c \in Caller : op[c].at = "idle" /\ op[c].id = 0
             /\ \A i : ~Taken(i)
  BY <1>2 DEF Idle, Busy, Orderly, Unseen, Taken
<1>3. ASSUME NEW p \in Path, ScanAdd(p) PROVE Orderly'
  <2>1. Idle /\ UNCHANGED <<disk, trash, tagged, entries, op>>
    BY <1>3, CalmStep DEF ScanAdd, Idle
  <2>2. PICK i \in NewId(Rows) : path' = [path EXCEPT ![i] = p]
    BY <1>3 DEF ScanAdd
  <2>3. i \in Id /\ i \notin Rows /\ Rows \subseteq Id
    BY DEF NewId, Id, Rows
  <2>4. path'[i] = p /\ \A j \in Id \ {i} : path'[j] = path[j]
    BY <2>2, <2>3 DEF Typed, TypeOK
  <2>5. Rows' = Rows \cup {i}
    BY <2>3, <2>4, FileOpsOK DEF Rows
  <2>6. /\ \A c \in Caller : op'[c].at = "idle" /\ op'[c].id = 0
        /\ \A j : ~Taken(j)
    BY <1>2, <2>1
  <2>7. tagged[i] = None /\ disk[p] # None /\ \A j \in Rows : path[j] # p
    BY <1>3, <2>3 DEF ScanAdd, Indexed, Orderly, Untagged
  <2>8. Alone' /\ AtFrom' /\ Unseen' /\ Landing'
    BY <2>6 DEF Alone, AtFrom, Unseen, Landing, Landed
  <2>9. UniquePaths' /\ Untagged' /\ AtHome'
    <3> HIDE DEF Taken
    <3>1. UniquePaths' /\ Untagged'
      BY <2>1, <2>3, <2>4, <2>5, <2>7 DEF Orderly, UniquePaths, Untagged
    <3>2. AtHome'
      BY <2>1, <2>3, <2>4, <2>5, <2>6, <2>7 DEF Orderly, AtHome
    <3>3. QED
      BY <3>1, <3>2
  <2>10. Packed'
    <3>1. Entries' = Entries
      BY <2>1 DEF Entries
    <3> HIDE DEF Fits
    <3>2. QED
      BY <2>1, <2>6, <3>1 DEF Orderly, Packed
  <2>11. QED
    BY <2>8, <2>9, <2>10 DEF Orderly
<1>4. ASSUME NEW p \in Path, NEW a \in Asset, Save(p, a) PROVE Orderly'
  <2>1. UNCHANGED <<trash, path, tagged, entries, op>>
    BY <1>4 DEF Save, rowVars
  <2>2. disk[p] = None /\ \A q \in Path \ {p} : disk'[q] = disk[q]
    BY <1>4 DEF Save, Typed, TypeOK
  <2>3. \A i \in Rows : path[i] # p
    <3>1. left'["race"] = IF Indexed(p) THEN 0 ELSE left["race"]
      BY <1>4 DEF Save, Typed, TypeOK, Kind
    <3>2. left'["race"] = 1
      BY FileOpsOK DEF Calm, Untouched
    <3>3. QED
      BY <3>1, <3>2 DEF Indexed
  <2>4. \A i \in Rows : path[i] \in Path
    BY DEF Rows, Typed, TypeOK
  <2>5. \A c \in Caller : Landed(c) => op[c].to \in Path
    BY DEF Landed, Typed, Aimed, AimedAt
  <2>6. Alone' /\ AtFrom' /\ Unseen' /\ UniquePaths' /\ Untagged'
    BY <2>1 DEF Orderly, Alone, AtFrom, Unseen, UniquePaths, Untagged, Rows
  <2>7. AtHome'
    BY <2>1, <2>2, <2>3, <2>4 DEF Orderly, AtHome, Rows, Taken
  <2>8. Landing'
    <3>1. \A c \in Caller : Landed(c) => disk'[op[c].to] = disk[op[c].to]
      BY <2>2, <2>5 DEF Orderly, Landing
    <3>2. /\ Rows' = Rows
          /\ \A j : Taken(j)' <=> Taken(j)
          /\ \A c \in Caller : Landed(c)' <=> Landed(c)
      BY <2>1 DEF Rows, Taken, Landed
    <3> HIDE DEF Taken, Landed
    <3>3. QED
      BY <2>1, <3>1, <3>2 DEF Orderly, Landing
  <2>9. Packed'
    BY <2>1 DEF Orderly, Packed, Entries
  <2>10. QED
    BY <2>6, <2>7, <2>8, <2>9 DEF Orderly
<1>5. ASSUME NEW i \in Id, Tag(i) PROVE Orderly'
  <2>1. /\ UNCHANGED <<disk, trash, path, entries, op>> /\ i \in Rows
        /\ tagged' = [tagged EXCEPT ![i] = disk[path[i]]]
    BY <1>5 DEF Tag
  <2>2. /\ \A c \in Caller : op'[c].at = "idle" /\ op'[c].id = 0
        /\ \A j : ~Taken(j)
    BY <1>2, <1>5, <2>1 DEF Tag
  <2>3. /\ tagged'[i] = disk[path[i]] /\ \A j \in Id \ {i} : tagged'[j] = tagged[j]
        /\ Rows' = Rows /\ Entries' = Entries /\ Rows \subseteq Id
    BY <2>1 DEF Typed, TypeOK, Rows, Entries
  <2>4. Alone' /\ AtFrom' /\ Unseen' /\ Landing'
    BY <2>2 DEF Alone, AtFrom, Unseen, Landing, Landed
  <2>5. UniquePaths' /\ Untagged' /\ AtHome'
    <3> HIDE DEF Taken
    <3>1. QED
      BY <2>1, <2>2, <2>3 DEF Orderly, UniquePaths, Untagged, AtHome
  <2>6. Packed'
    BY <2>1, <2>2, <2>3 DEF Orderly, Packed, Fits
  <2>7. QED
    BY <2>4, <2>5, <2>6 DEF Orderly
<1>6. QED
  BY <1>1, <1>3, <1>4, <1>5

\* What happened once has happened for good.
LEMMA LastingSteps == ASSUME Typed, Next PROVE Lasting
<1>k. {"overlap", "prune", "tag", "crash"} \subseteq Kind
  BY DEF Kind
<1>1. ASSUME NEW p \in Path, ScanAdd(p) PROVE Lasting
  BY <1>k, <1>1, LastingStep DEF ScanAdd
<1>2. ASSUME NEW i \in Id, Prune(i) \/ Tag(i) PROVE Lasting
  BY <1>k, <1>2, LastingStep DEF Prune, Tag
<1>3. CASE Crash
  BY <1>k, <1>3, LastingStep DEF Crash
<1>4. QED
  BY <1>1, <1>2, <1>3, SaveLasts, LastingRequest DEF Next

LEMMA FollowingStep == IInv /\ Following /\ [Next]_vars => Following'
<1> SUFFICES ASSUME IInv, Following, [Next]_vars, Calm' PROVE Orderly'
  BY DEF Following
<1>1. Typed
  BY DEF IInv
<1>2. CASE UNCHANGED vars
  <2>1. Orderly
    BY <1>2 DEF vars, Following, Calm, Untouched
  <2>2. QED
    BY <1>2, <2>1 DEF vars, rowVars, Orderly, Alone, AtFrom, UniquePaths, Untagged, AtHome,
       Unseen, Landing, Packed, Rows, Entries, Taken, Landed
<1>3. CASE Next
  <2>1. Lasting
    BY <1>1, <1>3, LastingSteps
  <2>2. Orderly
    BY <2>1 DEF Following, Calm, Lasting, Kind
  <2>3. ASSUME NEW c \in Caller, Finish(c) PROVE Orderly'
    BY <1>1, <2>2, <2>3, RelocateFileFollows, RelocateRowFollows, TrashFileFollows,
       AddEntryFollows, DropRowFollows, EraseFileFollows, RestoreFileFollows,
       RestoreRowFollows, ForgetFollows DEF Finish
  <2>4. ASSUME NEW c \in Caller,
               \/ \E i \in Id, p \in Path : Relocate(c, i, p)
               \/ \E i \in Id : Delete(c, i) \/ Erase(c, i)
               \/ \E t \in Id, p \in Path : Restore(c, t, p)
               \/ \E tids \in SUBSET Id, all \in BOOLEAN : Empty(c, tids, all)
        PROVE  Orderly'
    BY <1>1, <2>2, <2>4, RelocateFollows, DeleteFollows, EraseFollows, RestoreFollows,
       EmptyFollows
  <2>5. QED
    BY <1>1, <1>3, <2>2, <2>3, <2>4, AroundFollows DEF Next
<1>4. QED
  BY <1>2, <1>3

\* Tags and albums stay with the file they were put on, through any number of moves,
\* deletions, restores, scans and new files side by side, as long as no two of them raced,
\* overwrote, failed, overlapped a scan or worked on the same row, and no row was pruned.
THEOREM TagsStay == Spec => []TagsFollow
<1>1. Init => Following
  <2> SUFFICES ASSUME Init PROVE Orderly
    BY DEF Following
  <2>1. \A c \in Caller : op[c].at = "idle" /\ op[c].id = 0
    BY DEF Init, NoOp
  <2>2. Alone /\ AtFrom /\ Unseen /\ Landing
    BY <2>1 DEF Alone, AtFrom, Unseen, Landing, Landed
  <2>3. UniquePaths /\ Untagged
    BY DEF Init, UniquePaths, Untagged
  <2>4. AtHome
    <3>1. \A i \in Rows : path[i] \in {p \in Path : disk[p] # None} /\ tagged[i] = None
      BY DEF Init, Rows
    <3>2. QED
      BY <3>1 DEF AtHome
  <2>5. Packed
    BY <2>1 DEF Init, Packed, Entries
  <2>6. QED
    BY <2>2, <2>3, <2>4, <2>5 DEF Orderly
<1>2. Following => TagsFollow
  <2> SUFFICES ASSUME Following, Idle, Calm, NEW i \in Rows
               PROVE  tagged[i] \in {None, disk[path[i]]}
    BY DEF TagsFollow, Calm
  <2>1. ~Taken(i)
    BY DEF Taken, Idle, Busy
  <2>2. QED
    BY <2>1 DEF Following, Orderly, AtHome
<1>3. QED
  BY <1>1, <1>2, InitInv, InductiveInv, FollowingStep, PTL DEF Spec

=============================================================================
