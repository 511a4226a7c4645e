--------------------------- MODULE DownloadProofs --------------------------
(***************************************************************************)
(* What the fetcher guarantees for any folder, any set of versions and any *)
(* number of faults, cancels, crashes, new versions and foreign files.     *)
(* The inductive invariant is small: between the comparison and the        *)
(* replacement the .part file still is what was compared, because only the *)
(* fetch itself writes it.                                                 *)
(***************************************************************************)
EXTENDS Download, TLAPS

\* Every published description of a version has its SHA-256.
HashPublished == \A known \in Metadata : "sha256" \in known

\* Between the comparison and the placement nothing has touched the .part file.
Verified == pc \in {"exists", "replace"} => Passes(parts[target])

\* Between the last look at the name and the placement it is still free.
StillFree == pc = "replace" => files[target] = NoFile

LEMMA SpendTyped ==
    ASSUME TypeOK, NEW k \in Kind, Spend(k)
    PROVE  left' \in [Kind -> Nat]
BY DEF TypeOK, Spend

LEMMA WholeTyped ==
    ASSUME NEW v \in Version
    PROVE  /\ Whole(v) \in Seq(Version)
           /\ Len(Whole(v)) = Length[v]
           /\ Length[v] \in Nat \ {0}
BY DownloadOK DEF Whole, Folder!Whole

LEMMA InitTyped == Init => TypeOK
<1> SUFFICES ASSUME Init PROVE TypeOK
  OBVIOUS
<1> USE DownloadOK DEF Init
<1>1. <<>> \in Seq(Version)
  OBVIOUS
<1>2. parts \in [Path -> Content] /\ body \in Content
  BY <1>1 DEF Content
<1>3. files \in [Path -> Content \cup {NoFile, Foreign}]
  OBVIOUS
<1>4. left \in [Kind -> Nat]
  OBVIOUS
<1>5. QED
  BY <1>2, <1>3, <1>4 DEF TypeOK

\* What every return of fetch keeps of the types.
LEMMA ReturnTyped ==
    ASSUME TypeOK, NEW result, Return(result),
           result \in {"none", "done", "skipped", "quarantined", "failed", "cancelled"}
    PROVE  /\ spec' \in FetchSpec
           /\ pc' \in {"idle", "resolve", "open", "stream", "verify", "exists", "replace"}
           /\ target' \in Path
           /\ body' \in Content
           /\ outcome' \in {"none", "done", "skipped", "quarantined", "failed", "cancelled"}
<1>1. <<>> \in Seq(Version)
  OBVIOUS
<1>2. QED
  BY <1>1 DEF TypeOK, Return, Content

LEMMA NextTyped == TypeOK /\ [Next]_vars => TypeOK'
<1> SUFFICES ASSUME TypeOK, [Next]_vars PROVE TypeOK'
  OBVIOUS
<1> USE DownloadOK
<1>1. ASSUME NEW known \in Metadata, NEW mode \in OnConflict, Start(known, mode)
      PROVE  TypeOK'
  BY <1>1 DEF Start, diskVars, TypeOK, FetchSpec
<1>2. CASE Resolve
  BY <1>2, ReturnTyped DEF Resolve, diskVars, TypeOK
<1>3. CASE Open
  <2>1. left' \in [Kind -> Nat]
    BY <1>3, SpendTyped DEF Open, Kind, TypeOK
  <2>2. /\ served \in Version /\ spec.want \in Version
        /\ parts \in [Path -> Seq(Version)] /\ target \in Path
    BY DEF TypeOK, FetchSpec, Content
  <2>3. ResumeFrom \in Nat
    BY <2>2 DEF ResumeFrom
  <2>4. ASSUME ResumeFrom < Length[served]
        PROVE  SubSeq(Whole(served), ResumeFrom + 1, Length[served]) \in Seq(Version)
    BY <2>2, <2>3, <2>4, WholeTyped
  <2>5. CASE Continue
    <3>1. ResumeFrom < Length[served]
      BY <1>3, <2>2, <2>3, <2>5, WholeTyped DEF Open, Return, Restart, Continue
    <3>2. QED
      BY <1>3, <2>1, <2>4, <2>5, <3>1 DEF Open, Continue, TypeOK, Content
  <2>6. CASE Restart
    <3>1. <<>> \in Seq(Version) /\ Whole(served) \in Seq(Version)
      BY <2>2, WholeTyped
    <3>2. QED
      BY <1>3, <2>1, <2>6, <3>1 DEF Open, Restart, TypeOK, Content
  <2>7. CASE Return("failed") /\ UNCHANGED parts
    BY <1>3, <2>1, <2>7, ReturnTyped DEF Open, TypeOK
  <2>8. QED
    BY <1>3, <2>5, <2>6, <2>7 DEF Open
<1>4. CASE Receive
  <2>1. left' \in [Kind -> Nat]
    BY <1>4, SpendTyped DEF Receive, Kind, TypeOK
  <2>2. CASE UNCHANGED parts
    BY <1>4, <2>1, <2>2, ReturnTyped DEF Receive, TypeOK
  <2>3. CASE /\ body # <<>>
             /\ parts' = [parts EXCEPT ![target] = Append(@, Head(body))]
             /\ body' = Tail(body)
             /\ UNCHANGED <<spec, pc, target, outcome, left>>
    <3>1. /\ body \in Seq(Version) /\ target \in Path
          /\ parts \in [Path -> Seq(Version)]
      BY DEF TypeOK, Content
    <3>2. Tail(body) \in Seq(Version) /\ Head(body) \in Version
      BY <2>3, <3>1
    <3>3. Append(parts[target], Head(body)) \in Seq(Version)
      BY <3>1, <3>2
    <3>4. QED
      BY <1>4, <2>3, <3>1, <3>2, <3>3 DEF Receive, TypeOK, Content
  <2>4. QED
    BY <1>4, <2>2, <2>3 DEF Receive
<1>5. CASE Verify
  <2>1. left' \in [Kind -> Nat]
    BY <1>5, SpendTyped DEF Verify, Kind, TypeOK
  <2>2. parts' \in [Path -> Content]
    <3>1. <<>> \in Seq(Version)
      OBVIOUS
    <3>2. parts' = parts \/ parts' = [parts EXCEPT ![target] = <<>>]
      BY <1>5 DEF Verify, Quarantine
    <3>3. parts \in [Path -> Seq(Version)]
      BY DEF TypeOK, Content
    <3>4. [parts EXCEPT ![target] = <<>>] \in [Path -> Seq(Version)]
      BY <3>1, <3>3
    <3>5. QED
      BY <3>2, <3>3, <3>4 DEF Content
  <2>3. QED
    BY <1>5, <2>1, <2>2, ReturnTyped DEF Verify, TypeOK
<1>6. CASE Exists
  BY <1>6, ReturnTyped DEF Exists, diskVars, TypeOK
<1>7. CASE Replace
  <2>1. left' \in [Kind -> Nat]
    BY <1>7, SpendTyped DEF Replace, Kind, TypeOK
  <2>2. files' \in [Path -> Content \cup {NoFile, Foreign}] /\ parts' \in [Path -> Content]
    <3>1. <<>> \in Seq(Version)
      OBVIOUS
    <3>2. \/ files' = files /\ parts' = parts
          \/ /\ files' = [files EXCEPT ![target] = parts[target]]
             /\ parts' = [parts EXCEPT ![target] = <<>>]
      BY <1>7 DEF Replace, diskVars
    <3>3. /\ parts \in [Path -> Seq(Version)] /\ target \in Path
          /\ files \in [Path -> Seq(Version) \cup {NoFile, Foreign}]
      BY DEF TypeOK, Content
    <3>4. [parts EXCEPT ![target] = <<>>] \in [Path -> Seq(Version)]
      BY <3>1, <3>3
    <3>5. [files EXCEPT ![target] = parts[target]]
            \in [Path -> Seq(Version) \cup {NoFile, Foreign}]
      BY <3>3
    <3>6. QED
      BY <3>2, <3>3, <3>4, <3>5 DEF Content
  <2>3. QED
    BY <1>7, <2>1, <2>2, ReturnTyped DEF Replace, TypeOK
<1>8. CASE Cancel
  BY <1>8, SpendTyped DEF Cancel, Kind, diskVars, runVars, TypeOK
<1>9. CASE Crash
  BY <1>9, SpendTyped, ReturnTyped DEF Crash, Kind, diskVars, TypeOK
<1>10. ASSUME NEW v \in Version, Publish(v) PROVE TypeOK'
  BY <1>10, SpendTyped DEF Publish, Kind, diskVars, runVars, TypeOK
<1>11. ASSUME NEW p \in Path, Appear(p) PROVE TypeOK'
  <2>1. left' \in [Kind -> Nat]
    BY <1>11, SpendTyped DEF Appear, Kind
  <2>2. QED
    BY <1>11, <2>1 DEF Appear, runVars, TypeOK
<1>12. ASSUME NEW p \in Path, Vanish(p) PROVE TypeOK'
  BY <1>12, SpendTyped DEF Vanish, Kind, runVars, TypeOK
<1>13. CASE UNCHANGED vars
  BY <1>13 DEF vars, diskVars, runVars, TypeOK
<1>14. QED
  BY <1>1, <1>2, <1>3, <1>4, <1>5, <1>6, <1>7, <1>8, <1>9, <1>10, <1>11, <1>12,
     <1>13 DEF Next, FetchStep

\* The variables keep their types whatever happens.
THEOREM DownloadTypes == Spec => []TypeOK
<1>1. QED
  BY InitTyped, NextTyped, PTL DEF Spec
-----------------------------------------------------------------------------
(* Only whole versions reach the folder *)

LEMMA PassedIsWhole ==
    ASSUME TypeOK, HashPublished, NEW bytes, Passes(bytes)
    PROVE  bytes = Whole(spec.want) /\ spec.want \in Version
BY DEF TypeOK, HashPublished, FetchSpec, Passes

LEMMA InitWhole == Init => WholeOrForeign /\ Verified
BY DEF Init, WholeOrForeign, Verified

LEMMA VerifiedStep ==
    ASSUME TypeOK, Verified, [Next]_vars
    PROVE  Verified'
<1> USE DEF Verified, Passes
<1>1. ASSUME NEW known \in Metadata, NEW mode \in OnConflict, Start(known, mode)
      PROVE  Verified'
  BY <1>1 DEF Start
<1>2. CASE Resolve
  BY <1>2 DEF Resolve, Return, TypeOK
<1>3. CASE Open
  BY <1>3 DEF Open, Return, Restart, Continue, TypeOK
<1>4. CASE Receive
  BY <1>4 DEF Receive, Return, TypeOK
<1>5. CASE Verify
  BY <1>5 DEF Verify, Return, TypeOK
<1>6. CASE Exists
  BY <1>6 DEF Exists, Return, diskVars, TypeOK
<1>7. CASE Replace
  BY <1>7 DEF Replace, Return, TypeOK
<1>8. CASE Cancel
  BY <1>8 DEF Cancel, diskVars, runVars
<1>9. CASE Crash
  BY <1>9 DEF Crash, Return
<1>10. ASSUME NEW v \in Version, Publish(v) PROVE Verified'
  BY <1>10 DEF Publish, diskVars, runVars
<1>11. ASSUME NEW p \in Path, Appear(p) \/ Vanish(p) PROVE Verified'
  BY <1>11 DEF Appear, Vanish, runVars
<1>12. CASE UNCHANGED vars
  BY <1>12 DEF vars, diskVars, runVars
<1>13. QED
  BY <1>1, <1>2, <1>3, <1>4, <1>5, <1>6, <1>7, <1>8, <1>9, <1>10, <1>11, <1>12
     DEF Next, FetchStep

\* The steps that do not touch the folder, and the three that do.
LEMMA FilesStep ==
    ASSUME TypeOK, [Next]_vars
    PROVE  \/ files' = files
           \/ /\ pc = "replace"
              /\ files' = [files EXCEPT ![target] = parts[target]]
           \/ \E p \in Path : Appear(p) \/ Vanish(p)
BY DEF Next, FetchStep, Start, Resolve, Open, Receive, Verify, Exists, Replace,
       Cancel, Crash, Publish, diskVars, vars

LEMMA WholeStep ==
    ASSUME TypeOK, HashPublished, Verified, WholeOrForeign, [Next]_vars
    PROVE  WholeOrForeign'
<1> USE DEF WholeOrForeign
<1>1. CASE files' = files
  BY <1>1
<1>2. CASE pc = "replace" /\ files' = [files EXCEPT ![target] = parts[target]]
  <2>1. parts[target] \in {Whole(v) : v \in Version}
    BY <1>2, PassedIsWhole DEF Verified
  <2>2. QED
    BY <1>2, <2>1 DEF TypeOK
<1>3. ASSUME NEW p \in Path, Appear(p) \/ Vanish(p) PROVE WholeOrForeign'
  BY <1>3 DEF Appear, Vanish, TypeOK
<1>4. QED
  BY <1>1, <1>2, <1>3, FilesStep

\* Where every description has a SHA-256, nothing but whole versions and foreign
\* files is ever in the model folder: a cancelled or crashed download, a resumed
\* prefix of another version and a source that changes leave no partial file at
\* a real name.
THEOREM OnlyWholeFiles ==
    ASSUME HashPublished
    PROVE  Spec => []WholeOrForeign
<1>1. TypeOK /\ Verified /\ WholeOrForeign /\ [Next]_vars => (Verified /\ WholeOrForeign)'
  BY HashPublished, VerifiedStep, WholeStep
<1>2. QED
  BY <1>1, InitWhole, DownloadTypes, PTL DEF Spec

-----------------------------------------------------------------------------
(* The fetcher implements the abstract folder *)

LEMMA FreeStep ==
    ASSUME TypeOK, Budget["race"] = 0, left["race"] <= Budget["race"],
           StillFree, [Next]_vars
    PROVE  StillFree' /\ left'["race"] <= Budget["race"]
<1>1. left' \in [Kind -> Nat] => left'["race"] <= left["race"]
  BY DEF Next, FetchStep, Start, Resolve, Open, Receive, Verify, Exists, Replace,
         Cancel, Crash, Publish, Appear, Vanish, Spend, Restart, Continue, Return,
         TypeOK, Kind, vars
<1>2. StillFree'
  <2> USE DEF StillFree
  <2>1. CASE Exists
    BY <2>1 DEF Exists, MayPlace, Return, diskVars
  <2>2. ASSUME NEW p \in Path, Appear(p) PROVE StillFree'
    BY <2>2, DownloadOK DEF Appear, Spend, TypeOK, Kind, runVars
  <2>3. ASSUME NEW p \in Path, Vanish(p) PROVE StillFree'
    BY <2>3 DEF Vanish, TypeOK, runVars
  <2>4. QED
    BY <2>1, <2>2, <2>3 DEF Next, FetchStep, Start, Resolve, Open, Receive, Verify,
       Replace, Cancel, Crash, Publish, Restart, Continue, Return, TypeOK,
       diskVars, runVars, vars
<1>3. QED
  BY <1>1, <1>2, NextTyped DEF TypeOK, Kind

LEMMA FolderStep ==
    ASSUME TypeOK, HashPublished, Verified, StillFree, [Next]_vars
    PROVE  [Folder!Next]_files
<1>1. CASE pc = "replace" /\ files' = [files EXCEPT ![target] = parts[target]]
  <2>1. PICK v \in Version : parts[target] = Whole(v)
    BY <1>1, PassedIsWhole DEF Verified
  <2>2. Folder!Place(target)
    BY <1>1, <2>1 DEF StillFree, Folder!Place, Whole, Folder!Whole
  <2>3. QED
    BY <2>2 DEF Folder!Next, TypeOK
<1>2. ASSUME NEW p \in Path, Appear(p) \/ Vanish(p) PROVE [Folder!Next]_files
  BY <1>2 DEF Appear, Vanish, Folder!Next, Folder!Appear, Folder!Vanish
<1>3. QED
  BY <1>1, <1>2, FilesStep

\* Where every description has a SHA-256 and nobody writes to the destination in
\* the instant between the last look at it and the replacement, the fetcher
\* implements the abstract folder: it fills free names with whole versions and
\* overwrites nothing.
THEOREM FetcherImplementsFolder ==
    ASSUME HashPublished, Budget["race"] = 0
    PROVE  Spec => FolderSpec
<1>1. Init => Folder!Init /\ StillFree /\ left["race"] <= Budget["race"]
  BY DownloadOK DEF Init, Folder!Init, StillFree, Kind
<1>2. /\ TypeOK /\ Verified /\ WholeOrForeign /\ StillFree
      /\ left["race"] <= Budget["race"] /\ [Next]_vars
      => /\ (Verified /\ WholeOrForeign /\ StillFree)'
         /\ (left["race"] <= Budget["race"])'
         /\ [Folder!Next]_files
  BY HashPublished, VerifiedStep, WholeStep, FreeStep, FolderStep
<1>3. QED
  BY <1>1, <1>2, InitWhole, DownloadTypes, PTL DEF Spec, FolderSpec, Folder!Spec

\* Where every description has a SHA-256, no cut, resume, crash or new version puts
\* anything but a whole version into the model folder.
THEOREM FolderStaysSound ==
    ASSUME HashPublished
    PROVE  Spec => []FolderSound
BY HashPublished, DownloadTypes, OnlyWholeFiles, PTL DEF FolderSound
=============================================================================
