---------------------------- MODULE Health_proofs ----------------------------
(***************************************************************************)
(* The files of the collector for every number of processes, counts and    *)
(* faults.  A process that is about to rename its temp file has written    *)
(* and fsync'ed it, and nobody else touches it: that is what FileInv says. *)
(***************************************************************************)
EXTENDS Health, FiniteSetTheorems, TLAPS

Values == Nat \cup {Missing}

FileInv ==
    /\ visible \in [Files -> Values] /\ stable \in [Files -> Values]
    /\ dirty = {} /\ flushed \subseteq Pids
    /\ tmp \in [Pids -> Int] /\ arg \in [Pids -> Nat] /\ reconnects \in [Pids -> Nat]
    /\ pc \in [Pids -> Places] /\ io \in [Pids -> Steps]
    /\ \A p \in Pids :
          /\ pc[p] \in {"read", "run"} => io[p] = "open"
          /\ Writing(p) /\ io[p] = "fsync" => tmp[p] \in Nat
          /\ Writing(p) /\ io[p] = "replace" => tmp[p] \in Nat /\ p \in flushed
    /\ ~clash

LEMMA Marks == Torn \notin Values /\ Missing \notin Nat /\ Missing \in Int /\ Torn \in Int
BY DEF Values, Torn, Missing

LEMMA NatCount == MaxCount \in Nat /\ MaxFaults \in Nat
BY HealthAssumption

LEMMA ParseIsNat == ASSUME NEW v \in Values PROVE Parse(v, 0) \in Nat
BY DEF Values, Parse, Torn, Missing

LEMMA FilesInit == Init => FileInv
BY Marks DEF Init, FileInv, Values, Files, Places, Steps, Writing

LEMMA FilesStep == FileInv /\ [Next]_vars => FileInv'
<1> SUFFICES ASSUME FileInv, [Next]_vars
             PROVE  FileInv'
  OBVIOUS
<1> USE DEF FileInv, Writing
<1>1. CASE UNCHANGED vars
  BY <1>1 DEF vars, files, procs, history
<1>2. ASSUME NEW p \in Pids, OpenTemp(p)
      PROVE  FileInv'
  BY <1>2, Marks DEF OpenTemp, Advance, Temp, Steps, history
<1>3. ASSUME NEW p \in Pids, WriteTemp(p)
      PROVE  FileInv'
  BY <1>3 DEF WriteTemp, Advance, Temp, Steps, history
<1>4. ASSUME NEW p \in Pids, FsyncTemp(p)
      PROVE  FileInv'
  BY <1>4 DEF FsyncTemp, Advance, Temp, Steps, history
<1>5. ASSUME NEW p \in Pids, Replace(p)
      PROVE  FileInv'
  <2>1. Writing(p) /\ tmp[p] \in Nat /\ p \in flushed /\ tmp[p] # Missing
    BY <1>5, Marks DEF Replace
  <2>2. /\ visible' = [visible EXCEPT ![Path(p)] = tmp[p]] /\ dirty' = {}
        /\ tmp' = [tmp EXCEPT ![p] = Missing] /\ Advance(p, "dirsync")
        /\ UNCHANGED <<stable, flushed, clash>>
    BY <1>5, <2>1 DEF Replace, Temp, history
  <2>3. visible' \in [Files -> Values]
    BY <2>1, <2>2 DEF Values
  <2> QED
    BY <2>1, <2>2, <2>3, Marks DEF Advance, Steps
<1>6. ASSUME NEW p \in Pids, FsyncDir(p)
      PROVE  FileInv'
  <2>1. stable' \in [Files -> Values]
    BY <1>6 DEF FsyncDir, Persisted
  <2>2. /\ pc' = [pc EXCEPT ![p] = IF @ = "rtc" THEN "read" ELSE "run"]
        /\ io' = [io EXCEPT ![p] = "open"]
        /\ UNCHANGED <<visible, dirty, tmp, flushed, arg, reconnects, clash>>
    BY <1>6 DEF FsyncDir, Return, Returned
  <2> QED
    BY <2>1, <2>2 DEF Places, Steps
<1>7. ASSUME NEW p \in Pids, WriteFails(p)
      PROVE  FileInv'
  BY <1>7, Marks DEF WriteFails, Return, Temp, Places, Steps
<1>8. ASSUME NEW p \in Pids, Start(p)
      PROVE  FileInv'
  BY <1>8 DEF Start, files, Places, Steps
<1>9. ASSUME NEW p \in Pids, ReadCount(p) \/ ReadCountFails(p)
      PROVE  FileInv'
  <2>1. read_restart_count + 1 \in Nat
    BY ParseIsNat DEF read_restart_count, Files
  <2> QED
    BY <1>9, <2>1 DEF ReadCount, ReadCountFails, files, history, Places
<1>10. ASSUME NEW p \in Pids, Reconnect(p)
       PROVE  FileInv'
  BY <1>10 DEF Reconnect, files, history, Places
<1>11. ASSUME NEW p \in Pids, Die(p)
       PROVE  FileInv'
  BY <1>11 DEF Die, files, history, Places
<1>12. ASSUME NEW f \in Files, Writeback(f)
       PROVE  FileInv'
  BY <1>12 DEF Writeback, Persisted, procs, history
<1>13. CASE PowerCut
  BY <1>13, Marks DEF PowerCut, history, Places
<1> QED
  BY <1>1, <1>2, <1>3, <1>4, <1>5, <1>6, <1>7, <1>8, <1>9, <1>10, <1>11, <1>12, <1>13 DEF Next

THEOREM FileInvariant == Spec => []FileInv
BY FilesInit, FilesStep, PTL DEF Spec

\* A power cut never leaves a partial file, and no reader ever sees one
\* (health.py:53-60), whatever writes, dies or fails.
THEOREM HealthNeverTorn == Spec => []NeverTorn
<1>1. FileInv => NeverTorn
  BY Marks DEF FileInv, NeverTorn
<1> QED
  BY <1>1, FileInvariant, PTL

\* No instance makes the rename of another fail (health.py:63-69).
THEOREM HealthWritersIndependent == Spec => []WritersIndependent
<1>1. FileInv => WritersIndependent
  BY DEF FileInv, WritersIndependent
<1> QED
  BY <1>1, FileInvariant, PTL

-----------------------------------------------------------------------------
(* The counters.  The processes whose increment is still to come keep room *)
(* below the number of starts, so the count never passes it; and while one *)
(* instance runs at a time, nothing stands between what it read and what   *)
(* it writes.                                                              *)

Fresh    == {p \in Pids : pc[p] \in {"rtc", "read"}}
Counting == {p \in Pids : pc[p] \in {"rtc", "read", "count"}}

RoomInv ==
    /\ IsFiniteSet(Counting) /\ counted + Cardinality(Counting) <= starts
    /\ Parse(visible["restart_count"], 0) + Cardinality(Fresh) <= starts
    /\ Parse(stable["restart_count"], 0) + Cardinality(Fresh) <= starts
    /\ \A p \in Pids :
          /\ pc[p] = "count" => arg[p] + Cardinality(Fresh) <= starts
          /\ pc[p] = "rtc" => arg[p] \in {0, 1}
          /\ Writing(p) /\ io[p] \in {"fsync", "replace"} => tmp[p] = arg[p]

HInv == TypeOK /\ FileInv /\ RoomInv

LEMMA FreshCard ==
    ASSUME IsFiniteSet(Counting)
    PROVE  /\ IsFiniteSet(Fresh) /\ Cardinality(Fresh) \in Nat
           /\ Cardinality(Counting) \in Nat
<1>1. Fresh \subseteq Counting
  BY DEF Fresh, Counting
<1> QED
  BY <1>1, FS_Subset, FS_CardinalityType

\* Nothing new in either set: neither grows.
LEMMA Fewer ==
    ASSUME IsFiniteSet(Counting), Fresh' \subseteq Fresh, Counting' \subseteq Counting
    PROVE  /\ IsFiniteSet(Counting') /\ Cardinality(Counting') <= Cardinality(Counting)
           /\ Cardinality(Fresh') <= Cardinality(Fresh)
           /\ Cardinality(Fresh') \in Nat /\ Cardinality(Counting') \in Nat
BY FreshCard, FS_Subset, FS_CardinalityType

\* The effects of the steps that end a rename and a write.
LEMMA ReplaceEffect ==
    ASSUME FileInv, NEW p \in Pids, Replace(p)
    PROVE  /\ Writing(p) /\ io[p] = "replace" /\ tmp[p] \in Nat
           /\ visible' = [visible EXCEPT ![Path(p)] = tmp[p]]
           /\ tmp' = [tmp EXCEPT ![p] = Missing]
           /\ io' = [io EXCEPT ![p] = "dirsync"]
           /\ dirty' = {}
           /\ UNCHANGED <<stable, flushed, pc, arg, reconnects, rtcs, counted, clash, muddled, starts, faults>>
BY Marks DEF FileInv, Replace, Temp, Advance, history

LEMMA FsyncDirEffect ==
    ASSUME FileInv, NEW p \in Pids, FsyncDir(p)
    PROVE  /\ Writing(p) /\ io[p] = "dirsync"
           /\ stable' = visible
           /\ pc' = [pc EXCEPT ![p] = IF @ = "rtc" THEN "read" ELSE "run"]
           /\ io' = [io EXCEPT ![p] = "open"]
           /\ rtcs' = IF pc[p] = "rtc" THEN arg[p] ELSE rtcs
           /\ counted' = IF pc[p] = "count" THEN counted + 1 ELSE counted
           /\ UNCHANGED <<visible, dirty, tmp, flushed, arg, reconnects, clash, muddled, starts, faults>>
<1>1. stable' = visible
  BY DEF FsyncDir, Persisted, FileInv
<1> QED
  BY <1>1 DEF FsyncDir, Return, Returned

LEMMA WritebackEffect ==
    ASSUME FileInv, NEW f \in Files, Writeback(f)
    PROVE  /\ stable' = [stable EXCEPT ![f] = visible[f]]
           /\ UNCHANGED <<visible, dirty, tmp, flushed, procs, history, starts, faults>>
BY DEF FileInv, Writeback, Persisted

LEMMA TypeInit == Init => TypeOK
<1> SUFFICES ASSUME Init
             PROVE  TypeOK
  OBVIOUS
<1>1. clash \in BOOLEAN /\ muddled \in BOOLEAN
  BY Zenon DEF Init
<1>2. /\ visible \in [Files -> Content] /\ stable \in [Files -> Content]
      /\ tmp \in [Pids -> Content] /\ pc \in [Pids -> Places] /\ io \in [Pids -> Steps]
      /\ arg \in [Pids -> 0..MaxCount] /\ reconnects \in [Pids -> 0..MaxCount]
  BY NatCount DEF Init, Content, Places, Steps
<1> QED
  BY <1>1, <1>2, NatCount DEF Init, TypeOK

LEMMA RoomInit == Init => RoomInv
<1> SUFFICES ASSUME Init
             PROVE  RoomInv
  OBVIOUS
<1>1. Fresh = {} /\ Counting = {}
  BY DEF Init, Fresh, Counting
<1> QED
  BY <1>1, FS_EmptySet DEF Init, RoomInv, Parse, Files, Writing, Missing

\* The types, as far as the Boolean histories are concerned.
LEMMA FlagStep == TypeOK /\ [Next]_vars => clash' \in BOOLEAN /\ muddled' \in BOOLEAN
<1> SUFFICES ASSUME TypeOK, [Next]_vars
             PROVE  clash' \in BOOLEAN /\ muddled' \in BOOLEAN
  OBVIOUS
<1> USE DEF TypeOK
<1>1. CASE UNCHANGED vars \/ PowerCut \/ \E f \in Files : Writeback(f)
  BY <1>1, Zenon DEF vars, history, PowerCut, Writeback
<1>2. ASSUME NEW p \in Pids, OpenTemp(p) \/ WriteTemp(p) \/ FsyncTemp(p) \/ Replace(p) \/ FsyncDir(p)
      PROVE  clash' \in BOOLEAN /\ muddled' \in BOOLEAN
  BY <1>2, Zenon DEF OpenTemp, WriteTemp, FsyncTemp, Replace, FsyncDir, Returned, history
<1>3. ASSUME NEW p \in Pids,
             WriteFails(p) \/ Start(p) \/ ReadCount(p) \/ ReadCountFails(p) \/ Reconnect(p) \/ Die(p)
      PROVE  clash' \in BOOLEAN /\ muddled' \in BOOLEAN
  BY <1>3, Zenon DEF WriteFails, Start, ReadCount, ReadCountFails, Reconnect, Die, history
<1> QED
  BY <1>1, <1>2, <1>3 DEF Next

\* What an increment that has not returned leaves room for.
LEMMA FreshUp ==
    ASSUME HInv, NEW p \in Pids, pc[p] = "read"
    PROVE  read_restart_count + 1 \in 0..MaxCount
<1>1. Fresh # {} /\ IsFiniteSet(Fresh) /\ Cardinality(Fresh) \in Nat
  BY FreshCard DEF HInv, RoomInv, Fresh
<1>2. Cardinality(Fresh) > 0
  BY <1>1, FS_EmptySet
<1>3. read_restart_count \in Nat
  BY ParseIsNat DEF HInv, FileInv, read_restart_count, Files
<1> QED
  BY <1>1, <1>2, <1>3, NatCount DEF HInv, TypeOK, RoomInv, read_restart_count

LEMMA TypeStep == HInv /\ [Next]_vars => TypeOK'
<1> SUFFICES ASSUME HInv, [Next]_vars
             PROVE  TypeOK'
  OBVIOUS
<1>0. clash' \in BOOLEAN /\ muddled' \in BOOLEAN
  BY FlagStep DEF HInv
<1> USE <1>0, NatCount, HealthAssumption DEF HInv, TypeOK
<1>1. CASE UNCHANGED vars
  BY <1>1 DEF vars, files, procs, history
<1>2. ASSUME NEW p \in Pids, OpenTemp(p) \/ WriteTemp(p) \/ FsyncTemp(p)
      PROVE  TypeOK'
  BY <1>2 DEF OpenTemp, WriteTemp, FsyncTemp, Advance, Temp, Steps, Content, history
<1>3. ASSUME NEW p \in Pids, Replace(p)
      PROVE  TypeOK'
  <2>1. tmp[p] = arg[p]
    BY <1>3, ReplaceEffect DEF RoomInv
  <2>2. visible' \in [Files -> Content]
    BY <1>3, <2>1, ReplaceEffect DEF Content
  <2> QED
    BY <1>3, <2>2, ReplaceEffect DEF Steps, Content
<1>4. ASSUME NEW p \in Pids, FsyncDir(p)
      PROVE  TypeOK'
  <2>1. rtcs' \in {0, 1, Missing}
    BY <1>4, FsyncDirEffect DEF RoomInv
  <2>2. counted' \in 0..MaxCount
    <3>1. counted + Cardinality(Counting) <= starts /\ Cardinality(Counting) \in Nat
      BY FreshCard DEF RoomInv
    <3>2. pc[p] = "count" => Cardinality(Counting) > 0
      BY FS_EmptySet, <3>1 DEF Counting, RoomInv
    <3> QED
      BY <1>4, <3>1, <3>2, FsyncDirEffect
  <2> QED
    BY <1>4, <2>1, <2>2, FsyncDirEffect DEF Steps, Places
<1>5. ASSUME NEW p \in Pids, WriteFails(p)
      PROVE  TypeOK'
  BY <1>5 DEF WriteFails, Return, Temp, Places, Steps, Content
<1>6. ASSUME NEW p \in Pids, Start(p)
      PROVE  TypeOK'
  BY <1>6 DEF Start, files, Places, Steps
<1>7. ASSUME NEW p \in Pids, ReadCount(p) \/ ReadCountFails(p)
      PROVE  TypeOK'
  BY <1>7, FreshUp DEF ReadCount, ReadCountFails, files, history, Places
<1>8. ASSUME NEW p \in Pids, Reconnect(p)
      PROVE  TypeOK'
  BY <1>8 DEF Reconnect, files, history, Places
<1>9. ASSUME NEW p \in Pids, Die(p)
      PROVE  TypeOK'
  BY <1>9 DEF Die, files, history, Places
<1>10. ASSUME NEW f \in Files, Writeback(f)
       PROVE  TypeOK'
  BY <1>10, WritebackEffect DEF procs, history
<1>11. CASE PowerCut
  BY <1>11 DEF PowerCut, history, Places, Content
<1> QED
  BY <1>1, <1>2, <1>3, <1>4, <1>5, <1>6, <1>7, <1>8, <1>9, <1>10, <1>11 DEF Next

LEMMA RoomStep == HInv /\ [Next]_vars => RoomInv'
<1> SUFFICES ASSUME HInv, [Next]_vars
             PROVE  RoomInv'
  OBVIOUS
<1>0. /\ IsFiniteSet(Counting) /\ IsFiniteSet(Fresh)
      /\ Cardinality(Counting) \in Nat /\ Cardinality(Fresh) \in Nat
      /\ Parse(visible["restart_count"], 0) \in Nat /\ Parse(stable["restart_count"], 0) \in Nat
  BY FreshCard, ParseIsNat DEF HInv, RoomInv, FileInv, Files
<1> USE <1>0, NatCount, HealthAssumption DEF HInv, TypeOK, RoomInv, Writing
<1>1. CASE UNCHANGED vars
  <2>1. Fresh' = Fresh /\ Counting' = Counting
    BY <1>1 DEF vars, procs, Fresh, Counting
  <2> QED
    BY <1>1, <2>1 DEF vars, files, procs, history
<1>2. ASSUME NEW p \in Pids, OpenTemp(p) \/ WriteTemp(p) \/ FsyncTemp(p)
      PROVE  RoomInv'
  <2>1. Fresh' = Fresh /\ Counting' = Counting
    BY <1>2 DEF OpenTemp, WriteTemp, FsyncTemp, Advance, Fresh, Counting
  <2> QED
    BY <1>2, <2>1 DEF OpenTemp, WriteTemp, FsyncTemp, Advance, Temp, Steps, history
<1>3. ASSUME NEW p \in Pids, Replace(p)
      PROVE  RoomInv'
  <2>1. Fresh' = Fresh /\ Counting' = Counting
    BY <1>3, ReplaceEffect DEF Fresh, Counting
  <2>2. tmp[p] = arg[p] /\ arg[p] \in Nat
    BY <1>3, ReplaceEffect
  <2>3. pc[p] # "count" => visible'["restart_count"] = visible["restart_count"]
    BY <1>3, ReplaceEffect DEF Path, Files
  <2>4. pc[p] = "count" => visible'["restart_count"] = arg[p] /\ Parse(arg[p], 0) = arg[p]
    BY <1>3, <2>2, ReplaceEffect DEF Path, Files, Parse, Missing, Torn
  <2>5. Parse(visible'["restart_count"], 0) + Cardinality(Fresh) <= starts
    BY <2>3, <2>4
  <2> QED
    BY <1>3, <2>1, <2>5, ReplaceEffect DEF Steps
<1>4. ASSUME NEW p \in Pids, FsyncDir(p)
      PROVE  RoomInv'
  <2>1. Fresh' = Fresh
    BY <1>4, FsyncDirEffect DEF Fresh
  <2>2. Counting' = IF pc[p] = "count" THEN Counting \ {p} ELSE Counting
    BY <1>4, FsyncDirEffect DEF Counting
  <2>3. /\ IsFiniteSet(Counting \ {p})
        /\ pc[p] = "count" => Cardinality(Counting \ {p}) = Cardinality(Counting) - 1
    BY FS_RemoveElement DEF Counting
  <2>4. IsFiniteSet(Counting')
    BY <2>2, <2>3
  <2>5. counted' + Cardinality(Counting') <= starts
    BY <1>4, <2>2, <2>3, FsyncDirEffect
  <2> QED
    BY <1>4, <2>1, <2>4, <2>5, FsyncDirEffect DEF Steps, Files
<1>5. ASSUME NEW p \in Pids, WriteFails(p) \/ Die(p)
      PROVE  RoomInv'
  <2>1. Fresh' \subseteq Fresh /\ Counting' \subseteq Counting
    BY <1>5 DEF WriteFails, Die, Return, Fresh, Counting
  <2> QED
    BY <1>5, <2>1, Fewer DEF WriteFails, Die, Return, Temp, files, history, Steps
<1>6. ASSUME NEW p \in Pids, Start(p)
      PROVE  RoomInv'
  <2>1. p \notin Fresh /\ p \notin Counting
    BY <1>6 DEF Start, Alive, Fresh, Counting
  <2>2. Fresh' = Fresh \cup {p} /\ Counting' = Counting \cup {p}
    BY <1>6 DEF Start, Fresh, Counting
  <2>3. /\ Cardinality(Fresh') = Cardinality(Fresh) + 1
        /\ Cardinality(Counting') = Cardinality(Counting) + 1 /\ IsFiniteSet(Counting')
    BY <2>1, <2>2, FS_AddElement
  <2> QED
    BY <1>6, <2>3 DEF Start, files, Steps
<1>7. ASSUME NEW p \in Pids, ReadCount(p) \/ ReadCountFails(p)
      PROVE  RoomInv'
  <2>1. p \in Fresh /\ Fresh' = Fresh \ {p} /\ Counting' = Counting
    BY <1>7 DEF ReadCount, ReadCountFails, Fresh, Counting
  <2>2. Cardinality(Fresh') = Cardinality(Fresh) - 1
    BY <2>1, FS_RemoveElement
  <2>3. arg'[p] \in {read_restart_count + 1, 1} /\ arg' = [arg EXCEPT ![p] = arg'[p]]
    BY <1>7 DEF ReadCount, ReadCountFails
  <2>4. arg'[p] + Cardinality(Fresh') <= starts
    BY <2>2, <2>3 DEF read_restart_count
  <2>5. io[p] = "open"
    BY <1>7 DEF ReadCount, ReadCountFails, FileInv
  <2>6. pc' = [pc EXCEPT ![p] = "count"] /\ UNCHANGED <<files, io, starts, counted>>
    BY <1>7 DEF ReadCount, ReadCountFails, history
  <2> QED
    BY <2>1, <2>2, <2>3, <2>4, <2>5, <2>6 DEF files
<1>8. ASSUME NEW p \in Pids, Reconnect(p)
      PROVE  RoomInv'
  <2>1. Fresh' = Fresh /\ Counting' = Counting
    BY <1>8 DEF Reconnect, Fresh, Counting
  <2>2. io[p] = "open"
    BY <1>8 DEF Reconnect, FileInv
  <2> QED
    BY <1>8, <2>1, <2>2 DEF Reconnect, files, history
<1>9. ASSUME NEW f \in Files, Writeback(f)
      PROVE  RoomInv'
  <2>1. Fresh' = Fresh /\ Counting' = Counting
    BY <1>9, WritebackEffect DEF procs, Fresh, Counting
  <2> QED
    BY <1>9, <2>1, WritebackEffect DEF procs, history, Files
<1>10. CASE PowerCut
  <2>1. Fresh' = {} /\ Counting' = {}
    BY <1>10 DEF PowerCut, Fresh, Counting
  <2>2. Cardinality({}) = 0 /\ IsFiniteSet({})
    BY FS_EmptySet
  <2> QED
    BY <1>10, <2>1, <2>2 DEF PowerCut, history
<1> QED
  BY <1>1, <1>2, <1>3, <1>4, <1>5, <1>6, <1>7, <1>8, <1>9, <1>10 DEF Next

-----------------------------------------------------------------------------
\* While no two instances overlap and no read or write fails: the one instance
\* that is alive finds in a file what the last write put there.
AloneInv ==
    /\ \A p, q \in Pids : Alive(p) /\ Alive(q) => p = q
    /\ Parse(visible["restart_count"], 0) >= counted
    /\ Parse(stable["restart_count"], 0) >= counted
    /\ \A p \in Pids :
          /\ pc[p] \in {"rtc", "read", "count"} => reconnects[p] = 0
          /\ pc[p] = "rtc" /\ io[p] = "dirsync" => visible["rtc_ok"] = arg[p]
          /\ pc[p] \in {"read", "count", "run", "reconnect"}
                => rtcs \in {0, 1} /\ visible["rtc_ok"] = rtcs /\ stable["rtc_ok"] = rtcs
          /\ pc[p] = "count" => arg[p] > counted
          /\ pc[p] = "count" /\ io[p] = "dirsync" => visible["restart_count"] = arg[p]
          /\ pc[p] = "reconnect" => arg[p] = reconnects[p]
          /\ pc[p] = "reconnect" /\ io[p] = "dirsync" => visible["reconnect_count"] = arg[p]
          /\ pc[p] = "run" /\ reconnects[p] > 0
                => visible["reconnect_count"] = reconnects[p] /\ stable["reconnect_count"] = reconnects[p]

LEMMA ParseNat == ASSUME NEW n \in Nat, NEW d PROVE Parse(n, d) = n
BY DEF Parse, Missing, Torn

LEMMA Numbers ==
    ASSUME HInv
    PROVE  /\ counted \in Nat /\ starts \in Nat
           /\ Parse(visible["restart_count"], 0) \in Nat
           /\ Parse(stable["restart_count"], 0) \in Nat
<1>1. counted \in Nat /\ starts \in Nat
  BY NatCount DEF HInv, TypeOK
<1>2. visible["restart_count"] \in Values /\ stable["restart_count"] \in Values
  BY DEF HInv, FileInv, Files
<1> QED
  BY <1>1, <1>2, ParseIsNat

LEMMA AloneInit == Init => (~muddled => AloneInv)
BY DEF Init, AloneInv, Alive, Parse, Files, Missing

LEMMA AloneStep == HInv /\ (~muddled => AloneInv) /\ [Next]_vars => (~muddled' => AloneInv')
<1> SUFFICES ASSUME HInv, ~muddled => AloneInv, [Next]_vars, ~muddled'
             PROVE  AloneInv'
  OBVIOUS
<1>0. /\ counted \in Nat
      /\ Parse(visible["restart_count"], 0) \in Nat /\ Parse(stable["restart_count"], 0) \in Nat
  BY Numbers
<1> USE <1>0, NatCount DEF HInv, TypeOK, AloneInv, Alive, Writing
<1>1. CASE UNCHANGED vars
  BY <1>1 DEF vars, files, procs, history
<1>2. ASSUME NEW p \in Pids, OpenTemp(p) \/ WriteTemp(p) \/ FsyncTemp(p)
      PROVE  AloneInv'
  BY <1>2 DEF OpenTemp, WriteTemp, FsyncTemp, Advance, Steps, history
<1>3. ASSUME NEW p \in Pids, Replace(p)
      PROVE  AloneInv'
  <2>1. /\ AloneInv /\ tmp[p] = arg[p] /\ arg[p] \in Nat
        /\ \A q \in Pids : q # p => pc[q] = "down"
    BY <1>3, ReplaceEffect DEF RoomInv
  <2>2. CASE pc[p] = "rtc"
    BY <1>3, <2>1, <2>2, ReplaceEffect DEF Path, Files, Steps
  <2>3. CASE pc[p] = "count"
    BY <1>3, <2>1, <2>3, ReplaceEffect, ParseNat DEF Path, Files, Steps
  <2>4. CASE pc[p] = "reconnect"
    BY <1>3, <2>1, <2>4, ReplaceEffect DEF Path, Files, Steps
  <2> QED
    BY <1>3, <2>2, <2>3, <2>4, ReplaceEffect
<1>4. ASSUME NEW p \in Pids, FsyncDir(p)
      PROVE  AloneInv'
  <2>1. /\ AloneInv
        /\ \A q \in Pids : q # p => pc[q] = "down"
    BY <1>4, FsyncDirEffect
  <2>2. CASE pc[p] = "rtc"
    BY <1>4, <2>1, <2>2, FsyncDirEffect DEF RoomInv, Files, Steps
  <2>3. CASE pc[p] = "count"
    <3>1. Parse(visible["restart_count"], 0) = arg[p] /\ arg[p] > counted
      BY <1>4, <2>1, <2>3, FsyncDirEffect, ParseNat
    <3> QED
      BY <1>4, <2>1, <2>3, <3>1, FsyncDirEffect DEF Files, Steps
  <2>4. CASE pc[p] = "reconnect"
    BY <1>4, <2>1, <2>4, FsyncDirEffect DEF Files, Steps
  <2> QED
    BY <1>4, <2>2, <2>3, <2>4, FsyncDirEffect
<1>5. ASSUME NEW p \in Pids, Start(p)
      PROVE  AloneInv'
  <2>1. ~muddled /\ \A q \in Pids : pc[q] = "down"
    BY <1>5, Zenon DEF Start
  <2> QED
    BY <1>5, <2>1 DEF Start, files, Steps
<1>6. ASSUME NEW p \in Pids, ReadCount(p)
      PROVE  AloneInv'
  <2>1. io[p] = "open"
    BY <1>6 DEF ReadCount, FileInv
  <2> QED
    BY <1>6, <2>1 DEF ReadCount, read_restart_count, files, history
<1>7. ASSUME NEW p \in Pids, WriteFails(p) \/ ReadCountFails(p)
      PROVE  FALSE
  BY <1>7, Zenon DEF WriteFails, ReadCountFails
<1>8. ASSUME NEW p \in Pids, Reconnect(p)
      PROVE  AloneInv'
  <2>1. io[p] = "open"
    BY <1>8 DEF Reconnect, FileInv
  <2> QED
    BY <1>8, <2>1 DEF Reconnect, files, history
<1>9. ASSUME NEW p \in Pids, Die(p)
      PROVE  AloneInv'
  BY <1>9 DEF Die, files, history
<1>10. ASSUME NEW f \in Files, Writeback(f)
       PROVE  AloneInv'
  BY <1>10, WritebackEffect DEF procs, history, Files
<1>11. CASE PowerCut
  BY <1>11 DEF PowerCut, history
<1> QED
  BY <1>1, <1>2, <1>3, <1>4, <1>5, <1>6, <1>7, <1>8, <1>9, <1>10, <1>11 DEF Next

\* The counters and the files, together.
THEOREM CounterInvariant == Spec => [](HInv /\ (~muddled => AloneInv))
<1>1. Init => HInv /\ (~muddled => AloneInv)
  BY TypeInit, FilesInit, RoomInit, AloneInit DEF HInv
<1>2. HInv /\ (~muddled => AloneInv) /\ [Next]_vars => (HInv /\ (~muddled => AloneInv))'
  BY TypeStep, FilesStep, RoomStep, AloneStep DEF HInv
<1> QED
  BY <1>1, <1>2, PTL DEF Spec

\* An increment of restart_count that returned is not lost, and nothing is
\* counted that was not a start, whatever dies, and also if the power goes now
\* (health.py increment_restart_count).
THEOREM HealthCountKept == Spec => []CountKept
<1>1. HInv /\ (~muddled => AloneInv) => CountKept
  <2> SUFFICES ASSUME HInv, ~muddled => AloneInv
               PROVE  CountKept
    OBVIOUS
  <2>1. /\ counted \in Nat /\ starts \in Nat /\ Cardinality(Fresh) \in Nat
        /\ Parse(visible["restart_count"], 0) \in Nat
    BY Numbers, FreshCard DEF HInv, RoomInv
  <2>2. Parse(visible["restart_count"], 0) <= starts
    BY <2>1 DEF HInv, RoomInv
  <2> QED
    BY <2>1, <2>2 DEF CountKept, HInv, AloneInv, read_restart_count
<1> QED
  BY <1>1, CounterInvariant, PTL

\* The other processes read what the running collector last reported, now and
\* after a power cut (health.py write_rtc_ok, write_reconnect_count).
THEOREM HealthReported == Spec => []Reported
<1>1. HInv /\ (~muddled => AloneInv) => Reported
  <2> SUFFICES ASSUME HInv, AloneInv, NEW p \in Pids
               PROVE  /\ pc[p] \in {"read", "count", "run", "reconnect"}
                            => Parse(stable["rtc_ok"], 1) = rtcs
                      /\ pc[p] = "run" /\ reconnects[p] > 0
                            => /\ read_reconnect_count = reconnects[p]
                               /\ stable["reconnect_count"] = reconnects[p]
    BY DEF Reported
  <2>1. reconnects[p] \in Nat
    BY DEF HInv, FileInv
  <2> QED
    BY <2>1, ParseNat DEF AloneInv, read_reconnect_count
<1> QED
  BY <1>1, CounterInvariant, PTL
=============================================================================
