---------------------------- MODULE ExportProofs ----------------------------
(***************************************************************************)
(* Proofs about exports, for any number of them, any disk, any cost of a   *)
(* line and any number of names: whatever fails and whenever the console   *)
(* quits or the machine loses power.                                       *)
(***************************************************************************)
EXTENDS Export, TLAPS

(* An export that has a file has a name for it.                             *)
Named == \A e \in Exports :
            pc[e] \in {"open", "stream", "abort", "rename"} => name[e] \in Names

(* Nothing is written before there is something to write.                   *)
IdleIsEmpty == \A e \in Exports : pc[e] = "idle" => lines[e] = 0

(* Past the sync every event is in the file, and the file on the platter.   *)
Ready == \A e \in Exports :
            pc[e] \in {"rename", "chown", "done"} => e \in synced /\ lines[e] = total[e]

(* A partial whose rename and removal both failed: it is whole.             *)
Unnamed(e) == pc[e] = "failed" /\ e \in synced /\ lines[e] = total[e]

(* Whose file may be where: an export's partial under its own name while it *)
(* writes, or when it could not be removed; anything under a final name is  *)
(* of an export that was renamed.                                           *)
Owned == \A n \in Names, e \in Exports :
            dir[n] = e =>
               IF n.partial
               THEN /\ n = Partial(e)
                    /\ \/ pc[e] \in {"stream", "abort", "rename", "failedToRemove"}
                       \/ Unnamed(e)
               ELSE pc[e] \in {"chown", "done"}

EInv == TypeOK /\ Named /\ IdleIsEmpty /\ Ready /\ Owned /\ PartialIsMine

(* An export's partial and final names are names, and never the same one.   *)
LEMMA NamesOfExport ==
  ASSUME NEW e \in Exports, name[e] \in Names
  PROVE  /\ Partial(e) \in Names /\ Partial(e).partial
         /\ Final(e) \in Names /\ ~Final(e).partial
BY DEF Names, Partial, Final

(* Nothing has been asked for, and the directory is empty.                  *)
LEMMA InitEInv == Init => EInv
<1> SUFFICES ASSUME Init PROVE EInv
  OBVIOUS
<1>1. TypeOK
  BY ExportAssumption DEF Init, TypeOK, Labels
<1>2. Named /\ IdleIsEmpty /\ Ready /\ PartialIsMine
  BY DEF Init, Named, IdleIsEmpty, Ready, PartialIsMine
<1>3. Owned
  BY ExportAssumption DEF Init, Owned, Unnamed
<1> QED BY <1>1, <1>2, <1>3 DEF EInv

-----------------------------------------------------------------------------
(* Before anything is opened: the directory is not touched.                 *)
LEMMA AskOK == ASSUME EInv, NEW e \in Exports, Ask(e) PROVE EInv'
<1> USE DEF EInv
<1>1. PICK n \in 1..MaxEvents :
        /\ pc[e] = "idle" /\ pc' = [pc EXCEPT ![e] = "preflight"]
        /\ total' = [total EXCEPT ![e] = n]
        /\ UNCHANGED <<lines, cost, name, dir, synced, free, second, running>>
  BY DEF Ask, Goto
<1>2. lines[e] = 0
  BY <1>1 DEF IdleIsEmpty
<1>3. TypeOK'
  BY <1>1, <1>2, ExportAssumption DEF TypeOK, Labels, IdleIsEmpty
<1>4. Named' /\ Ready' /\ IdleIsEmpty'
  BY <1>1 DEF TypeOK, Named, Ready, IdleIsEmpty
<1>5. Owned' /\ PartialIsMine'
  BY <1>1 DEF TypeOK, Owned, Unnamed, PartialIsMine, Partial
<1> QED BY <1>3, <1>4, <1>5

(* The preflight decides only whether the export goes on.                   *)
LEMMA PreflightOK == ASSUME EInv, NEW e \in Exports, Preflight(e) PROVE EInv'
<1> USE DEF EInv, Goto
<1>1. PICK l \in {"name", "refused"} :
        /\ pc[e] = "preflight" /\ pc' = [pc EXCEPT ![e] = l]
        /\ UNCHANGED <<total, lines, cost, name, dir, synced, free, second, running>>
  BY DEF Preflight
<1>2. TypeOK'
  BY <1>1 DEF TypeOK, Labels
<1>3. Named' /\ IdleIsEmpty' /\ Ready'
  BY <1>1 DEF TypeOK, Named, IdleIsEmpty, Ready
<1>4. Owned' /\ PartialIsMine'
  BY <1>1 DEF TypeOK, Owned, Unnamed, PartialIsMine, Partial
<1> QED BY <1>2, <1>3, <1>4

(* uniquePath chooses a name and creates nothing under it.                  *)
LEMMA UniquePathOK == ASSUME EInv, NEW e \in Exports, UniquePath(e) PROVE EInv'
<1> USE DEF EInv
<1>1. PICK l \in {"open", "refused"}, chosen \in Names \cup {NoName} :
        /\ pc[e] = "name" /\ pc' = [pc EXCEPT ![e] = l]
        /\ name' = [name EXCEPT ![e] = chosen]
        /\ l = "open" => chosen \in Names
        /\ UNCHANGED <<total, lines, cost, dir, synced, free, second, running>>
  <2> DEFINE Path(a) == [second |-> second, attempt |-> a, partial |-> FALSE]
             Unused == {a \in 1..maxAttempts : ~Exists(Path(a))}
  <2>1. CASE Unused = {} /\ Goto(e, "refused") /\ UNCHANGED name
    <3>1. name[e] \in Names \cup {NoName} /\ name' = [name EXCEPT ![e] = name[e]]
      BY <2>1 DEF TypeOK
    <3> QED BY <2>1, <3>1 DEF UniquePath, Goto
  <2>2. CASE \E a \in Unused : name' = [name EXCEPT ![e] = Path(a)] /\ Goto(e, "open")
    <3>1. \A a \in Unused : Path(a) \in Names
      BY DEF Names, TypeOK
    <3> QED BY <2>2, <3>1 DEF UniquePath, Goto
  <2> QED BY <2>1, <2>2 DEF UniquePath
<1>2. TypeOK'
  BY <1>1 DEF TypeOK, Labels
<1>3. Named' /\ IdleIsEmpty' /\ Ready'
  BY <1>1 DEF TypeOK, Named, IdleIsEmpty, Ready
<1>4. \A f \in Exports \ {e} : name'[f] = name[f] /\ pc'[f] = pc[f]
  BY <1>1 DEF TypeOK
<1>5. \A n \in Names : dir[n] # e
  BY <1>1 DEF Owned, Unnamed
<1>6. Owned' /\ PartialIsMine'
  BY <1>1, <1>4, <1>5 DEF TypeOK, Owned, Unnamed, PartialIsMine, Partial
<1> QED BY <1>2, <1>3, <1>6

-----------------------------------------------------------------------------
(* O_EXCL: the partial is taken only where nothing was.                     *)
LEMMA OpenOK == ASSUME EInv, NEW e \in Exports, Open(e) PROVE EInv'
<1> USE DEF EInv, Goto
<1>1. name[e] \in Names /\ pc[e] = "open"
  BY DEF Open, Named
<1>2. Partial(e) \in Names /\ Partial(e).partial
  BY <1>1, NamesOfExport
<1>3. CASE Goto(e, "refused") /\ UNCHANGED dir
  <2>1. /\ pc' = [pc EXCEPT ![e] = "refused"]
        /\ UNCHANGED <<total, lines, cost, name, dir, synced, free, second, running>>
    BY <1>3 DEF Open
  <2>2. TypeOK' /\ Named' /\ IdleIsEmpty' /\ Ready'
    BY <2>1 DEF TypeOK, Labels, Named, IdleIsEmpty, Ready
  <2>3. Owned' /\ PartialIsMine'
    BY <1>1, <2>1 DEF TypeOK, Owned, Unnamed, PartialIsMine, Partial
  <2> QED BY <2>2, <2>3
<1>4. CASE /\ ~Exists(Partial(e)) /\ Goto(e, "stream")
           /\ dir' = [dir EXCEPT ![Partial(e)] = e]
  <2>1. /\ pc' = [pc EXCEPT ![e] = "stream"]
        /\ dir' = [dir EXCEPT ![Partial(e)] = e]
        /\ UNCHANGED <<total, lines, cost, name, synced, free, second, running>>
    BY <1>4 DEF Open
  <2>2. TypeOK'
    BY <1>2, <2>1 DEF TypeOK, Labels
  <2>3. Named' /\ IdleIsEmpty' /\ Ready'
    BY <1>1, <2>1 DEF TypeOK, Named, IdleIsEmpty, Ready
  <2>4. \A f \in Exports : Partial(f)' = Partial(f)
    BY <2>1 DEF Partial
  <2>5. Owned'
    BY <1>1, <1>2, <2>1, <2>4 DEF TypeOK, Owned, Unnamed
  <2>6. PartialIsMine'
    <3>1. \A f \in Exports : dir[Partial(f)] = f => Partial(f) # Partial(e)
      BY <1>4, ExportAssumption DEF Exists, PartialIsMine
    <3> QED BY <1>2, <2>1, <2>4, <3>1 DEF TypeOK, PartialIsMine
  <2> QED BY <2>2, <2>3, <2>5, <2>6
<1> QED BY <1>3, <1>4 DEF Open

(* A line more, or the decision to give up; the directory stays as it is.   *)
LEMMA StreamOK == ASSUME EInv, NEW e \in Exports, Stream(e) PROVE EInv'
<1> USE DEF EInv
<1>1. PICK l \in {"stream", "abort"}, k \in 0..1, c \in Nat :
        /\ pc[e] = "stream" /\ pc' = [pc EXCEPT ![e] = l]
        /\ lines[e] < total[e] /\ lines' = [lines EXCEPT ![e] = @ + k]
        /\ c <= free /\ cost' = [cost EXCEPT ![e] = @ + c] /\ free' = free - c
        /\ UNCHANGED <<total, name, dir, synced, second, running>>
  <2>1. CASE Goto(e, "abort") /\ UNCHANGED <<lines, cost, free>>
    <3>1. /\ lines' = [lines EXCEPT ![e] = @ + 0] /\ cost' = [cost EXCEPT ![e] = @ + 0]
          /\ free' = free - 0 /\ 0 <= free
      BY <2>1 DEF TypeOK
    <3>2. pc[e] = "stream" /\ lines[e] < total[e]
          /\ UNCHANGED <<total, name, dir, synced, second, running>>
      BY DEF Stream
    <3> WITNESS "abort" \in {"stream", "abort"}, 0 \in 0..1, 0 \in Nat
    <3> QED BY <2>1, <3>1, <3>2 DEF Goto
  <2>2. CASE ~(Goto(e, "abort") /\ UNCHANGED <<lines, cost, free>>)
    BY <2>2, ExportAssumption DEF Stream, Goto, TypeOK
  <2> QED BY <2>1, <2>2
<1>2. TypeOK'
  BY <1>1 DEF TypeOK, Labels
<1>3. Named' /\ IdleIsEmpty' /\ Ready'
  BY <1>1 DEF TypeOK, Named, IdleIsEmpty, Ready
<1>4. Owned' /\ PartialIsMine'
  BY <1>1 DEF TypeOK, Owned, Unnamed, PartialIsMine, Partial
<1> QED BY <1>2, <1>3, <1>4

(* Past a sync that succeeded the file is whole and on the platter.         *)
LEMMA SyncOK == ASSUME EInv, NEW e \in Exports, Sync(e) PROVE EInv'
<1> USE DEF EInv
<1>1. PICK l \in {"rename", "abort"}, S \in SUBSET {e} :
        /\ pc[e] = "stream" /\ pc' = [pc EXCEPT ![e] = l]
        /\ lines[e] = total[e]
        /\ synced' = synced \cup S /\ (l = "rename" => e \in S)
        /\ UNCHANGED <<total, lines, cost, name, dir, free, second, running>>
  <2>1. CASE Goto(e, "abort") /\ UNCHANGED synced
    <3>1. {} \in SUBSET {e} /\ synced' = synced \cup {}
      BY <2>1
    <3> QED BY <2>1, <3>1 DEF Sync, Goto
  <2>2. CASE Goto(e, "rename") /\ synced' = synced \cup {e}
    BY <2>2 DEF Sync, Goto
  <2> QED BY <2>1, <2>2 DEF Sync
<1>2. TypeOK'
  BY <1>1 DEF TypeOK, Labels
<1>3. Named' /\ IdleIsEmpty' /\ Ready'
  BY <1>1 DEF TypeOK, Named, IdleIsEmpty, Ready
<1>4. Owned' /\ PartialIsMine'
  BY <1>1 DEF TypeOK, Owned, Unnamed, PartialIsMine, Partial
<1> QED BY <1>2, <1>3, <1>4

-----------------------------------------------------------------------------
(* The partial is unlinked: the export has no file left.                    *)
LEMMA UnlinkOK ==
  ASSUME EInv, NEW e \in Exports, name[e] \in Names,
         pc[e] \in {"abort", "rename"},
         pc' = [pc EXCEPT ![e] = "failed"],
         dir' = [dir EXCEPT ![Partial(e)] = Nobody],
         free' = free + cost[e],
         UNCHANGED <<total, lines, cost, name, synced, second, running>>
  PROVE  EInv'
<1> USE DEF EInv
<1>1. Partial(e) \in Names /\ Partial(e).partial
  BY NamesOfExport
<1>2. TypeOK'
  BY <1>1 DEF TypeOK, Labels
<1>3. Named' /\ IdleIsEmpty' /\ Ready'
  BY DEF TypeOK, Named, IdleIsEmpty, Ready
<1>4. \A f \in Exports : Partial(f)' = Partial(f)
  BY DEF Partial
<1>5. Owned'
  BY <1>1, <1>4, ExportAssumption DEF TypeOK, Owned, Unnamed
<1>6. PartialIsMine'
  <2>1. dir[Partial(e)] = e
    BY DEF PartialIsMine
  <2> QED BY <1>1, <1>4, <2>1 DEF TypeOK, PartialIsMine
<1> QED BY <1>2, <1>3, <1>5, <1>6

(* A failed write: its partial is gone, or it is said to remain.            *)
LEMMA AbortOK == ASSUME EInv, NEW e \in Exports, Abort(e) PROVE EInv'
<1> USE DEF EInv
<1>1. /\ name[e] \in Names /\ pc[e] = "abort" /\ dir[Partial(e)] = e
      /\ UNCHANGED <<total, lines, cost, name, synced, second, running>>
  BY DEF Abort, Named, PartialIsMine
<1>2. CASE Goto(e, "failed") /\ dir' = [dir EXCEPT ![Partial(e)] = Nobody]
           /\ free' = free + cost[e]
  BY <1>1, <1>2, UnlinkOK DEF Goto
<1>3. CASE Goto(e, "failedToRemove") /\ UNCHANGED <<dir, free>>
  <2>1. TypeOK'
    BY <1>1, <1>3 DEF TypeOK, Labels, Goto
  <2>2. Named' /\ IdleIsEmpty' /\ Ready'
    BY <1>1, <1>3 DEF TypeOK, Named, IdleIsEmpty, Ready, Goto
  <2>3. Owned' /\ PartialIsMine'
    BY <1>1, <1>3 DEF TypeOK, Owned, Unnamed, PartialIsMine, Partial, Goto
  <2> QED BY <2>1, <2>2, <2>3
<1> QED BY <1>2, <1>3 DEF Abort

(* The file moves to its final name, in place of whatever had it.           *)
LEMMA RenameOK == ASSUME EInv, NEW e \in Exports, Rename(e) PROVE EInv'
<1> USE DEF EInv
<1>1. /\ name[e] \in Names /\ pc[e] = "rename" /\ dir[Partial(e)] = e
      /\ UNCHANGED <<total, lines, cost, name, synced, second, running>>
  BY DEF Rename, Named, PartialIsMine
<1>2. CASE Goto(e, "failed") /\ dir' = [dir EXCEPT ![Partial(e)] = Nobody]
           /\ free' = free + cost[e]
  BY <1>1, <1>2, UnlinkOK DEF Goto
<1>3. CASE /\ dir' = [dir EXCEPT ![Final(e)] = dir[Partial(e)], ![Partial(e)] = Nobody]
           /\ Goto(e, "chown")
           /\ free' = IF Exists(Final(e)) THEN free + cost[dir[Final(e)]] ELSE free
  <2>1. /\ Partial(e) \in Names /\ Partial(e).partial
        /\ Final(e) \in Names /\ ~Final(e).partial
    BY <1>1, NamesOfExport
  <2>2. /\ pc' = [pc EXCEPT ![e] = "chown"]
        /\ \A n \in Names : dir'[n] = IF n = Partial(e) THEN Nobody
                                      ELSE IF n = Final(e) THEN e ELSE dir[n]
        /\ dir' \in [Names -> Exports \cup {Nobody}]
    BY <1>1, <1>3, <2>1 DEF Goto, TypeOK
  <2>3. free' \in Nat
    BY <1>3, <2>1 DEF TypeOK, Exists
  <2>4. TypeOK'
    BY <1>1, <2>2, <2>3 DEF TypeOK, Labels
  <2>5. Named' /\ IdleIsEmpty' /\ Ready'
    BY <1>1, <2>2 DEF TypeOK, Named, IdleIsEmpty, Ready
  <2>6. \A f \in Exports : Partial(f)' = Partial(f)
    BY <1>1 DEF Partial
  <2>7. Owned'
    BY <1>1, <2>1, <2>2, <2>6, ExportAssumption DEF TypeOK, Owned, Unnamed
  <2>8. PartialIsMine'
    <3> SUFFICES ASSUME NEW f \in Exports, pc'[f] \in {"stream", "abort", "rename"}
                 PROVE  dir'[Partial(f)] = f
      BY <2>6 DEF PartialIsMine
    <3>1. f # e /\ pc'[f] = pc[f]
      BY <2>2 DEF TypeOK
    <3>2. dir[Partial(f)] = f /\ Partial(f) \in Names /\ Partial(f).partial
      BY <3>1, NamesOfExport DEF PartialIsMine, Named
    <3> QED BY <1>1, <2>1, <2>2, <3>1, <3>2
  <2> QED BY <2>4, <2>5, <2>7, <2>8
<1>4. CASE Goto(e, "failed") /\ UNCHANGED <<dir, free>>
  <2>1. TypeOK'
    BY <1>1, <1>4 DEF TypeOK, Labels, Goto
  <2>2. Named' /\ IdleIsEmpty' /\ Ready'
    BY <1>1, <1>4 DEF TypeOK, Named, IdleIsEmpty, Ready, Goto
  <2>3. e \in synced /\ lines[e] = total[e]
    BY <1>1 DEF Ready
  <2>4. Owned' /\ PartialIsMine'
    BY <1>1, <1>4, <2>3 DEF TypeOK, Owned, Unnamed, PartialIsMine, Partial, Goto
  <2> QED BY <2>1, <2>2, <2>4
<1> QED BY <1>2, <1>3, <1>4 DEF Rename

(* The chown changes neither the directory nor the file.                    *)
LEMMA ChownOK == ASSUME EInv, NEW e \in Exports, Chown(e) PROVE EInv'
<1> USE DEF EInv, Chown, Goto
<1>1. TypeOK'
  BY DEF TypeOK, Labels
<1>2. Named' /\ IdleIsEmpty' /\ Ready'
  BY DEF TypeOK, Named, IdleIsEmpty, Ready
<1>3. Owned' /\ PartialIsMine'
  BY DEF TypeOK, Owned, Unnamed, PartialIsMine, Partial
<1> QED BY <1>1, <1>2, <1>3

-----------------------------------------------------------------------------
(* Power is lost: what was not synced goes, and nothing else did.           *)
LEMMA PowerLossOK == ASSUME EInv, PowerLoss PROVE EInv'
<1> USE DEF EInv, PowerLoss
<1>1. TypeOK'
  <2>1. \A e \in Exports : lines[e] \in Nat /\ lines[e] <= total[e] /\ 0 <= total[e]
    BY ExportAssumption DEF TypeOK
  <2>2. lines' \in [Exports -> Nat] /\ \A e \in Exports : lines'[e] <= total[e]
    BY <2>1
  <2> QED BY <2>2 DEF TypeOK
<1>2. Named' /\ IdleIsEmpty' /\ Ready'
  BY DEF TypeOK, Named, IdleIsEmpty, Ready
<1>3. Owned' /\ PartialIsMine'
  BY DEF Owned, Unnamed, PartialIsMine, Partial
<1> QED BY <1>1, <1>2, <1>3

(* Steps of the world, and a stutter, that change no export.                *)
LEMMA WorldOK ==
  ASSUME EInv, Quit \/ ClockTicks \/ DiskFills \/ UNCHANGED vars
  PROVE  EInv'
<1> USE DEF EInv
<1>1. UNCHANGED <<pc, total, lines, cost, name, dir, synced>>
  BY DEF Quit, ClockTicks, DiskFills, vars
<1>2. free' \in Nat /\ second' \in 0..MaxSecond /\ running' \in BOOLEAN
  <2>1. free \in Nat /\ second \in 0..MaxSecond /\ running \in BOOLEAN /\ MaxSecond \in Nat
    BY ExportAssumption DEF TypeOK
  <2>2. CASE Quit
    BY <2>1, <2>2 DEF Quit
  <2>3. CASE ClockTicks
    BY <2>1, <2>3 DEF ClockTicks
  <2>4. CASE DiskFills
    BY <2>1, <2>4 DEF DiskFills
  <2>5. CASE UNCHANGED vars
    BY <2>1, <2>5 DEF vars
  <2> QED BY <2>2, <2>3, <2>4, <2>5
<1>3. TypeOK'
  BY <1>1, <1>2 DEF TypeOK
<1>4. Named' /\ IdleIsEmpty' /\ Ready' /\ Owned' /\ PartialIsMine'
  BY <1>1 DEF Named, IdleIsEmpty, Ready, Owned, Unnamed, PartialIsMine, Partial
<1> QED BY <1>3, <1>4

(* Every step of an export or of the world keeps the invariant.             *)
LEMMA NextEInv == EInv /\ [Next]_vars => EInv'
<1> SUFFICES ASSUME EInv, [Next]_vars PROVE EInv'
  OBVIOUS
<1>1. ASSUME NEW e \in Exports, Ask(e) \/ Step(e) PROVE EInv'
  BY <1>1, AskOK, PreflightOK, UniquePathOK, OpenOK, StreamOK, SyncOK,
     AbortOK, RenameOK, ChownOK DEF Step
<1>2. CASE PowerLoss
  BY <1>2, PowerLossOK
<1>3. CASE Quit \/ ClockTicks \/ DiskFills \/ UNCHANGED vars
  BY <1>3, WorldOK
<1> QED BY <1>1, <1>2, <1>3 DEF Next

-----------------------------------------------------------------------------
(* The inductive invariant of the exports: types, names where they are      *)
(* needed, synced files that are whole, and whose file is under which name. *)
THEOREM ExportInductive == Spec => []EInv
BY InitEInv, NextEInv, PTL DEF Spec

(* Space never runs below empty and no export writes more than it was asked.*)
THEOREM ExportTypeCorrect == Spec => []TypeOK
<1>1. EInv => TypeOK
  BY DEF EInv
<1> QED BY <1>1, ExportInductive, PTL

(* While an export writes, the partial under its name is its own: O_EXCL    *)
(* keeps any number of exports apart.                                       *)
THEOREM PartialsApart == Spec => []PartialIsMine
<1>1. EInv => PartialIsMine
  BY DEF EInv
<1> QED BY <1>1, ExportInductive, PTL

(* Whatever has a final name holds every event of the export it is of, also *)
(* after the power was lost.                                                *)
THEOREM CompleteFilesAreWhole == Spec => []CompleteIsWhole
<1>1. EInv => CompleteIsWhole
  <2> SUFFICES ASSUME EInv, NEW n \in Names, ~n.partial, Exists(n)
               PROVE  lines[dir[n]] = total[dir[n]]
    BY DEF CompleteIsWhole
  <2>1. dir[n] \in Exports
    BY DEF EInv, TypeOK, Exists
  <2>2. pc[dir[n]] \in {"chown", "done"}
    BY <2>1 DEF EInv, Owned, Unnamed
  <2> QED BY <2>1, <2>2 DEF EInv, Ready
<1> QED BY <1>1, ExportInductive, PTL

(* A refused export has no file in the directory, and a failed one at most  *)
(* the partial it could not remove: one its error names, or one that holds  *)
(* every event on the platter and only lacks its name.                      *)
THEOREM FailuresLeaveAtMostThePartial == Spec => []FailureLeavesAtMostThePartial
<1>1. EInv => FailureLeavesAtMostThePartial
  BY DEF EInv, Owned, Unnamed, FailureLeavesAtMostThePartial
<1> QED BY <1>1, ExportInductive, PTL
=============================================================================
