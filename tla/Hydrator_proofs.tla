--------------------------- MODULE Hydrator_proofs ---------------------------
(***************************************************************************)
(* Theorems of Hydrator, for every library, set of callers and set of      *)
(* failing operations.                                                     *)
(***************************************************************************)
EXTENDS Hydrator, TLAPS

LEMMA TargetIsPath == \A a \in Archives : Target(a) \in Paths
  BY DEF Paths

-----------------------------------------------------------------------------
(***************************************************************************)
(* Type correctness, and what a caller has in its hands at each place.     *)
(***************************************************************************)

\* A caller past its call's start has an archive, and past the lock its mutex.
Holding ==
    \A c \in Callers :
        /\ pc[c] # "idle" => arg[c] \in Archives
        /\ pc[c] \notin {"idle", "lock"} => lock[arg[c]] = c

Typed == TypeOK /\ Holding

\* A step that leaves the disk alone, and moves one caller that holds its mutex.
LEMMA MoveTyped ==
    ASSUME Typed, NEW c \in Callers, NEW to \in Places, pc[c] \notin {"idle", "lock"},
           pc' = [pc EXCEPT ![c] = to], UNCHANGED <<lock, arg>>
    PROVE  Holding' /\ pc' \in [Callers -> Places]
  BY DEF Typed, TypeOK, Holding

LEMMA StepTyped ==
    ASSUME Typed, NEW c \in Callers, Step(c)
    PROVE  Typed'
<1> USE DEF Goto, Fail, disk, bounds
<1>1. {"stat", "lookup", "extract", "7z", "classify", "repack", "rename", "copy", "copying",
       "clear", "clearing", "remove", "return", "fail", "idle"} \subseteq Places
  BY DEF Places
<1>2. pc[c] # "idle" => arg[c] \in Archives /\ Target(arg[c]) \in Paths
  BY TargetIsPath DEF Typed, Holding
<1>3. CASE Lock(c)
  <2>1. arg[c] \in Archives /\ pc' = [pc EXCEPT ![c] = "stat"]
        /\ lock' = [lock EXCEPT ![arg[c]] = c] /\ UNCHANGED arg
    BY <1>2, <1>3 DEF Lock
  <2>2. Holding'
    <3>1. ASSUME NEW d \in Callers \ {c}, pc[d] \notin {"idle", "lock"}
          PROVE  lock[arg[d]] = d /\ arg[d] # arg[c] /\ arg[d] \in Archives
      BY <1>3, <3>1, HydratorAssumption DEF Lock, Typed, Holding
    <3>2. QED
      BY <2>1, <3>1 DEF Typed, TypeOK, Holding
  <2>3. QED
    BY <1>1, <1>3, <2>1, <2>2 DEF Lock, Typed, TypeOK
<1>4. CASE Stat(c)
  <2>1. \E to \in Places : pc' = [pc EXCEPT ![c] = to] /\ pc[c] = "stat"
    BY <1>1, <1>4 DEF Stat
  <2>2. Holding' /\ pc' \in [Callers -> Places]
    BY <1>4, <2>1, MoveTyped DEF Stat
  <2>3. QED
    BY <1>4, <2>2 DEF Stat, Typed, TypeOK
<1>5. CASE Lookup(c)
  <2>1. Holding' /\ pc' \in [Callers -> Places]
    BY <1>1, <1>5, MoveTyped DEF Lookup
  <2>2. result' \in [Callers -> Paths \cup {Nil}]
    BY <1>5 DEF Lookup, Typed, TypeOK
  <2>3. QED
    BY <1>5, <2>1, <2>2 DEF Lookup, Typed, TypeOK
<1>6. CASE Start(c)
  <2>1. Holding' /\ pc' \in [Callers -> Places]
    BY <1>1, <1>6, MoveTyped DEF Start
  <2>2. QED
    BY <1>6, <2>1 DEF Start, Typed, TypeOK
<1>7. CASE SevenZipEnds(c)
  <2>1. Holding' /\ pc' \in [Callers -> Places]
    BY <1>1, <1>7, MoveTyped DEF SevenZipEnds
  <2>2. QED
    BY <1>7, <2>1 DEF SevenZipEnds, Typed, TypeOK
<1>8. CASE Classify(c)
  <2>1. Holding' /\ pc' \in [Callers -> Places]
    BY <1>1, <1>8, MoveTyped DEF Classify
  <2>2. QED
    BY <1>8, <2>1 DEF Classify, Typed, TypeOK
<1>9. CASE Repack(c)
  <2>1. Holding' /\ pc' \in [Callers -> Places]
    BY <1>1, <1>9, MoveTyped DEF Repack
  <2>2. QED
    BY <1>9, <2>1 DEF Repack, Typed, TypeOK
<1>10. CASE Clear(c)
  <2>1. Holding' /\ pc' \in [Callers -> Places]
    BY <1>1, <1>10, MoveTyped DEF Clear
  <2>2. partial' \subseteq {p \in Paths : content[p] # Nil}
    BY <1>2, <1>10 DEF Clear, Typed, TypeOK
  <2>3. QED
    BY <1>10, <2>1, <2>2 DEF Clear, Typed, TypeOK
<1>11. CASE Cleared(c)
  <2>1. Holding' /\ pc' \in [Callers -> Places]
    BY <1>1, <1>11, MoveTyped DEF Cleared
  <2>2. /\ content' \in [Paths -> Archives \cup {Nil}]
        /\ partial' \subseteq {p \in Paths : content'[p] # Nil}
    BY <1>2, <1>11 DEF Cleared, Typed, TypeOK
  <2>3. QED
    BY <1>11, <2>1, <2>2 DEF Cleared, Typed, TypeOK
<1>12. CASE Rename(c)
  <2>1. Holding' /\ pc' \in [Callers -> Places]
    BY <1>1, <1>12, MoveTyped DEF Rename
  <2>2. /\ content' \in [Paths -> Archives \cup {Nil}]
        /\ partial' \subseteq {p \in Paths : content'[p] # Nil}
    BY <1>2, <1>12 DEF Rename, Typed, TypeOK
  <2>3. torn' \subseteq Archives
    BY <1>12 DEF Rename, Typed, TypeOK
  <2>4. QED
    BY <1>12, <2>1, <2>2, <2>3 DEF Rename, Typed, TypeOK
<1>13. CASE Copy(c)
  <2>1. Holding' /\ pc' \in [Callers -> Places]
    BY <1>1, <1>13, MoveTyped DEF Copy
  <2>2. /\ content' \in [Paths -> Archives \cup {Nil}]
        /\ partial' \subseteq {p \in Paths : content'[p] # Nil}
    BY <1>2, <1>13, HydratorAssumption DEF Copy, Typed, TypeOK
  <2>3. QED
    BY <1>13, <2>1, <2>2 DEF Copy, Typed, TypeOK
<1>14. CASE Copied(c)
  <2>1. Holding' /\ pc' \in [Callers -> Places]
    BY <1>1, <1>14, MoveTyped DEF Copied
  <2>2. /\ partial' \subseteq {p \in Paths : content[p] # Nil}
        /\ torn' \subseteq Archives
    BY <1>2, <1>14 DEF Copied, Typed, TypeOK
  <2>3. QED
    BY <1>14, <2>1, <2>2 DEF Copied, Typed, TypeOK
<1>15. CASE RemoveArchive(c)
  <2>1. Holding' /\ pc' \in [Callers -> Places]
    BY <1>1, <1>15, MoveTyped DEF RemoveArchive
  <2>2. /\ archives' \subseteq Archives
        /\ result' \in [Callers -> Paths \cup {Nil}]
    BY <1>2, <1>15 DEF RemoveArchive, Typed, TypeOK
  <2>3. QED
    BY <1>15, <2>1, <2>2 DEF RemoveArchive, Typed, TypeOK
<1>16. CASE Return(c)
  <2>1. arg[c] \in Archives /\ lock[arg[c]] = c /\ pc' = [pc EXCEPT ![c] = "idle"]
    BY <1>16 DEF Return, Typed, Holding
  <2>2. Holding'
    <3>1. ASSUME NEW d \in Callers, pc'[d] \notin {"idle", "lock"}
          PROVE  d # c /\ lock[arg[d]] = d /\ arg[d] # arg[c]
      BY <2>1, <3>1 DEF Typed, TypeOK, Holding
    <3>2. QED
      BY <1>16, <2>1, <3>1 DEF Return, Typed, TypeOK, Holding
  <2>3. pc' \in [Callers -> Places]
    BY <1>1, <2>1 DEF Typed, TypeOK
  <2>4. QED
    BY <1>16, <2>2, <2>3 DEF Return, Typed, TypeOK
<1>17. QED
  BY <1>3, <1>4, <1>5, <1>6, <1>7, <1>8, <1>9, <1>10, <1>11, <1>12, <1>13, <1>14,
     <1>15, <1>16 DEF Step

LEMMA TypedHolds == Spec => []Typed
<1>1. Init => Typed
  BY HydratorAssumption DEF Init, Typed, TypeOK, Holding, Places
<1>2. Typed /\ [Next]_vars => Typed'
  <2> SUFFICES ASSUME Typed, [Next]_vars
               PROVE  Typed'
    OBVIOUS
  <2> USE DEF Goto, disk, bounds
  <2>1. ASSUME NEW c \in Callers, NEW a \in Archives, Resolve(c, a)
        PROVE  Typed'
    BY <2>1 DEF Resolve, Typed, TypeOK, Holding, Places
  <2>2. ASSUME NEW c \in Callers, Step(c)
        PROVE  Typed'
    BY <2>2, StepTyped
  <2>3. CASE Crash
    BY <2>3 DEF Crash, Typed, TypeOK, Holding, Places
  <2>4. CASE UNCHANGED vars
    BY <2>4 DEF vars, Typed, TypeOK, Holding
  <2>5. QED
    BY <2>1, <2>2, <2>3, <2>4 DEF Next
<1>3. QED
  BY <1>1, <1>2, PTL DEF Spec

\* Every variable keeps its type, and only a path that holds something is
\* called partial.
THEOREM TypeCorrect == Spec => []TypeOK
<1>1. Typed => TypeOK
  BY DEF Typed
<1>2. QED
  BY <1>1, TypedHolds, PTL
-----------------------------------------------------------------------------
(***************************************************************************)
(* What is on the disk.                                                    *)
(***************************************************************************)

Unpacking == {"extract", "7z", "classify", "repack", "rename", "copy", "copying",
              "clear", "clearing", "remove"}

\* The place of an archive's payload holds it, if not all of it.
Begun(a) == content[Target(a)] = a

\* All of it, but for a copy that was cut short unnoticed.
Kept(a) == Whole(a) \/ a \in torn

\* A caller that unpacks has the archive still, and one that looks a payload up
\* has not.  Of an archive with a path of its own, the one that copies has begun
\* the payload, and one about to remove the archive or to return has it.
DiskInv ==
    /\ NoLoss
    /\ \A c \in Callers :
        /\ pc[c] \in Unpacking => arg[c] \in archives
        /\ pc[c] = "lookup" => arg[c] \notin archives
        /\ Alone(arg[c]) =>
            /\ pc[c] = "copying" => Begun(arg[c])
            /\ pc[c] \in {"remove", "return"} => Kept(arg[c])

\* A step of a caller past the lock that writes only the payload of its own
\* archive leaves what other archives and other callers rely on.
LEMMA OwnPayload ==
    ASSUME Typed, DiskInv, NEW c \in Callers, arg[c] \in archives,
           pc[c] \in Unpacking, NEW to \in Places, pc' = [pc EXCEPT ![c] = to],
           UNCHANGED <<archives, arg>>,
           \A p \in Paths \ {Target(arg[c])} :
                content'[p] = content[p] /\ (p \in partial' <=> p \in partial),
           \A a \in Archives \ {arg[c]} : a \in torn' <=> a \in torn,
           to \notin {"lookup", "return"},
           to = "copying" => Begun(arg[c])',
           Alone(arg[c]) /\ to = "remove" => Kept(arg[c])'
    PROVE  DiskInv'
<1>1. arg[c] \in Archives /\ lock[arg[c]] = c
  BY DEF Typed, Holding, Unpacking
<1>2. ASSUME NEW a \in Archives, a # arg[c], Alone(a)
      PROVE  (Kept(a) => Kept(a)') /\ (Begun(a) => Begun(a)')
  <2>1. Target(a) \in Paths \ {Target(arg[c])} /\ a \in Archives \ {arg[c]}
    BY <1>1, <1>2, TargetIsPath DEF Alone
  <2>2. /\ content'[Target(a)] = content[Target(a)]
        /\ Target(a) \in partial' <=> Target(a) \in partial
        /\ a \in torn' <=> a \in torn
    BY <2>1
  <2>3. QED
    BY <2>2 DEF Kept, Whole, Begun
<1>3. NoLoss'
  <2>1. ASSUME NEW a \in Archives, Alone(a)
        PROVE  a \in archives \/ Kept(a)'
    <3>1. a \in archives \/ Kept(a)
      BY <2>1 DEF DiskInv, NoLoss, Kept
    <3>2. QED
      BY <1>2, <2>1, <3>1
  <2>2. QED
    BY <2>1 DEF NoLoss, Kept
<1>4. ASSUME NEW d \in Callers, d # c, Alone(arg[d]), pc[d] \in {"copying", "remove", "return"}
      PROVE  /\ pc[d] \in {"remove", "return"} => Kept(arg[d])'
             /\ pc[d] = "copying" => Begun(arg[d])'
  <2>1. arg[d] \in Archives /\ arg[d] # arg[c]
    BY <1>1, <1>4 DEF Typed, Holding
  <2>2. QED
    BY <1>2, <1>4, <2>1 DEF DiskInv
<1>5. ASSUME NEW d \in Callers
      PROVE  /\ pc'[d] \in Unpacking => arg[d] \in archives
             /\ pc'[d] = "lookup" => arg[d] \notin archives
             /\ Alone(arg[d]) =>
                    /\ pc'[d] = "copying" => Begun(arg[d])'
                    /\ pc'[d] \in {"remove", "return"} => Kept(arg[d])'
  <2>1. CASE d = c
    BY <2>1 DEF Typed, TypeOK
  <2>2. CASE d # c
    BY <1>4, <2>2 DEF Typed, TypeOK, DiskInv
  <2>3. QED
    BY <2>1, <2>2
<1>6. QED
  BY <1>3, <1>5 DEF DiskInv

\* A step that leaves the disk alone.
LEMMA DiskAlone ==
    ASSUME Typed, DiskInv, NEW c \in Callers, NEW to \in Places,
           pc' = [pc EXCEPT ![c] = to], UNCHANGED <<disk>>,
           \A d \in Callers \ {c} : arg'[d] = arg[d],
           to \in Unpacking => arg'[c] \in archives,
           to # "copying",
           Alone(arg'[c]) /\ to \in {"remove", "return"} => Kept(arg'[c]),
           to = "lookup" => arg'[c] \notin archives
    PROVE  DiskInv'
<1>1. \A a : (Kept(a)' <=> Kept(a)) /\ (Begun(a)' <=> Begun(a))
  BY DEF Kept, Whole, Begun, disk
<1>2. NoLoss'
  BY DEF DiskInv, NoLoss, Whole, disk
<1>3. ASSUME NEW d \in Callers
      PROVE  /\ pc'[d] \in Unpacking => arg'[d] \in archives
             /\ pc'[d] = "lookup" => arg'[d] \notin archives
             /\ Alone(arg'[d]) =>
                    /\ pc'[d] = "copying" => Begun(arg'[d])
                    /\ pc'[d] \in {"remove", "return"} => Kept(arg'[d])
  <2>1. CASE d = c
    BY <2>1 DEF Typed, TypeOK
  <2>2. CASE d # c
    BY <2>2 DEF Typed, TypeOK, DiskInv
  <2>3. QED
    BY <2>1, <2>2
<1>4. QED
  BY <1>2, <1>3 DEF DiskInv, Alone, Kept, Whole, Begun, disk

LEMMA StepKeepsDisk ==
    ASSUME Typed, DiskInv, NEW c \in Callers, Step(c)
    PROVE  DiskInv'
<1> USE DEF Goto, Fail
<1>1. {"stat", "lookup", "extract", "7z", "classify", "repack", "rename", "copy", "copying",
       "clear", "clearing", "remove", "return", "fail", "idle"} \subseteq Places
  BY DEF Places
<1>2. pc[c] \in Unpacking => arg[c] \in archives /\ arg[c] \in Archives
  BY DEF DiskInv, Typed, Holding, Unpacking
<1>3. CASE Lock(c) \/ Return(c)
  <2>1. \E to \in {"stat", "idle"} : pc' = [pc EXCEPT ![c] = to]
    BY <1>3 DEF Lock, Return
  <2>2. UNCHANGED <<disk>> /\ \A d \in Callers \ {c} : arg'[d] = arg[d]
    BY <1>3 DEF Lock, Return, Typed, TypeOK
  <2>3. ASSUME NEW to \in {"stat", "idle"}, pc' = [pc EXCEPT ![c] = to]
        PROVE  DiskInv'
    <3>1. to \in Places /\ to \notin Unpacking \cup {"copying", "remove", "return", "lookup"}
      BY <1>1, <2>3 DEF Unpacking
    <3>2. QED
      BY <2>2, <2>3, <3>1, DiskAlone
  <2>4. QED
    BY <2>1, <2>3
<1>4. CASE Stat(c)
  <2>1. UNCHANGED <<disk>> /\ UNCHANGED arg
    BY <1>4 DEF Stat
  <2>2. CASE arg[c] \in archives
    <3>1. pc' = [pc EXCEPT ![c] = "extract"]
      BY <1>4, <2>2 DEF Stat
    <3>2. QED
      BY <1>1, <2>1, <2>2, <3>1, DiskAlone DEF Unpacking
  <2>3. CASE arg[c] \notin archives
    <3>1. pc' = [pc EXCEPT ![c] = "lookup"]
      BY <1>4, <2>3 DEF Stat
    <3>2. QED
      BY <1>1, <2>1, <2>3, <3>1, DiskAlone DEF Unpacking
  <2>4. QED
    BY <2>2, <2>3
<1>5. CASE Lookup(c)
  <2>1. pc[c] = "lookup" /\ pc' = [pc EXCEPT ![c] = "return"]
        /\ UNCHANGED <<disk>> /\ UNCHANGED arg
    BY <1>5 DEF Lookup
  <2>2. Alone(arg[c]) => Kept(arg[c])
    BY <2>1 DEF DiskInv, NoLoss, Kept, Typed, Holding
  <2>3. QED
    BY <1>1, <2>1, <2>2, DiskAlone DEF Unpacking
<1>6. CASE Start(c) \/ SevenZipEnds(c) \/ Classify(c) \/ Repack(c)
  <2>1. /\ pc[c] \in Unpacking
        /\ \E to \in {"7z", "fail", "classify", "rename", "repack", "clear"} :
                pc' = [pc EXCEPT ![c] = to]
        /\ UNCHANGED <<disk>> /\ UNCHANGED arg
    BY <1>6 DEF Start, SevenZipEnds, Classify, Repack, Unpacking
  <2>2. QED
    BY <1>1, <1>2, <2>1, DiskAlone DEF Unpacking
<1>7. CASE Clear(c) \/ Cleared(c) \/ Copy(c) \/ Copied(c)
  <2>1. /\ pc[c] \in Unpacking
        /\ UNCHANGED <<archives, arg>>
        /\ \A p \in Paths \ {Target(arg[c])} :
                content'[p] = content[p] /\ (p \in partial' <=> p \in partial)
        /\ \A a \in Archives \ {arg[c]} : a \in torn' <=> a \in torn
    BY <1>2, <1>7 DEF Clear, Cleared, Copy, Copied, Unpacking, Typed, TypeOK, disk
  <2>2. CASE \E to \in {"clearing", "rename", "fail"} : pc' = [pc EXCEPT ![c] = to]
    BY <1>1, <1>2, <2>1, <2>2, OwnPayload
  <2>3. CASE Copy(c)
    <3>1. /\ pc' = [pc EXCEPT ![c] = "copying"]
          /\ content' = [content EXCEPT ![Target(arg[c])] = arg[c]]
      BY <2>3 DEF Copy
    <3>2. Begun(arg[c])'
      BY <1>2, <2>1, <3>1, TargetIsPath DEF Begun, Typed, TypeOK
    <3>3. QED
      BY <1>1, <1>2, <2>1, <3>1, <3>2, OwnPayload
  <2>4. CASE Copied(c) /\ pc' = [pc EXCEPT ![c] = "remove"]
    <3>1. CASE Alone(arg[c])
      <4>1. pc[c] = "copying" /\ UNCHANGED content
        BY <2>4 DEF Copied, disk, Typed, TypeOK
      <4>2. Target(arg[c]) \notin partial' \/ arg[c] \in torn'
        BY <2>4 DEF Copied, Typed, TypeOK
      <4>3. Kept(arg[c])'
        BY <2>1, <3>1, <4>1, <4>2 DEF Kept, Whole, DiskInv, Begun
      <4>4. QED
        BY <1>1, <1>2, <2>1, <2>4, <4>3, OwnPayload
    <3>2. CASE ~Alone(arg[c])
      BY <1>1, <1>2, <2>1, <2>4, <3>2, OwnPayload
    <3>3. QED
      BY <3>1, <3>2
  <2>5. QED
    BY <1>7, <2>2, <2>3, <2>4 DEF Clear, Cleared, Copied
<1>8. CASE Rename(c)
  <2>1. /\ pc[c] \in Unpacking
        /\ UNCHANGED <<archives, arg>>
        /\ \A p \in Paths \ {Target(arg[c])} :
                content'[p] = content[p] /\ (p \in partial' <=> p \in partial)
        /\ \A a \in Archives \ {arg[c]} : a \in torn' <=> a \in torn
    BY <1>2, <1>8 DEF Rename, Unpacking, Typed, TypeOK, disk
  <2>2. CASE \E to \in {"copy", "fail"} : pc' = [pc EXCEPT ![c] = to]
    BY <1>1, <1>2, <2>1, <2>2, OwnPayload
  <2>3. CASE /\ pc' = [pc EXCEPT ![c] = "remove"]
             /\ content' = [content EXCEPT ![Target(arg[c])] = arg[c]]
             /\ partial' = partial \ {Target(arg[c])}
    <3>1. Kept(arg[c])'
      BY <1>2, <2>1, <2>3, TargetIsPath DEF Kept, Whole, Typed, TypeOK
    <3>2. QED
      BY <1>1, <1>2, <2>1, <2>3, <3>1, OwnPayload
  <2>4. QED
    BY <1>8, <2>2, <2>3 DEF Rename
<1>9. CASE RemoveArchive(c)
  <2>1. /\ pc[c] = "remove" /\ pc' = [pc EXCEPT ![c] = "return"]
        /\ UNCHANGED <<content, partial, torn, arg>>
        /\ archives' \in {archives, archives \ {arg[c]}}
    BY <1>9 DEF RemoveArchive
  <2>2. arg[c] \in Archives /\ lock[arg[c]] = c /\ (Alone(arg[c]) => Kept(arg[c]))
    BY <2>1 DEF Typed, Holding, DiskInv
  <2>3. \A a : (Kept(a)' <=> Kept(a)) /\ (Begun(a)' <=> Begun(a))
    BY <2>1 DEF Kept, Whole, Begun
  <2>4. NoLoss'
    BY <2>1, <2>2 DEF DiskInv, NoLoss, Kept, Whole
  <2>5. ASSUME NEW d \in Callers
        PROVE  /\ pc'[d] \in Unpacking => arg[d] \in archives'
               /\ pc'[d] = "lookup" => arg[d] \notin archives'
               /\ Alone(arg[d]) =>
                    /\ pc'[d] = "copying" => Begun(arg[d])
                    /\ pc'[d] \in {"remove", "return"} => Kept(arg[d])
    <3>1. CASE d = c
      BY <2>1, <2>2, <3>1 DEF Typed, TypeOK, Unpacking
    <3>2. CASE d # c
      <4>1. pc'[d] = pc[d]
        BY <2>1, <3>2 DEF Typed, TypeOK
      <4>2. pc[d] \in Unpacking => arg[d] # arg[c]
        BY <2>2, <3>2 DEF Typed, Holding, Unpacking
      <4>3. QED
        BY <2>1, <4>1, <4>2 DEF DiskInv
    <3>3. QED
      BY <3>1, <3>2
  <2>6. QED
    BY <2>1, <2>4, <2>5 DEF DiskInv, Alone, Kept, Whole, Begun
<1>10. QED
  BY <1>3, <1>4, <1>5, <1>6, <1>7, <1>8, <1>9 DEF Step

\* The disk invariant is kept by every step, a crash included.
LEMMA DiskInvHolds == Spec => []DiskInv
<1>1. Init => DiskInv
  BY DEF Init, DiskInv, NoLoss, Unpacking
<1>2. Typed /\ DiskInv /\ [Next]_vars => DiskInv'
  <2> SUFFICES ASSUME Typed, DiskInv, [Next]_vars
               PROVE  DiskInv'
    OBVIOUS
  <2>1. ASSUME NEW c \in Callers, NEW a \in Archives, Resolve(c, a)
        PROVE  DiskInv'
    <3>1. /\ pc' = [pc EXCEPT ![c] = "lock"] /\ UNCHANGED <<disk>>
          /\ \A d \in Callers \ {c} : arg'[d] = arg[d]
          /\ "lock" \in Places
      BY <2>1 DEF Resolve, Goto, Typed, TypeOK, Places
    <3>2. QED
      BY <3>1, DiskAlone DEF Unpacking
  <2>2. ASSUME NEW c \in Callers, Step(c)
        PROVE  DiskInv'
    BY <2>2, StepKeepsDisk
  <2>3. ASSUME UNCHANGED <<disk, pc, arg>>
        PROVE  DiskInv'
    BY <2>3 DEF disk, DiskInv, NoLoss, Kept, Whole, Begun, Alone
  <2>4. CASE Crash
    <3>1. NoLoss'
      BY <2>4 DEF Crash, disk, DiskInv, NoLoss, Whole
    <3>2. \A c \in Callers : pc'[c] = "idle"
      BY <2>4 DEF Crash
    <3>3. QED
      BY <3>1, <3>2 DEF DiskInv, Unpacking
  <2>5. QED
    BY <2>1, <2>2, <2>3, <2>4 DEF Next, vars
<1>3. QED
  BY <1>1, <1>2, TypedHolds, PTL DEF Spec

\* Whatever fails, and wherever the worker crashes, no game is lost whose archive
\* unpacks to a path of its own, but for a copy cut short unnoticed (hydrator.go,
\* Resolve and extract).
THEOREM NoLossHolds == Spec => []NoLoss
<1>1. DiskInv => NoLoss
  BY DEF DiskInv
<1>2. QED
  BY <1>1, DiskInvHolds, PTL

\* Findable means what it says: the lookup takes one path for the archive's.
LEMMA FindableTells ==
    ASSUME NEW a \in Archives, Findable(a), NEW p \in Paths
    PROVE  Likely(a, p) <=> p = Target(a)
<1>1. Likely(a, Target(a))
  <2>1. Target(a).ext = "gdi" => Target(a).name = Stem[a]
    BY HydratorAssumption DEF Target, Trees, Kinds
  <2>2. QED
    BY <2>1 DEF Findable, Likely
<1>2. ASSUME Likely(a, p), p # Target(a)
      PROVE  FALSE
  <2>1. PICK b \in Archives : p = Target(b)
    BY DEF Paths
  <2>2. b \in Archives \ {a}
    BY <1>2, <2>1
  <2>3. CASE p.ext = "iso"
    BY <1>2, <2>1, <2>2, <2>3 DEF Findable, Likely
  <2>4. CASE p.ext # "iso"
    <3>1. p.ext = "gdi" /\ p.name = Stem[a]
      BY <1>2, <2>4 DEF Likely
    <3>2. p.name = Stem[b]
      BY <2>1, <3>1, HydratorAssumption DEF Target, Trees, Kinds
    <3>3. QED
      BY <2>2, <3>1, <3>2, HydratorAssumption
  <2>5. QED
    BY <2>3, <2>4
<1>3. QED
  BY <1>1, <1>2

\* A caller about to return has the path of its payload, if that can be told.
Handed ==
    \A c \in Callers :
        pc[c] = "return" /\ Alone(arg[c]) /\ arg[c] \notin torn /\ Findable(arg[c]) =>
            result[c] = Target(arg[c])

\* Every call, for an archive with a path of its own whose copy was not cut short
\* unnoticed, that gets through the extraction or finds the archive gone, finds
\* the whole payload on the disk, and returns it where the lookup can tell it
\* from others (hydrator.go, Resolve and findLikelyPayload).
THEOREM ServedHolds == Spec => []Served
<1>1. Init => Handed
  BY DEF Init, Handed
<1>2. Typed /\ DiskInv /\ Handed /\ [Next]_vars => Handed'
  <2> SUFFICES ASSUME Typed, DiskInv, Handed, [Next]_vars
               PROVE  Handed'
    OBVIOUS
  <2> USE DEF Goto, Fail, Typed, TypeOK
  <2>0. ASSUME NEW c \in Callers, NEW to \in Places \ {"return"}, pc' = [pc EXCEPT ![c] = to],
               \A d \in Callers \ {c} : arg'[d] = arg[d] /\ result'[d] = result[d],
               \A a \in Archives \ {arg[c]} : a \in torn => a \in torn',
               pc[c] \notin {"idle", "lock"} \/ UNCHANGED torn
        PROVE  Handed'
    <3>1. ASSUME NEW d \in Callers, pc'[d] = "return"
          PROVE  /\ d # c /\ pc[d] = "return" /\ arg'[d] = arg[d] /\ result'[d] = result[d]
                 /\ arg[d] \in torn => arg[d] \in torn'
      <4>1. d # c /\ pc[d] = "return"
        BY <2>0, <3>1
      <4>2. arg[d] \in Archives /\ (pc[c] \notin {"idle", "lock"} => arg[d] # arg[c])
        BY <4>1 DEF Holding
      <4>3. QED
        BY <2>0, <4>1, <4>2
    <3>2. QED
      BY <3>1 DEF Handed, Alone, Findable
  <2>1. ASSUME NEW c \in Callers, NEW a \in Archives, Resolve(c, a)
        PROVE  Handed'
    <3>1. /\ pc' = [pc EXCEPT ![c] = "lock"] /\ "lock" \in Places \ {"return"}
          /\ \A d \in Callers \ {c} : arg'[d] = arg[d] /\ result'[d] = result[d]
          /\ UNCHANGED torn
      BY <2>1 DEF Resolve, disk, Places
    <3>2. QED
      BY <2>0, <3>1
  <2>2. ASSUME NEW c \in Callers, Step(c)
        PROVE  Handed'
    <3>1. CASE Lookup(c)
      <4>1. arg[c] \in Archives /\ pc[c] = "lookup" /\ arg[c] \notin archives
        BY <3>1 DEF Lookup, DiskInv, Holding
      <4>2. /\ pc' = [pc EXCEPT ![c] = "return"]
            /\ UNCHANGED <<disk, arg>>
            /\ \A d \in Callers \ {c} : result'[d] = result[d]
        BY <3>1 DEF Lookup
      <4>3. ASSUME Alone(arg[c]), arg[c] \notin torn, Findable(arg[c])
            PROVE  result'[c] = Target(arg[c])
        <5>1. Whole(arg[c])
          BY <4>1, <4>3 DEF DiskInv, NoLoss
        <5>2. {p \in Paths : content[p] # Nil /\ Likely(arg[c], p)} = {Target(arg[c])}
          BY <4>1, <4>3, <5>1, FindableTells, TargetIsPath, HydratorAssumption DEF Whole
        <5>3. QED
          BY <3>1, <5>2 DEF Lookup
      <4>4. QED
        BY <4>2, <4>3 DEF Handed, Alone, Findable, disk
    <3>2. CASE RemoveArchive(c)
      BY <3>2 DEF RemoveArchive, Handed, Alone, Findable
    <3>3. CASE Lock(c)
      <4>1. /\ pc' = [pc EXCEPT ![c] = "stat"] /\ "stat" \in Places \ {"return"}
            /\ UNCHANGED <<arg, result, torn>>
        BY <3>3 DEF Lock, disk, Places
      <4>2. QED
        BY <2>0, <4>1
    <3>4. CASE ~Lock(c) /\ ~Lookup(c) /\ ~RemoveArchive(c)
      <4>1. /\ pc[c] \notin {"idle", "lock"}
            /\ \E to \in Places \ {"return"} : pc' = [pc EXCEPT ![c] = to]
        <5>1. CASE Stat(c) \/ Return(c) \/ Start(c) \/ SevenZipEnds(c) \/ Repack(c)
          BY <5>1 DEF Stat, Return, Start, SevenZipEnds, Repack, Places
        <5>2. CASE Classify(c) \/ Clear(c) \/ Cleared(c)
          BY <5>2 DEF Classify, Clear, Cleared, Places
        <5>3. CASE Rename(c) \/ Copy(c) \/ Copied(c)
          BY <5>3 DEF Rename, Copy, Copied, Places
        <5>4. QED
          BY <2>2, <3>4, <5>1, <5>2, <5>3 DEF Step
      <4>2. /\ \A d \in Callers \ {c} : arg'[d] = arg[d] /\ result'[d] = result[d]
            /\ \A a \in Archives \ {arg[c]} : a \in torn => a \in torn'
        <5>1. CASE Stat(c) \/ Start(c) \/ SevenZipEnds(c) \/ Repack(c) \/ Classify(c)
          BY <5>1 DEF Stat, Start, SevenZipEnds, Repack, Classify, disk
        <5>2. CASE Clear(c) \/ Cleared(c) \/ Return(c)
          BY <5>2 DEF Clear, Cleared, Return, disk
        <5>3. CASE Rename(c) \/ Copy(c) \/ Copied(c)
          BY <5>3 DEF Rename, Copy, Copied, disk
        <5>4. QED
          BY <2>2, <3>4, <5>1, <5>2, <5>3 DEF Step
      <4>3. QED
        BY <2>0, <4>1, <4>2
    <3>5. QED
      BY <3>1, <3>2, <3>3, <3>4
  <2>3. CASE Crash
    BY <2>3 DEF Crash, Handed
  <2>4. ASSUME UNCHANGED <<pc, arg, result, torn>>
        PROVE  Handed'
    BY <2>4 DEF Handed, Alone, Findable
  <2>5. QED
    BY <2>1, <2>2, <2>3, <2>4 DEF Next, vars, disk
<1>3. Typed /\ Handed /\ DiskInv => Served
  BY DEF Handed, DiskInv, Served, Kept
<1>4. QED
  BY <1>1, <1>2, <1>3, TypedHolds, DiskInvHolds, PTL DEF Spec
=============================================================================
